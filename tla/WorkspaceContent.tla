--------------------------- MODULE WorkspaceContent ---------------------------
(***************************************************************************)
(* The documents of one workspace: its collections, the requests saved in   *)
(* them, and the comments of its members.  Every operation finds what it is *)
(* about, then the workspace, then the caller's membership, and writes only *)
(* some calls later; roles change, and deletions cascade, in between.       *)
(*                                                                         *)
(* What a document says is left out, so that to write one back as it was    *)
(* read changes nothing while it exists.  Reading operations change nothing *)
(* either, and collections from before workspaces are left out.             *)
(***************************************************************************)
EXTENDS Naturals, FiniteSets

CONSTANTS
    Requests,     \* requests the server works on at a time
    Owner,        \* the user who made the workspace
    Members,      \* the other users
    NoUser,       \* nobody
    MaxDocs       \* bound on the documents ever inserted

ASSUME ContentAssumption ==
    /\ IsFiniteSet(Requests)
    /\ Owner \notin Members
    /\ NoUser \notin Members \cup {Owner}
    /\ MaxDocs \in Nat

VARIABLES
    live,      \* the workspace document exists
    role,      \* the rank each member has in it
    docs,      \* the document of each _id
    made,      \* documents inserted so far; the newest one's _id
    req,       \* the call each request is about to make, and as history the
               \* highest rank its user had since it began
    swept,     \* history: the newest _id when the deletion of a collection, or
               \* at 0 of the workspace, began to sweep what is in it
    purged     \* history: the collections, and 0, that a purge took instead

vars == <<live, role, docs, made, req, swept, purged>>

-----------------------------------------------------------------------------
Viewer == 1
Editor == 2
Rank == 0..3     \* 0 for strangers, 3 for the owner

Users == Members \cup {Owner}
Ids == 1..MaxDocs
Kind == {"none", "collection", "request", "comment"}
Op == {"none", "new", "update", "delete", "deleteWorkspace", "purge"}
Step == {"idle", "request", "collection", "workspace", "role", "comment", "insert",
         "write", "sweep", "drop", "list", "sweepAll", "members", "comments",
         "dropWorkspace", "purgeRequests", "purgeCollections", "purgeWorkspaces"}

Doc == [kind : Kind, in : 0..MaxDocs, by : Users \cup {NoUser}]
Req == [op : Op, at : Step, user : Users \cup {NoUser}, id : 0..MaxDocs, in : 0..MaxDocs,
        kind : Kind, mine : BOOLEAN, had : Rank, newest : 0..MaxDocs, todo : SUBSET Ids]

NoDoc == [kind |-> "none", in |-> 0, by |-> NoUser]
NoReq == [op |-> "none", at |-> "idle", user |-> NoUser, id |-> 0, in |-> 0,
          kind |-> "none", mine |-> FALSE, had |-> 0, newest |-> 0, todo |-> {}]

Of(kind) == {i \in Ids : docs[i].kind = kind}
In(c) == {i \in Of("request") : docs[i].in = c}
By(kind, u) == {i \in Of(kind) : docs[i].by = u}
Without(gone) == [i \in Ids |-> IF i \in gone THEN NoDoc ELSE docs[i]]

RankOf(u) == IF u = Owner THEN 3 ELSE role[u]

Advance(h, step) == req' = [req EXCEPT ![h].at = step]
Finish(h) == req' = [req EXCEPT ![h] = NoReq]

Init ==
    /\ live = TRUE
    /\ role \in [Members -> {Viewer, Editor}]
    /\ docs = [i \in Ids |-> NoDoc]
    /\ made = 0
    /\ req = [h \in Requests |-> NoReq]
    /\ swept = [i \in 0..MaxDocs |-> MaxDocs]
    /\ purged = {}

-----------------------------------------------------------------------------
(* Requests begin; the ids they name are those the caller has seen.          *)

Start(h, r) ==
    /\ req[h].at = "idle"
    /\ req' = [req EXCEPT ![h] = [r EXCEPT !.had = RankOf(r.user)]]
    /\ UNCHANGED <<live, role, docs, made, swept, purged>>

(* create_collection and add_comment. *)
StartNew(h, u, kind) ==
    Start(h, [NoReq EXCEPT !.op = "new", !.at = "workspace", !.user = u, !.kind = kind])

StartAdd(h, u, c) ==
    /\ docs[c].kind = "collection"
    /\ Start(h, [NoReq EXCEPT !.op = "new", !.at = "collection", !.user = u,
                              !.kind = "request", !.in = c])

FirstStep(kind) ==
    CASE kind = "request" -> "request" [] kind = "collection" -> "collection"
      [] OTHER -> "workspace"

(* update_collection, update_request, execute_request and the deletions. *)
StartExisting(h, u, op, i) ==
    /\ docs[i].kind # "none"
    /\ op = "update" => docs[i].kind # "comment"
    /\ Start(h, [NoReq EXCEPT !.op = op, !.at = FirstStep(docs[i].kind), !.user = u,
                              !.kind = docs[i].kind, !.id = i,
                              !.in = IF docs[i].kind = "collection" THEN i ELSE 0])

StartDeleteWorkspace(h) ==
    Start(h, [NoReq EXCEPT !.op = "deleteWorkspace", !.at = "workspace", !.user = Owner])

StartPurge(h, u) ==
    Start(h, [NoReq EXCEPT !.op = "purge", !.at = "purgeRequests", !.user = u])

-----------------------------------------------------------------------------
(* authorize_collection and WorkspaceAccess::require, call by call.          *)

FindRequest(h) ==
    /\ req[h].at = "request"
    /\ docs[req[h].id].kind = "request"
    /\ req' = [req EXCEPT ![h].at = "collection", ![h].in = docs[req[h].id].in]
    /\ UNCHANGED <<live, role, docs, made, swept, purged>>

FindCollection(h) ==
    /\ req[h].at = "collection"
    /\ docs[req[h].in].kind = "collection"
    /\ req' = [req EXCEPT ![h].at = "workspace",
                          ![h].mine = docs[req[h].in].by = req[h].user]
    /\ UNCHANGED <<live, role, docs, made, swept, purged>>

(* Anyone may comment, and delete a comment of their own. *)
Needed(r) == IF r.kind = "comment" THEN Viewer ELSE Editor

(* What a request does once it may; only its creator or the owner deletes a  *)
(* collection.                                                               *)
Proceed(h, owner) ==
    LET r == req[h]
    IN  \/ r.op = "new" /\ Advance(h, "insert")
        \/ r.op = "update" /\ Advance(h, "write")
        \/ r.op = "delete" /\ r.kind = "request" /\ Advance(h, "drop")
        \/ r.op = "delete" /\ r.kind = "collection" /\ (owner \/ r.mine) /\ Advance(h, "sweep")
        \/ r.op = "delete" /\ r.kind = "comment" /\ Advance(h, "comment")
        \/ r.op = "deleteWorkspace" /\ Advance(h, "list")

(* The owner has no membership row. *)
FindWorkspace(h) ==
    /\ req[h].at = "workspace"
    /\ live
    /\ IF req[h].user = Owner THEN Proceed(h, TRUE) ELSE Advance(h, "role")
    /\ UNCHANGED <<live, role, docs, made, swept, purged>>

(* Mutation of CheckRole: to be a member is enough. *)
CheckMember(h) ==
    /\ req[h].at = "role"
    /\ role[req[h].user] >= Viewer
    /\ Proceed(h, FALSE)
    /\ UNCHANGED <<live, role, docs, made, swept, purged>>

CheckRole(h) ==
    /\ req[h].at = "role"
    /\ role[req[h].user] >= Needed(req[h])
    /\ Proceed(h, FALSE)
    /\ UNCHANGED <<live, role, docs, made, swept, purged>>

(* find_comment; its author or the owner deletes it. *)
FindComment(h) ==
    /\ req[h].at = "comment"
    /\ docs[req[h].id].kind = "comment"
    /\ req[h].user \in {docs[req[h].id].by, Owner}
    /\ Advance(h, "drop")
    /\ UNCHANGED <<live, role, docs, made, swept, purged>>

-----------------------------------------------------------------------------
(* The writes. *)

(* Nothing is asked of the collection or the workspace again. *)
Insert(h) ==
    /\ req[h].at = "insert"
    /\ made < MaxDocs
    /\ made' = made + 1
    /\ docs' = [docs EXCEPT ![made + 1] =
                   [kind |-> req[h].kind, in |-> req[h].in, by |-> req[h].user]]
    /\ Finish(h)
    /\ UNCHANGED <<live, role, swept, purged>>

(* Mutation of WriteBack: the replacement is an upsert. *)
Upsert(h) ==
    /\ req[h].at = "write"
    /\ docs' = [docs EXCEPT ![req[h].id] =
                   [kind |-> req[h].kind, by |-> req[h].user,
                    in |-> IF req[h].kind = "request" THEN req[h].in ELSE 0]]
    /\ Finish(h)
    /\ UNCHANGED <<live, role, made, swept, purged>>

(* replace_one by _id: a document gone since stays gone. *)
WriteBack(h) ==
    /\ req[h].at = "write"
    /\ Finish(h)
    /\ UNCHANGED <<live, role, docs, made, swept, purged>>

(* delete_collection: first the requests in it, then, by _id, itself. *)
SweepCollection(h) ==
    /\ req[h].at = "sweep"
    /\ docs' = Without(In(req[h].in))
    /\ req' = [req EXCEPT ![h].at = "drop", ![h].newest = made]
    /\ UNCHANGED <<live, role, made, swept, purged>>

(* Mutation of Drop: the document is only marked. *)
MarkDropped(h) ==
    /\ req[h].at = "drop"
    /\ docs' = [docs EXCEPT ![req[h].id].kind = "deleted"]
    /\ Finish(h)
    /\ UNCHANGED <<live, role, made, swept, purged>>

Drop(h) ==
    /\ req[h].at = "drop"
    /\ docs' = Without({req[h].id})
    /\ swept' = IF docs[req[h].id].kind = "collection"
                THEN [swept EXCEPT ![req[h].id] = req[h].newest] ELSE swept
    /\ Finish(h)
    /\ UNCHANGED <<live, role, made, purged>>

-----------------------------------------------------------------------------
(* delete_workspace, when it is not the only one. *)

(* Mutation of ListCollections: the workspace is deleted before its content. *)
DropWorkspaceFirst(h) ==
    /\ req[h].at = "list"
    /\ live' = FALSE
    /\ swept' = IF live THEN [swept EXCEPT ![0] = made] ELSE swept
    /\ req' = [req EXCEPT ![h].at = "sweepAll", ![h].newest = made,
                          ![h].todo = Of("collection")]
    /\ UNCHANGED <<role, docs, made, purged>>

ListCollections(h) ==
    /\ req[h].at = "list"
    /\ req' = [req EXCEPT ![h].at = "sweepAll", ![h].newest = made,
                          ![h].todo = Of("collection")]
    /\ UNCHANGED <<live, role, docs, made, swept, purged>>

SweepNext(h, c) ==
    /\ req[h].at = "sweepAll"
    /\ c \in req[h].todo
    /\ docs' = Without(In(c))
    /\ req' = [req EXCEPT ![h].todo = @ \ {c}]
    /\ UNCHANGED <<live, role, made, swept, purged>>

(* delete_all_by_workspace: also those made since they were listed. *)
DropCollections(h) ==
    /\ req[h].at = "sweepAll" /\ req[h].todo = {}
    /\ docs' = Without(Of("collection"))
    /\ swept' = [i \in 0..MaxDocs |-> IF i \in Of("collection") THEN req[h].newest ELSE swept[i]]
    /\ Advance(h, "members")
    /\ UNCHANGED <<live, role, made, purged>>

(* delete_all_for_workspace: the memberships, then the comments. *)
DropMembers(h) ==
    /\ req[h].at = "members"
    /\ role' = [m \in Members |-> 0]
    /\ Advance(h, "comments")
    /\ UNCHANGED <<live, docs, made, swept, purged>>

DropComments(h) ==
    /\ req[h].at = "comments"
    /\ docs' = Without(Of("comment"))
    /\ Advance(h, "dropWorkspace")
    /\ UNCHANGED <<live, role, made, swept, purged>>

DropWorkspace(h) ==
    /\ req[h].at = "dropWorkspace"
    /\ live' = FALSE
    /\ swept' = IF live THEN [swept EXCEPT ![0] = req[h].newest] ELSE swept
    /\ Finish(h)
    /\ UNCHANGED <<role, docs, made, purged>>

-----------------------------------------------------------------------------
(* purge_user_data: what the user made, in the order of the list there.      *)

PurgeRequests(h) ==
    /\ req[h].at = "purgeRequests"
    /\ docs' = Without(By("request", req[h].user))
    /\ Advance(h, "purgeCollections")
    /\ UNCHANGED <<live, role, made, swept, purged>>

PurgeCollections(h) ==
    /\ req[h].at = "purgeCollections"
    /\ docs' = Without(By("collection", req[h].user))
    /\ purged' = purged \cup By("collection", req[h].user)
    /\ Advance(h, "purgeWorkspaces")
    /\ UNCHANGED <<live, role, made, swept>>

PurgeWorkspaces(h) ==
    /\ req[h].at = "purgeWorkspaces"
    /\ IF live /\ req[h].user = Owner
       THEN live' = FALSE /\ purged' = purged \cup {0}
       ELSE UNCHANGED <<live, purged>>
    /\ Finish(h)
    /\ UNCHANGED <<role, docs, made, swept>>

-----------------------------------------------------------------------------
(* WorkspaceMembers changes what a member is. *)
ChangeRole(m, rank) ==
    /\ live /\ role[m] # rank
    /\ role' = [role EXCEPT ![m] = rank]
    /\ req' = [h \in Requests |->
                  IF req[h].user = m /\ req[h].had < rank THEN [req[h] EXCEPT !.had = rank]
                  ELSE req[h]]
    /\ UNCHANGED <<live, docs, made, swept, purged>>

(* The request ends where it is: refused, failed, timed out or disconnected. *)
Abandon(h) ==
    /\ req[h].at # "idle"
    /\ Finish(h)
    /\ UNCHANGED <<live, role, docs, made, swept, purged>>

Next ==
    \/ \E h \in Requests, u \in Users :
          \/ \E kind \in {"collection", "comment"} : StartNew(h, u, kind)
          \/ \E i \in Ids : StartAdd(h, u, i)
                            \/ \E op \in {"update", "delete"} : StartExisting(h, u, op, i)
          \/ StartPurge(h, u)
    \/ \E h \in Requests :
          \/ StartDeleteWorkspace(h)
          \/ FindRequest(h) \/ FindCollection(h) \/ FindWorkspace(h) \/ CheckRole(h)
          \/ FindComment(h)
          \/ Insert(h) \/ WriteBack(h) \/ SweepCollection(h) \/ Drop(h)
          \/ ListCollections(h) \/ (\E c \in Ids : SweepNext(h, c)) \/ DropCollections(h)
          \/ DropMembers(h) \/ DropComments(h) \/ DropWorkspace(h)
          \/ PurgeRequests(h) \/ PurgeCollections(h) \/ PurgeWorkspaces(h)
          \/ Abandon(h)
    \/ \E m \in Members, rank \in 0..Editor : ChangeRole(m, rank)

Spec == Init /\ [][Next]_vars

-----------------------------------------------------------------------------
TypeOK ==
    /\ live \in BOOLEAN
    /\ role \in [Members -> 0..Editor]
    /\ docs \in [Ids -> Doc]
    /\ made \in 0..MaxDocs
    /\ req \in [Requests -> Req]
    /\ swept \in [0..MaxDocs -> 0..MaxDocs]
    /\ purged \subseteq 0..MaxDocs

(* The two cascades delete the requests of a collection before the collection *)
(* itself, wherever they stop: a saved request that nobody can reach any more *)
(* was inserted after the cascade that took its collection had begun.         *)
OrphansAreLate ==
    \A r \in Of("request") :
        \/ docs[docs[r].in].kind = "collection"
        \/ docs[r].in \in purged
        \/ swept[docs[r].in] < r

(* delete_workspace drops the workspace last: what is left in one that is     *)
(* gone was inserted after its deletion had begun.                            *)
DeletedWorkspaceIsEmpty ==
    live \/ 0 \in purged \/ \A i \in Of("collection") \cup Of("comment") : swept[0] < i

Changes(h) == req[h].at \in {"insert", "sweep", "drop"} /\ docs' # docs /\ req'[h] # req[h]

(* The role is read some calls before the write, but no user changes a        *)
(* document by a request during all of which the role was too low, removed    *)
(* and demoted members included.                                              *)
WritesAuthorized ==
    [][\A h \in Requests : Changes(h) => req[h].had >= Needed(req[h])]_vars
===============================================================================
