--------------------------- MODULE WorkspaceMembers ---------------------------
(***************************************************************************)
(* Invitations to a workspace and its membership rows.  A request is a few  *)
(* database calls, each a step: requests of the owner and of invitees, the  *)
(* clock and the TTL index interleave between them, and a request can be    *)
(* dropped at any await.                                                    *)
(*                                                                         *)
(* One workspace is followed with its rows; of the owner's other workspaces *)
(* only their number is kept, which is all that deletion asks.  Tokens are  *)
(* left out: a token is in one pending row or in none, so presenting one is *)
(* choosing a pending row, or an answer that changes nothing.               *)
(***************************************************************************)
EXTENDS Integers, FiniteSets

CONSTANTS
    Requests,     \* requests the server works on at a time
    Emails,       \* addresses that may be invited, none of them the owner's
    Roles,        \* what parse_invitable admits
    NoEmail,      \* the address of a request that is about none
    NoRole,       \* the role of a row or a request that has none
    MaxPending,   \* MAX_PENDING_INVITES
    MaxRows,      \* bound on the rows ever inserted
    MaxSpare      \* bound on the owner's other workspaces

ASSUME MembersAssumption ==
    /\ IsFiniteSet(Requests)
    /\ IsFiniteSet(Emails)
    /\ NoEmail \notin Emails
    /\ NoRole \notin Roles
    /\ MaxPending \in Nat \ {0}
    /\ MaxRows \in Nat
    /\ MaxSpare \in Nat

VARIABLES
    live,      \* the workspace document exists
    spare,     \* how many other workspaces its owner has
    row,       \* membership row of each address: one at most, by the unique index
    rows,      \* rows inserted so far, the newest one's _id
    req,       \* the call each request is about to make
    joined     \* history: what accept_invite activated, for whom

vars == <<live, spare, row, rows, req, joined>>

-----------------------------------------------------------------------------
Step == {"idle", "list", "find", "reissue", "insert", "workspace", "activate",
         "toRemove", "remove", "toSetRole", "setRole", "toLeave",
         "count", "cascade", "drop", "countOther", "dropOther"}
Status == {"absent", "pending", "active"}
Expiry == {"never", "future", "past"}

Row == [id : Nat, status : Status, role : Roles \cup {NoRole}, expires : Expiry]
Req == [at : Step, email : Emails \cup {NoEmail}, id : Nat, role : Roles \cup {NoRole}]

NoRow == [id |-> 0, status |-> "absent", role |-> NoRole, expires |-> "never"]
NoReq == [at |-> "idle", email |-> NoEmail, id |-> 0, role |-> NoRole]

Pending == {e \in Emails : row[e].status = "pending"}

Owned == spare + (IF live THEN 1 ELSE 0)

Start(h, step, e, id, r) ==
    /\ req[h].at = "idle"
    /\ req' = [req EXCEPT ![h] = [at |-> step, email |-> e, id |-> id, role |-> r]]

Advance(h, step) == req' = [req EXCEPT ![h].at = step]
Finish(h) == req' = [req EXCEPT ![h] = NoReq]

(* The row of the request's address, found and to be written by its _id. *)
Found(h, step) == req' = [req EXCEPT ![h].at = step, ![h].id = row[req[h].email].id]

Matches(h) == row[req[h].email].id = req[h].id

(* An update by _id; without a match it does nothing. *)
UpdateById(h, doc) ==
    row' = IF Matches(h) THEN [row EXCEPT ![req[h].email] = doc] ELSE row

Init ==
    /\ live = TRUE
    /\ spare \in 0..MaxSpare
    /\ row = [e \in Emails |-> NoRow]
    /\ rows = 0
    /\ req = [h \in Requests |-> NoReq]
    /\ joined = {}

-----------------------------------------------------------------------------
(* invite_member: require the owner, count the open invites, upsert_pending. *)

StartInvite(h, e, r) ==
    /\ live
    /\ Start(h, "list", e, 0, r)
    /\ UNCHANGED <<live, spare, row, rows, joined>>

(* Mutation of CountPending: the limit is off by one. *)
CountPendingInclusive(h) ==
    /\ req[h].at = "list"
    /\ req[h].email \in Pending \/ Cardinality(Pending) <= MaxPending
    /\ Advance(h, "find")
    /\ UNCHANGED <<live, spare, row, rows, joined>>

(* An open invite may be sent again whatever their number. *)
CountPending(h) ==
    /\ req[h].at = "list"
    /\ req[h].email \in Pending \/ Cardinality(Pending) < MaxPending
    /\ Advance(h, "find")
    /\ UNCHANGED <<live, spare, row, rows, joined>>

(* upsert_pending looks first; an active member is a conflict. *)
FindInvite(h) ==
    /\ req[h].at = "find"
    /\ \/ row[req[h].email].status = "pending" /\ Found(h, "reissue")
       \/ row[req[h].email].status = "absent" /\ Found(h, "insert")
    /\ UNCHANGED <<live, spare, row, rows, joined>>

(* The status is not asked again, and is left alone. *)
Reissue(h) ==
    /\ req[h].at = "reissue"
    /\ UpdateById(h, [row[req[h].email] EXCEPT !.role = req[h].role, !.expires = "future"])
    /\ Finish(h)
    /\ UNCHANGED <<live, spare, rows, joined>>

(* The unique index on workspace and address refuses a second row. *)
Insert(h) ==
    /\ req[h].at = "insert"
    /\ rows < MaxRows
    /\ row[req[h].email].status = "absent"
    /\ rows' = rows + 1
    /\ row' = [row EXCEPT ![req[h].email] =
                  [id |-> rows + 1, status |-> "pending", role |-> req[h].role,
                   expires |-> "future"]]
    /\ Finish(h)
    /\ UNCHANGED <<live, spare, joined>>

-----------------------------------------------------------------------------
(* accept_invite: find the row by its token, the workspace, and activate.    *)

StartAccept(h, e) ==
    /\ row[e].status = "pending" /\ row[e].expires = "future"
    /\ Start(h, "workspace", e, row[e].id, NoRole)
    /\ UNCHANGED <<live, spare, row, rows, joined>>

FindWorkspace(h) ==
    /\ req[h].at = "workspace"
    /\ live
    /\ Advance(h, "activate")
    /\ UNCHANGED <<live, spare, row, rows, joined>>

Seat(h) ==
    /\ row' = [row EXCEPT ![req[h].email].status = "active", ![req[h].email].expires = "never"]
    /\ joined' = joined \cup {[by |-> h, invite |-> req[h].id, seat |-> row[req[h].email].id]}

(* Mutation of Activate: the row is sought by address, without its status. *)
ActivateByEmail(h) ==
    /\ req[h].at = "activate"
    /\ IF row[req[h].email].status # "absent" THEN Seat(h) ELSE UNCHANGED <<row, joined>>
    /\ Finish(h)
    /\ UNCHANGED <<live, spare, rows>>

(* activate's filter asks for the _id and that it is pending still. *)
Activate(h) ==
    /\ req[h].at = "activate"
    /\ IF Matches(h) /\ row[req[h].email].status = "pending"
       THEN Seat(h)
       ELSE UNCHANGED <<row, joined>>
    /\ Finish(h)
    /\ UNCHANGED <<live, spare, rows>>

-----------------------------------------------------------------------------
(* remove_member, set_member_role and leave: check the caller, find, write.  *)
(* The owner names a row by the _id the list showed.                         *)

StartRemove(h, e) ==
    /\ live /\ row[e].status # "absent"
    /\ Start(h, "toRemove", e, row[e].id, NoRole)
    /\ UNCHANGED <<live, spare, row, rows, joined>>

StartSetRole(h, e, r) ==
    /\ live /\ row[e].status # "absent"
    /\ Start(h, "toSetRole", e, row[e].id, r)
    /\ UNCHANGED <<live, spare, row, rows, joined>>

StartLeave(h, e) ==
    /\ live
    /\ Start(h, "toLeave", e, 0, NoRole)
    /\ UNCHANGED <<live, spare, row, rows, joined>>

FindMember(h) ==
    /\ \/ req[h].at = "toRemove" /\ Matches(h) /\ Advance(h, "remove")
       \/ req[h].at = "toSetRole" /\ Matches(h) /\ Advance(h, "setRole")
       \/ /\ req[h].at = "toLeave"
          /\ row[req[h].email].status = "active"
          /\ Found(h, "remove")
    /\ UNCHANGED <<live, spare, row, rows, joined>>

Remove(h) ==
    /\ req[h].at = "remove"
    /\ UpdateById(h, NoRow)
    /\ Finish(h)
    /\ UNCHANGED <<live, spare, rows, joined>>

SetRole(h) ==
    /\ req[h].at = "setRole"
    /\ UpdateById(h, [row[req[h].email] EXCEPT !.role = req[h].role])
    /\ Finish(h)
    /\ UNCHANGED <<live, spare, rows, joined>>

-----------------------------------------------------------------------------
(* create_workspace and delete_workspace, of this workspace or another.      *)

CreateOther ==
    /\ spare < MaxSpare
    /\ spare' = spare + 1
    /\ UNCHANGED <<live, row, rows, req, joined>>

StartDelete(h) ==
    /\ \/ live /\ Start(h, "count", NoEmail, 0, NoRole)
       \/ spare > 0 /\ Start(h, "countOther", NoEmail, 0, NoRole)
    /\ UNCHANGED <<live, spare, row, rows, joined>>

CountOwned(h) ==
    /\ Owned > 1
    /\ \/ req[h].at = "count" /\ Advance(h, "cascade")
       \/ req[h].at = "countOther" /\ Advance(h, "dropOther")
    /\ UNCHANGED <<live, spare, row, rows, joined>>

(* delete_all_for_workspace; the content of the workspace went before.       *)
Cascade(h) ==
    /\ req[h].at = "cascade"
    /\ row' = [e \in Emails |-> NoRow]
    /\ Advance(h, "drop")
    /\ UNCHANGED <<live, spare, rows, joined>>

DropWorkspace(h) ==
    /\ req[h].at = "drop"
    /\ live' = FALSE
    /\ Finish(h)
    /\ UNCHANGED <<spare, row, rows, joined>>

(* Mutation of DropOther: a workspace already gone is counted once more.     *)
DropOtherTwice(h) ==
    /\ req[h].at = "dropOther"
    /\ spare' = spare - 1
    /\ Finish(h)
    /\ UNCHANGED <<live, row, rows, joined>>

(* Two requests may have meant the same one, which is gone the second time.  *)
DropOther(h) ==
    /\ req[h].at = "dropOther"
    /\ spare > 0
    /\ spare' \in {spare, spare - 1}
    /\ Finish(h)
    /\ UNCHANGED <<live, row, rows, joined>>

-----------------------------------------------------------------------------
(* A row's expires_at passes; the TTL monitor gets to it some time later.    *)

Lapse(e) ==
    /\ row[e].expires = "future"
    /\ row' = [row EXCEPT ![e].expires = "past"]
    /\ UNCHANGED <<live, spare, rows, req, joined>>

Expire(e) ==
    /\ row[e].expires = "past"
    /\ row' = [row EXCEPT ![e] = NoRow]
    /\ UNCHANGED <<live, spare, rows, req, joined>>

(* The request ends where it is: refused, failed, timed out or disconnected. *)
Abandon(h) ==
    /\ req[h].at # "idle"
    /\ Finish(h)
    /\ UNCHANGED <<live, spare, row, rows, joined>>

Next ==
    \/ \E h \in Requests, e \in Emails :
          \/ \E r \in Roles : StartInvite(h, e, r) \/ StartSetRole(h, e, r)
          \/ StartAccept(h, e)
          \/ StartRemove(h, e)
          \/ StartLeave(h, e)
    \/ \E h \in Requests :
          \/ CountPending(h) \/ FindInvite(h) \/ Reissue(h) \/ Insert(h)
          \/ FindWorkspace(h) \/ Activate(h)
          \/ FindMember(h) \/ Remove(h) \/ SetRole(h)
          \/ StartDelete(h) \/ CountOwned(h) \/ Cascade(h) \/ DropWorkspace(h) \/ DropOther(h)
          \/ Abandon(h)
    \/ \E e \in Emails : Lapse(e) \/ Expire(e)
    \/ CreateOther

Spec == Init /\ [][Next]_vars

-----------------------------------------------------------------------------
TypeOK ==
    /\ live \in BOOLEAN
    /\ spare \in 0..MaxSpare
    /\ row \in [Emails -> Row]
    /\ rows \in 0..MaxRows
    /\ req \in [Requests -> Req]
    /\ joined \subseteq [by : Requests, invite : Nat, seat : Nat]

(* MAX_PENDING_INVITES "bounds how much a single workspace owner can make us *)
(* email", but the invites are counted a few calls before one is added: the  *)
(* open ones exceed it by the requests the server works on at a time, less   *)
(* one, and no more, reissues and expired rows included.                     *)
PendingBounded == Cardinality(Pending) < MaxPending + Cardinality(Requests)

(* accept_invite: an invite works "only once", and what it seats is the row  *)
(* it was found in: not one that was revoked and issued again meanwhile.     *)
InviteSingleUse ==
    \A x, y \in joined :
        /\ x.seat = x.invite
        /\ x.seat = y.seat => x = y

(* ensure_indices: "Only pending invites carry expires_at, so accepted       *)
(* members never expire".                                                    *)
OnlyPendingExpires ==
    \A e \in Emails : row[e].status = "active" => row[e].expires = "never"

(* delete_workspace refuses the last workspace "so every account always has  *)
(* at least one to operate in".                                              *)
AlwaysAWorkspace == Owned > 0

===============================================================================
