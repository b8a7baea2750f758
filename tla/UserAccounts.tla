----------------------------- MODULE UserAccounts -----------------------------
(***************************************************************************)
(* User documents, the login sessions that name them, and the one identity  *)
(* at a sign-in provider that accounts may claim.  A request is a few       *)
(* database calls, each a step; an edit reads a whole document and writes   *)
(* the whole document back by _id some calls later.  Requests interleave    *)
(* and may be dropped at any await.                                         *)
(*                                                                         *)
(* Google, GitHub and X differ in what they allow (X registers nobody,      *)
(* Google is never unlinked); the one identity allows what any of them      *)
(* does.  Passwords and one-time codes are taken as right: LoginLockout and *)
(* OneTimeCodes are about them.  Fields no property asks about are not kept: *)
(* editing one of them is writing the document back as it was read.         *)
(***************************************************************************)
EXTENDS Integers, FiniteSets

CONSTANTS
    Requests,     \* requests the server works on at a time
    Emails,       \* addresses, normalised, none of them reserved for admins
    NoEmail,      \* the address of no account
    MaxUsers,     \* bound on the accounts ever made
    MaxLogins     \* bound on the sessions ever saved

ASSUME AccountsAssumption ==
    /\ IsFiniteSet(Requests) /\ Requests # {}
    /\ NoEmail \notin Emails
    /\ MaxUsers \in Nat \ {0}
    /\ MaxLogins \in Nat \ {0}

VARIABLES
    users,       \* the user document of each _id
    made,        \* accounts made so far; the newest one's _id
    sessions,    \* session rows, each with the claims of its token
    logins,      \* sessions saved so far; the newest one's jti
    req,         \* the call each request is about to make
    ended,       \* history: the newest jti when a deletion ended the sessions
    disturbed    \* history: an address changed other than by its owner's
                 \* change of address, run to its last call

accountsVars == <<users, made, sessions, logins, req, ended, disturbed>>

-----------------------------------------------------------------------------
Ids == 1..MaxUsers
Op == {"none", "register", "login", "oauth", "x", "touch", "touchById", "link", "unlink",
       "move", "delete", "adminDelete"}
Step == {"idle", "free", "insert", "byEmail", "byIdent", "resolve", "session",
         "claimed", "linked", "read", "write", "endAll",
         "endSessions", "purge", "dropUser"}

User == [email : Emails \cup {NoEmail}, ident : BOOLEAN]
Session == [jti : 1..MaxLogins, user : Ids, email : Emails]
Req == [op : Op, at : Step, sub : 0..MaxUsers, email : Emails \cup {NoEmail},
        want : Emails \cup {NoEmail}, id : 0..MaxUsers, doc : User]

NoUser == [email |-> NoEmail, ident |-> FALSE]
NoReq == [op |-> "none", at |-> "idle", sub |-> 0, email |-> NoEmail,
          want |-> NoEmail, id |-> 0, doc |-> NoUser]

Present == {i \in Ids : users[i] # NoUser}
ByEmail(e) == {i \in Present : users[i].email = e}
ByIdent == {i \in Present : users[i].ident}

(* The unique index on email, asked of a document about to be stored at i. *)
IndexAllows(i, doc) == ByEmail(doc.email) \subseteq {i}

Advance(h, step) == req' = [req EXCEPT ![h].at = step]

(* What a request still needs once its document is found: an edit all of it *)
(* and the claims, a sign-in the address, a deletion nothing but the _id.   *)
Found(r, i) ==
    CASE r.op \in {"login", "oauth", "x"} ->
             [NoReq EXCEPT !.op = "login", !.id = i, !.doc.email = users[i].email]
      [] r.op \in {"delete", "adminDelete"} -> [NoReq EXCEPT !.op = r.op, !.id = i]
      [] r.op = "move" -> [r EXCEPT !.id = i, !.doc = users[i]]
      [] r.op = "touchById" -> [NoReq EXCEPT !.op = "touch", !.id = i, !.doc = users[i]]
      [] OTHER -> [NoReq EXCEPT !.op = r.op, !.id = i, !.doc = users[i]]

Hold(h, i, step) ==
    req' = [req EXCEPT ![h] = [Found(@, i) EXCEPT !.at = step]]
Finish(h) == req' = [req EXCEPT ![h] = NoReq]

Start(h, op, step, e) ==
    /\ req[h].at = "idle"
    /\ req' = [req EXCEPT ![h] = [NoReq EXCEPT !.op = op, !.at = step, !.email = e]]
    /\ UNCHANGED <<users, made, sessions, logins, ended, disturbed>>

(* One account exists already, and has a session. *)
AccountsInit ==
    /\ \E e \in Emails :
          /\ users = [i \in Ids |-> IF i = 1 THEN [email |-> e, ident |-> FALSE] ELSE NoUser]
          /\ sessions = {[jti |-> 1, user |-> 1, email |-> e]}
    /\ made = 1
    /\ logins = 1
    /\ req = [h \in Requests |-> NoReq]
    /\ ended = [i \in Ids |-> 0]
    /\ disturbed = FALSE

-----------------------------------------------------------------------------
(* Registration and sign-in, up to the session saved for the token.          *)

StartRegister(h, e) == Start(h, "register", "free", e)
StartLogin(h, e) == Start(h, "login", "byEmail", e)
StartGoogle(h, e) == Start(h, "oauth", "byIdent", e)
StartGithub(h, e) == Start(h, "oauth", "byIdent", e)
StartX(h) == Start(h, "x", "byIdent", NoEmail)

(* register_user, and a change of address, look for the address first. *)
FindFree(h) ==
    /\ req[h].at = "free"
    /\ IF req[h].op = "move"
       THEN /\ req[h].want = req[h].email \/ ByEmail(req[h].want) = {}
            /\ Advance(h, "write")
       ELSE /\ ByEmail(req[h].email) = {}
            /\ Advance(h, "insert")
    /\ UNCHANGED <<users, made, sessions, logins, ended, disturbed>>

(* The index refuses an address taken since. *)
InsertUser(h) ==
    /\ req[h].at = "insert"
    /\ made < MaxUsers
    /\ LET doc == [email |-> req[h].email, ident |-> req[h].op = "oauth"]
       IN  /\ IndexAllows(made + 1, doc)
           /\ users' = [users EXCEPT ![made + 1] = doc]
           /\ req' = [req EXCEPT ![h] =
                         [NoReq EXCEPT !.op = "login", !.at = "session", !.id = made + 1,
                                       !.doc.email = doc.email]]
    /\ made' = made + 1
    /\ UNCHANGED <<sessions, logins, ended, disturbed>>

FindByEmail(h) ==
    /\ req[h].at = "byEmail"
    /\ \E i \in ByEmail(req[h].email) : Hold(h, i, "session")
    /\ UNCHANGED <<users, made, sessions, logins, ended, disturbed>>

(* An identity nobody holds registers an account, but not through X. *)
FindByIdent(h) ==
    /\ req[h].at = "byIdent"
    /\ \/ \E i \in ByIdent : Hold(h, i, "session")
       \/ ByIdent = {} /\ req[h].op = "oauth" /\ Advance(h, "resolve")
    /\ UNCHANGED <<users, made, sessions, logins, ended, disturbed>>

(* resolve_oauth_account: an account of that address is signed in only when *)
(* it has the identity by now.                                              *)
ResolveOAuth(h) ==
    /\ req[h].at = "resolve"
    /\ \/ \E i \in ByEmail(req[h].email) : users[i].ident /\ Hold(h, i, "session")
       \/ ByEmail(req[h].email) = {} /\ Advance(h, "insert")
    /\ UNCHANGED <<users, made, sessions, logins, ended, disturbed>>

(* Mutation of Token: it names the address that was asked for. *)
TokenAsked(h) == [jti |-> logins + 1, user |-> req[h].id, email |-> req[h].email]

(* It names the _id and the address of the document found before. *)
Token(h) == [jti |-> logins + 1, user |-> req[h].id, email |-> req[h].doc.email]

SaveSession(h) ==
    /\ req[h].at = "session"
    /\ logins < MaxLogins
    /\ logins' = logins + 1
    /\ sessions' = sessions \cup {Token(h)}
    /\ Finish(h)
    /\ UNCHANGED <<users, made, ended, disturbed>>

EndSession(s) ==
    /\ sessions' = sessions \ {s}
    /\ UNCHANGED <<users, made, logins, req, ended, disturbed>>

Logout(s) == EndSession(s)

(* By another session of the same user. *)
RevokeSession(s) == (\E by \in sessions : by.user = s.user) /\ EndSession(s)

(* The TTL index. *)
ExpireSession(s) == EndSession(s)

-----------------------------------------------------------------------------
(* Edits by a signed-in user: the claims are the session's, the document is  *)
(* found by the address in them (the profile and the network by their _id).  *)

StartEdit(h, s, op, step, e) ==
    /\ req[h].at = "idle"
    /\ req' = [req EXCEPT ![h] =
                 [NoReq EXCEPT !.op = op, !.at = step, !.sub = s.user,
                               !.email = s.email, !.want = e]]
    /\ UNCHANGED <<users, made, sessions, logins, ended, disturbed>>

UpdateEmail(h, s, e) == StartEdit(h, s, "move", "read", e)
UpdatePreferences(h, s) == StartEdit(h, s, "touch", "read", NoEmail)
UpdatePassword(h, s) == StartEdit(h, s, "touch", "read", NoEmail)
SwitchNetwork(h, s) == StartEdit(h, s, "touchById", "read", NoEmail)
UpdateProfile(h, s) == StartEdit(h, s, "touchById", "read", NoEmail)

(* The way to the provider and back keeps the address, in a signed state. *)
StartLink(h, s) == StartEdit(h, s, "link", "claimed", NoEmail)
GithubUnlink(h, s) == StartEdit(h, s, "unlink", "linked", NoEmail)
XUnlink(h, s) == StartEdit(h, s, "unlink", "linked", NoEmail)

StartDelete(h, s) == StartEdit(h, s, "delete", "read", NoEmail)

(* Linking refuses an identity an account of another address holds. *)
CheckClaim(h) ==
    /\ req[h].at = "claimed"
    /\ \/ ByIdent = {}
       \/ \E i \in ByIdent : users[i].email = req[h].email
    /\ Advance(h, "read")
    /\ UNCHANGED <<users, made, sessions, logins, ended, disturbed>>

(* github_unlink and x_unlink read the profile, and then the document again. *)
CheckLinked(h) ==
    /\ req[h].at = "linked"
    /\ \E i \in ByEmail(req[h].email) : users[i].ident
    /\ Advance(h, "read")
    /\ UNCHANGED <<users, made, sessions, logins, ended, disturbed>>

AfterRead(op) ==
    CASE op = "move" -> "free"
      [] op \in {"delete", "adminDelete"} -> "endSessions"
      [] OTHER -> "write"

ReadUser(h) ==
    /\ req[h].at = "read"
    /\ \E i \in IF req[h].op = "touchById" THEN {req[h].sub} \cap Present
                                           ELSE ByEmail(req[h].email) :
          Hold(h, i, AfterRead(req[h].op))
    /\ UNCHANGED <<users, made, sessions, logins, ended, disturbed>>

Edited(h) ==
    LET doc == req[h].doc
    IN  CASE req[h].op = "link" -> [doc EXCEPT !.ident = TRUE]
          [] req[h].op = "unlink" -> [doc EXCEPT !.ident = FALSE]
          [] req[h].op = "move" -> [doc EXCEPT !.email = req[h].want]
          [] OTHER -> doc

Disturbs(h) ==
    /\ users[req[h].id].email # Edited(h).email
    /\ ~ (req[h].op = "move" /\ req[h].sub = req[h].id)

(* A change of address ends the sessions of the account in the claims. *)
AfterWrite(h) ==
    req' = [req EXCEPT ![h] =
               IF @.op = "move"
               THEN [NoReq EXCEPT !.op = "move", !.at = "endAll", !.sub = req[h].sub]
               ELSE NoReq]

(* Mutation of WriteUser: the replacement is an upsert. *)
UpsertUser(h) ==
    /\ req[h].at = "write"
    /\ IndexAllows(req[h].id, Edited(h))
    /\ users' = [users EXCEPT ![req[h].id] = Edited(h)]
    /\ disturbed' = (disturbed \/ Disturbs(h))
    /\ AfterWrite(h)
    /\ UNCHANGED <<made, sessions, logins, ended>>

(* replace_one by _id: without a match it does nothing, and succeeds. *)
WriteUser(h) ==
    /\ req[h].at = "write"
    /\ IF users[req[h].id] = NoUser
       THEN UNCHANGED <<users, disturbed>>
       ELSE /\ IndexAllows(req[h].id, Edited(h))
            /\ users' = [users EXCEPT ![req[h].id] = Edited(h)]
            /\ disturbed' = (disturbed \/ Disturbs(h))
    /\ AfterWrite(h)
    /\ UNCHANGED <<made, sessions, logins, ended>>

(* Mutation of EndAllSessions: the session that asked is kept. *)
EndOtherSessions(h) ==
    /\ req[h].at = "endAll"
    /\ \E asked \in sessions :
          /\ asked.user = req[h].sub
          /\ sessions' = {s \in sessions : s.user = req[h].sub => s = asked}
    /\ Finish(h)
    /\ UNCHANGED <<users, made, logins, ended, disturbed>>

(* The sessions of the account in the claims, not of the document found. *)
EndAllSessions(h) ==
    /\ req[h].at = "endAll"
    /\ sessions' = {s \in sessions : s.user # req[h].sub}
    /\ Finish(h)
    /\ UNCHANGED <<users, made, logins, ended, disturbed>>

-----------------------------------------------------------------------------
(* Deletion, by the user or by an admin, who also purges what the user owns. *)

StartAdminDelete(h, e) == Start(h, "adminDelete", "read", e)

AfterSessions(op) == IF op = "adminDelete" THEN "purge" ELSE "dropUser"

(* Mutation of EndSessions: a failure to end them is ignored. *)
IgnoreSessions(h) ==
    /\ req[h].at = "endSessions"
    /\ Advance(h, AfterSessions(req[h].op))
    /\ UNCHANGED <<users, made, sessions, logins, ended, disturbed>>

EndSessions(h) ==
    /\ req[h].at = "endSessions"
    /\ sessions' = {s \in sessions : s.user # req[h].id}
    /\ ended' = [ended EXCEPT ![req[h].id] = logins]
    /\ Advance(h, AfterSessions(req[h].op))
    /\ UNCHANGED <<users, made, logins, disturbed>>

(* The rows the user owns elsewhere; they are no part of this state. *)
PurgeUserData(h) ==
    /\ req[h].at = "purge"
    /\ Advance(h, "dropUser")
    /\ UNCHANGED <<users, made, sessions, logins, ended, disturbed>>

DropUser(h) ==
    /\ req[h].at = "dropUser"
    /\ users' = [users EXCEPT ![req[h].id] = NoUser]
    /\ Finish(h)
    /\ UNCHANGED <<made, sessions, logins, ended, disturbed>>

(* The request ends where it is: refused, failed, timed out or disconnected. *)
Abandon(h) ==
    /\ req[h].at # "idle"
    /\ disturbed' = (disturbed \/ req[h].at = "endAll")
    /\ Finish(h)
    /\ UNCHANGED <<users, made, sessions, logins, ended>>

-----------------------------------------------------------------------------
SignIn(h) ==
    \/ \E e \in Emails : StartRegister(h, e) \/ StartLogin(h, e)
                         \/ StartGoogle(h, e) \/ StartGithub(h, e)
    \/ StartX(h)
    \/ FindFree(h) \/ InsertUser(h)
    \/ FindByEmail(h) \/ FindByIdent(h) \/ ResolveOAuth(h)
    \/ SaveSession(h)

EditAccount(h) ==
    \/ \E s \in sessions :
          \/ \E e \in Emails : UpdateEmail(h, s, e)
          \/ UpdatePreferences(h, s) \/ UpdatePassword(h, s)
          \/ SwitchNetwork(h, s) \/ UpdateProfile(h, s)
          \/ StartLink(h, s) \/ GithubUnlink(h, s) \/ XUnlink(h, s)
    \/ CheckClaim(h) \/ CheckLinked(h) \/ ReadUser(h) \/ WriteUser(h)
    \/ EndAllSessions(h)

DeleteAccount(h) ==
    \/ \E s \in sessions : StartDelete(h, s)
    \/ \E e \in Emails : StartAdminDelete(h, e)
    \/ EndSessions(h) \/ PurgeUserData(h) \/ DropUser(h)

AccountsNext ==
    \/ \E h \in Requests :
          SignIn(h) \/ EditAccount(h) \/ DeleteAccount(h) \/ Abandon(h)
    \/ \E s \in sessions : Logout(s) \/ RevokeSession(s) \/ ExpireSession(s)

AccountsSpec == AccountsInit /\ [][AccountsNext]_accountsVars

-----------------------------------------------------------------------------
AccountsTypeOK ==
    /\ users \in [Ids -> User]
    /\ made \in Ids
    /\ sessions \subseteq Session
    /\ logins \in 0..MaxLogins
    /\ req \in [Requests -> Req]
    /\ ended \in [Ids -> 0..MaxLogins]
    /\ disturbed \in BOOLEAN

(* A deleted account never comes back, though edits that read its document   *)
(* before the deletion still write it whole after.                           *)
NoResurrection == [][\A i \in 1..made : users[i] = NoUser => users'[i] = NoUser]_accountsVars

(* delete_user_by_email and delete_user end the sessions before they drop    *)
(* the account: of an account that is gone, no session is left that was      *)
(* there when its deletion ended them, wherever the deletion stopped.        *)
DeletionEndsSessions ==
    \A s \in sessions :
        users[s.user] = NoUser => 0 < ended[s.user] /\ ended[s.user] < s.jti

Late(i) == {s \in sessions : s.user = i /\ users[i] # NoUser /\ users[i].email # s.email}

(* update_user_email ends the sessions after it stored the new address, so   *)
(* that those of an account which still carry the old one are only of logins *)
(* that had found the account already: one for each other request.           *)
StaleSessionsBounded ==
    \A i \in Ids :
        \/ disturbed
        \/ \E h \in Requests : req[h].at = "endAll" /\ req[h].sub = i
        \/ Cardinality(Late(i)) < Cardinality(Requests)

===============================================================================
