----------------------------- MODULE MembersProofs -----------------------------
(***************************************************************************)
(* Theorems about WorkspaceMembers: the open invites of a workspace and     *)
(* what an invite seats, for any number of requests, addresses and rows.    *)
(***************************************************************************)
EXTENDS WorkspaceMembers, Counting

-----------------------------------------------------------------------------
(* Requests that have passed the count of the open invites, and the addresses *)
(* that they may still add to those: one that was open already adds none.    *)
Adding == {h \in Requests : req[h].at \in {"find", "insert"}}
AddedBy(D) == {req[h].email : h \in D}
Inviting == Pending \cup AddedBy(Adding)

(* A request adds one more than the limit at most, and each only one. *)
CountInv == Cardinality(Inviting) < MaxPending + Cardinality(Requests)

(* A request about a member has the address of one. *)
EmailInv ==
    \A h \in Requests :
        req[h].at \notin {"idle", "count", "cascade", "drop", "countOther", "dropOther"}
            => req[h].email \in Emails

(* Addresses that have a row. *)
Present == {e \in Emails : row[e].status # "absent"}

(* An _id is of one row, and a row that was joined is open no more. *)
SeatInv ==
    /\ \A e \in Present : row[e].id \in 1..rows
    /\ \A e, f \in Present : row[e].id = row[f].id => e = f
    /\ \A x \in joined : x.seat \in 1..rows
    /\ \A e \in Pending : \A x \in joined : x.seat # row[e].id
    /\ InviteSingleUse

(* The inductive invariant. *)
MembersInv == TypeOK /\ EmailInv /\ CountInv /\ SeatInv

-----------------------------------------------------------------------------
(* What a step makes of the request whose turn it is. *)
LEMMA ReqEffect ==
    ASSUME TypeOK, NEW h \in Requests, NEW new \in Req, req' = [req EXCEPT ![h] = new]
    PROVE  /\ req' \in [Requests -> Req]
           /\ req'[h] = new
           /\ \A g \in Requests \ {h} : req'[g] = req[g]
BY DEF TypeOK

(* The request that is over. *)
LEMMA NoReqFields == NoReq \in Req /\ NoReq.at = "idle"
BY DEF NoReq, Req, Step

(* A request that goes to its next call keeps its address. *)
LEMMA AdvanceEffect ==
    ASSUME TypeOK, NEW h \in Requests, NEW step \in Step, Advance(h, step)
    PROVE  /\ req' \in [Requests -> Req]
           /\ req'[h].at = step /\ req'[h].email = req[h].email
           /\ \A g \in Requests \ {h} : req'[g] = req[g]
BY DEF TypeOK, Advance, Req

(* The addresses that a set of requests may add are no more than they. *)
LEMMA AddedSize ==
    ASSUME TypeOK, NEW D \in SUBSET Requests
    PROVE  /\ IsFiniteSet(AddedBy(D)) /\ Cardinality(AddedBy(D)) \in Nat
           /\ Cardinality(AddedBy(D)) <= Cardinality(Requests)
           /\ Cardinality(Requests) \in Nat
<1>1. IsFiniteSet(D) /\ Cardinality(D) \in Nat /\ Cardinality(D) <= Cardinality(Requests)
      /\ Cardinality(Requests) \in Nat
  BY PartSize, MembersAssumption
<1>2. IsFiniteSet(AddedBy(D)) /\ Cardinality(AddedBy(D)) <= Cardinality(D)
  <2> DEFINE Email == [h \in D |-> req[h].email]
  <2>1. Email \in Surjection(D, AddedBy(D))
    BY DEF Surjection, AddedBy
  <2>2. QED BY <1>1, <2>1, FS_Surjection
<1>3. Cardinality(AddedBy(D)) \in Nat
  BY <1>2, FS_CardinalityType
<1>4. QED BY <1>1, <1>2, <1>3

(* A request that begins or moves on keeps the types of all of them. *)
LEMMA StartEffect ==
    ASSUME TypeOK, NEW h \in Requests, NEW step \in Step, NEW e \in Emails \cup {NoEmail},
           NEW id \in Nat, NEW r \in Roles \cup {NoRole}, Start(h, step, e, id, r)
    PROVE  /\ req' \in [Requests -> Req] /\ req[h].at = "idle"
           /\ req'[h].at = step /\ req'[h].email = e
           /\ \A g \in Requests \ {h} : req'[g] = req[g]
BY DEF TypeOK, Start, Req

(* A request that is over leaves the others where they are. *)
LEMMA FinishEffect ==
    ASSUME TypeOK, NEW h \in Requests, Finish(h)
    PROVE  /\ req' \in [Requests -> Req] /\ req'[h].at = "idle"
           /\ \A g \in Requests \ {h} : req'[g] = req[g]
BY NoReqFields, ReqEffect DEF Finish

(* A request that has found its row keeps its address. *)
LEMMA FoundEffect ==
    ASSUME TypeOK, NEW h \in Requests, NEW step \in Step, req[h].email \in Emails, Found(h, step)
    PROVE  /\ req' \in [Requests -> Req]
           /\ req'[h].at = step /\ req'[h].email = req[h].email
           /\ \A g \in Requests \ {h} : req'[g] = req[g]
<1>1. row[req[h].email].id \in Nat
  BY DEF TypeOK, Row
<1>2. QED BY <1>1 DEF TypeOK, Found, Req

(* Steps of one request that leave the rows alone. *)
Reading(h) ==
    \/ \E e \in Emails :
          \/ \E r \in Roles : StartInvite(h, e, r) \/ StartSetRole(h, e, r)
          \/ StartAccept(h, e) \/ StartRemove(h, e) \/ StartLeave(h, e)
    \/ CountPending(h) \/ FindInvite(h) \/ FindWorkspace(h) \/ FindMember(h)
    \/ StartDelete(h) \/ CountOwned(h)

(* They write their own request alone, and only the count lets one add an invite. *)
LEMMA ReadingEffect ==
    ASSUME TypeOK, EmailInv, NEW h \in Requests, Reading(h)
    PROVE  /\ UNCHANGED <<live, spare, row, rows, joined>>
           /\ req' \in [Requests -> Req]
           /\ \A g \in Requests \ {h} : req'[g] = req[g]
           /\ req'[h].at \notin {"idle", "count", "cascade", "drop", "countOther", "dropOther"}
                 => req'[h].email \in Emails
           /\ h \in Adding' => /\ req'[h].email = req[h].email
                               /\ h \in Adding \/ CountPending(h)
<1> DEFINE Goal ==
        /\ UNCHANGED <<live, spare, row, rows, joined>>
        /\ req' \in [Requests -> Req]
        /\ \A g \in Requests \ {h} : req'[g] = req[g]
        /\ req'[h].at \notin {"idle", "count", "cascade", "drop", "countOther", "dropOther"}
              => req'[h].email \in Emails
        /\ h \in Adding' => req'[h].email = req[h].email /\ (h \in Adding \/ CountPending(h))
<1>0. \A e \in Emails : row[e].id \in Nat
  BY DEF TypeOK, Row
<1>1. ASSUME NEW e \in Emails, NEW r \in Roles, StartInvite(h, e, r) \/ StartSetRole(h, e, r)
      PROVE  Goal
  <2>1. PICK step \in {"list", "toSetRole"}, id \in Nat : Start(h, step, e, id, r)
    BY <1>0, <1>1 DEF StartInvite, StartSetRole
  <2>2. /\ req' \in [Requests -> Req] /\ req'[h].at = step /\ req'[h].email = e
        /\ \A g \in Requests \ {h} : req'[g] = req[g]
    BY <2>1, StartEffect DEF Step
  <2>3. QED BY <1>1, <2>2 DEF StartInvite, StartSetRole, Adding
<1>2. ASSUME NEW e \in Emails, StartAccept(h, e) \/ StartRemove(h, e) \/ StartLeave(h, e)
      PROVE  Goal
  <2>1. PICK step \in {"workspace", "toRemove", "toLeave"}, id \in Nat : Start(h, step, e, id, NoRole)
    BY <1>0, <1>2 DEF StartAccept, StartRemove, StartLeave
  <2>2. /\ req' \in [Requests -> Req] /\ req'[h].at = step /\ req'[h].email = e
        /\ \A g \in Requests \ {h} : req'[g] = req[g]
    BY <2>1, StartEffect DEF Step
  <2>3. QED BY <1>2, <2>2 DEF StartAccept, StartRemove, StartLeave, Adding
<1>3. ASSUME StartDelete(h)
      PROVE  Goal
  <2>1. PICK step \in {"count", "countOther"} : Start(h, step, NoEmail, 0, NoRole)
    BY <1>3 DEF StartDelete
  <2>2. /\ req' \in [Requests -> Req] /\ req'[h].at = step
        /\ \A g \in Requests \ {h} : req'[g] = req[g]
    BY <2>1, StartEffect DEF Step
  <2>3. QED BY <1>3, <2>2 DEF StartDelete, Adding
<1>4. ASSUME CountPending(h) \/ FindWorkspace(h) \/ CountOwned(h)
      PROVE  Goal
  <2>1. PICK step \in {"find", "activate", "cascade", "dropOther"} :
            /\ Advance(h, step)
            /\ step \in {"find", "activate"} => req[h].at \in {"list", "workspace"}
            /\ step = "find" => CountPending(h)
    BY <1>4 DEF CountPending, FindWorkspace, CountOwned
  <2>2. /\ req' \in [Requests -> Req] /\ req'[h].at = step /\ req'[h].email = req[h].email
        /\ \A g \in Requests \ {h} : req'[g] = req[g]
    BY <2>1, AdvanceEffect DEF Step
  <2>3. step \in {"find", "activate"} => req[h].email \in Emails
    BY <2>1 DEF EmailInv
  <2>4. QED BY <1>4, <2>1, <2>2, <2>3 DEF CountPending, FindWorkspace, CountOwned, Adding
<1>5. ASSUME FindInvite(h)
      PROVE  Goal
  <2>1. req[h].email \in Emails /\ req[h].at = "find"
    BY <1>5 DEF FindInvite, EmailInv
  <2>2. PICK step \in {"reissue", "insert"} : Found(h, step)
    BY <1>5 DEF FindInvite
  <2>3. /\ req' \in [Requests -> Req] /\ req'[h].at = step /\ req'[h].email = req[h].email
        /\ \A g \in Requests \ {h} : req'[g] = req[g]
    BY <2>1, <2>2, FoundEffect DEF Step
  <2>4. QED BY <1>5, <2>1, <2>3 DEF FindInvite, Adding
<1>6. ASSUME FindMember(h)
      PROVE  Goal
  <2>1. req[h].email \in Emails
    BY <1>6 DEF FindMember, EmailInv
  <2>2. PICK step \in {"remove", "setRole"} : Advance(h, step) \/ Found(h, step)
    BY <1>6 DEF FindMember
  <2>3. /\ req' \in [Requests -> Req] /\ req'[h].at = step /\ req'[h].email = req[h].email
        /\ \A g \in Requests \ {h} : req'[g] = req[g]
    BY <2>1, <2>2, FoundEffect, AdvanceEffect DEF Step
  <2>4. QED BY <1>6, <2>1, <2>3 DEF FindMember, Adding
<1>7. QED BY <1>1, <1>2, <1>3, <1>4, <1>5, <1>6 DEF Reading

-----------------------------------------------------------------------------
(* No row is issued or joined, though some may go. *)
RowsShrink ==
    /\ \A e \in Emails : \/ row'[e].status = row[e].status /\ row'[e].id = row[e].id
                         \/ row'[e].status = "absent"
    /\ UNCHANGED <<rows, joined>>

(* The requests about to add an invite did so before, for the same address. *)
NoneAdds == \A h \in Adding' : h \in Adding /\ req'[h].email = req[h].email

(* Rows that go, or stay what they are, leave both counts as they were or less. *)
LEMMA ShrinkStep ==
    ASSUME MembersInv, RowsShrink, NoneAdds
    PROVE  CountInv' /\ SeatInv'
<1>0. TypeOK /\ EmailInv /\ CountInv /\ SeatInv
  BY DEF MembersInv
<1>1. Present' \subseteq Present /\ Pending' \subseteq Pending
      /\ \A e \in Present' : row'[e].id = row[e].id
  BY DEF RowsShrink, Present, Pending
<1>2. CountInv'
  <2>1. Inviting' \in SUBSET Inviting
    BY <1>1 DEF NoneAdds, Inviting, AddedBy
  <2>2. Inviting \in SUBSET Emails
    BY <1>0 DEF Inviting, AddedBy, Adding, Pending, EmailInv
  <2>3. IsFiniteSet(Inviting)
    BY <2>2, MembersAssumption, PartSize
  <2>4. /\ Cardinality(Inviting') \in Nat /\ Cardinality(Inviting) \in Nat
        /\ Cardinality(Inviting') <= Cardinality(Inviting)
    BY <2>1, <2>3, PartSize
  <2>5. MaxPending \in Nat /\ Cardinality(Requests) \in Nat
    BY MembersAssumption, PartSize
  <2>6. QED BY <1>0, <2>4, <2>5 DEF CountInv
<1>3. SeatInv'
  <2>1. \A e \in Present' : e \in Present /\ row'[e].id = row[e].id
    BY <1>1
  <2>2. \A e \in Pending' : e \in Pending /\ e \in Present /\ row'[e].id = row[e].id
    BY <1>1 DEF Pending, Present
  <2>3. QED BY <1>0, <2>1, <2>2 DEF SeatInv, InviteSingleUse, RowsShrink
<1>4. QED BY <1>2, <1>3

(* Steps that write the rows, the workspaces or nothing, and issue no row. *)
Writing(h) ==
    \/ Reissue(h) \/ Remove(h) \/ SetRole(h)
    \/ Cascade(h) \/ DropWorkspace(h) \/ DropOther(h) \/ Abandon(h)

(* None of them adds an invite, to the rows or to those about to be. *)
LEMMA WritingEffect ==
    ASSUME TypeOK, EmailInv, NEW h \in Requests, Writing(h)
    PROVE  TypeOK' /\ EmailInv' /\ RowsShrink /\ NoneAdds
<1>1. /\ req' \in [Requests -> Req] /\ \A g \in Requests \ {h} : req'[g] = req[g]
      /\ req'[h].at \in {"idle", "drop"}
  <2>1. CASE Finish(h)
    BY <2>1, FinishEffect
  <2>2. CASE Advance(h, "drop")
    BY <2>2, AdvanceEffect DEF Step
  <2>3. QED
    BY <2>1, <2>2 DEF Writing, Reissue, Remove, SetRole, Cascade, DropWorkspace, DropOther, Abandon
<1>2. EmailInv' /\ NoneAdds
  BY <1>1 DEF EmailInv, NoneAdds, Adding
<1>3. live' \in BOOLEAN /\ UNCHANGED <<rows, joined>>
  BY DEF TypeOK, Writing, Reissue, Remove, SetRole, Cascade, DropWorkspace, DropOther, Abandon
<1>4. spare' \in 0..MaxSpare
  <2>1. CASE DropOther(h)
    BY <2>1, MembersAssumption DEF DropOther, TypeOK
  <2>2. CASE ~ DropOther(h)
    BY <2>2 DEF TypeOK, Writing, Reissue, Remove, SetRole, Cascade, DropWorkspace, Abandon
  <2>3. QED BY <2>1, <2>2
<1>5. NoRow \in Row /\ NoRow.status = "absent"
  BY DEF NoRow, Row, Status, Expiry
<1>6. /\ row' \in [Emails -> Row]
      /\ \A e \in Emails : \/ row'[e].status = row[e].status /\ row'[e].id = row[e].id
                           \/ row'[e].status = "absent"
  <2>1. CASE Reissue(h) \/ SetRole(h) \/ Remove(h)
    <3>1. req[h].email \in Emails /\ req[h].role \in Roles \cup {NoRole}
      BY <2>1 DEF Reissue, SetRole, Remove, EmailInv, TypeOK, Req
    <3>2. row[req[h].email] \in Row
      BY <3>1 DEF TypeOK
    <3>3. PICK doc \in Row :
              /\ row' = row \/ row' = [row EXCEPT ![req[h].email] = doc]
              /\ \/ doc.status = row[req[h].email].status /\ doc.id = row[req[h].email].id
                 \/ doc.status = "absent"
      <4>1. CASE Reissue(h)
        <5>1. [row[req[h].email] EXCEPT !.role = req[h].role, !.expires = "future"] \in Row
          BY <3>1, <3>2 DEF Row, Expiry
        <5>2. QED BY <3>2, <4>1, <5>1 DEF Reissue, UpdateById, Row
      <4>2. CASE SetRole(h)
        <5>1. [row[req[h].email] EXCEPT !.role = req[h].role] \in Row
          BY <3>1, <3>2 DEF Row
        <5>2. QED BY <3>2, <4>2, <5>1 DEF SetRole, UpdateById, Row
      <4>3. CASE Remove(h)
        BY <1>5, <4>3 DEF Remove, UpdateById
      <4>4. QED BY <2>1, <4>1, <4>2, <4>3
    <3>4. QED BY <3>3 DEF TypeOK
  <2>2. CASE Cascade(h)
    BY <1>5, <2>2 DEF Cascade
  <2>3. CASE DropWorkspace(h) \/ DropOther(h) \/ Abandon(h)
    BY <2>3 DEF TypeOK, DropWorkspace, DropOther, Abandon
  <2>4. QED BY <2>1, <2>2, <2>3 DEF Writing
<1>7. TypeOK'
  BY <1>1, <1>3, <1>4, <1>6 DEF TypeOK
<1>8. QED BY <1>2, <1>3, <1>6, <1>7 DEF RowsShrink

(* The same of the time that passes, and of another workspace. *)
LEMMA TimeEffect ==
    ASSUME TypeOK, EmailInv, CreateOther \/ \E e \in Emails : Lapse(e) \/ Expire(e)
    PROVE  TypeOK' /\ EmailInv' /\ RowsShrink /\ NoneAdds
<1>0. UNCHANGED <<live, rows, req, joined>>
  BY DEF CreateOther, Lapse, Expire
<1>1. EmailInv' /\ NoneAdds
  BY <1>0 DEF EmailInv, NoneAdds, Adding
<1>2. NoRow \in Row /\ NoRow.status = "absent"
  BY DEF NoRow, Row, Status, Expiry
<1>3. /\ row' \in [Emails -> Row] /\ spare' \in 0..MaxSpare
      /\ \A e \in Emails : \/ row'[e].status = row[e].status /\ row'[e].id = row[e].id
                           \/ row'[e].status = "absent"
  <2>1. CASE CreateOther
    BY <2>1, MembersAssumption DEF CreateOther, TypeOK
  <2>2. ASSUME NEW e \in Emails, Lapse(e)
        PROVE  <1>3!:
    BY <2>2 DEF Lapse, TypeOK, Row, Expiry
  <2>3. ASSUME NEW e \in Emails, Expire(e)
        PROVE  <1>3!:
    BY <1>2, <2>3 DEF Expire, TypeOK
  <2>4. QED BY <2>1, <2>2, <2>3
<1>4. TypeOK'
  BY <1>0, <1>3 DEF TypeOK
<1>5. QED BY <1>0, <1>1, <1>3, <1>4 DEF RowsShrink

(* The invite that is inserted is a row of its own; its address was counted.  *)
LEMMA InsertStep ==
    ASSUME MembersInv, NEW h \in Requests, Insert(h)
    PROVE  MembersInv'
<1> DEFINE e == req[h].email
<1>0. TypeOK /\ EmailInv /\ CountInv /\ SeatInv
  BY DEF MembersInv
<1>1. /\ UNCHANGED <<live, spare, joined>> /\ Finish(h)
      /\ req[h].at = "insert" /\ row[e].status = "absent"
      /\ rows < MaxRows /\ rows' = rows + 1
      /\ row' = [row EXCEPT ![e] = [id |-> rows + 1, status |-> "pending", role |-> req[h].role,
                                    expires |-> "future"]]
  BY DEF Insert
<1>2. e \in Emails /\ req[h].role \in Roles \cup {NoRole} /\ rows \in Nat
  BY <1>0, <1>1, MembersAssumption DEF EmailInv, TypeOK, Req
<1>3. /\ req' \in [Requests -> Req] /\ req'[h].at = "idle"
      /\ \A g \in Requests \ {h} : req'[g] = req[g]
  BY <1>0, <1>1, FinishEffect
<1> HIDE DEF e
<1>4. /\ row' \in [Emails -> Row]
      /\ row'[e].id = rows + 1 /\ row'[e].status = "pending"
      /\ \A f \in Emails \ {e} : row'[f] = row[f]
  BY <1>0, <1>1, <1>2 DEF TypeOK, Row, Status, Expiry
<1>5. TypeOK' /\ EmailInv'
  <2>1. rows' \in 0..MaxRows
    BY <1>0, <1>1, <1>2, MembersAssumption
  <2>2. QED BY <1>0, <1>1, <1>3, <1>4, <2>1 DEF TypeOK, EmailInv
<1>6. CountInv'
  <2>1. e \in Inviting
    BY <1>1 DEF Inviting, AddedBy, Adding, e
  <2>2. Pending' = Pending \cup {e}
    BY <1>2, <1>4 DEF Pending
  <2>3. Adding' = Adding \ {h} /\ \A g \in Adding' : req'[g] = req[g]
    BY <1>3 DEF Adding
  <2>4. Inviting' \in SUBSET Inviting
    BY <2>1, <2>2, <2>3 DEF Inviting, AddedBy
  <2>5. Inviting \in SUBSET Emails
    BY <1>0 DEF Inviting, AddedBy, Adding, Pending, EmailInv
  <2>6. IsFiniteSet(Inviting)
    BY <2>5, MembersAssumption, PartSize
  <2>7. /\ Cardinality(Inviting') \in Nat /\ Cardinality(Inviting) \in Nat
        /\ Cardinality(Inviting') <= Cardinality(Inviting)
    BY <2>4, <2>6, PartSize
  <2>8. MaxPending \in Nat /\ Cardinality(Requests) \in Nat
    BY MembersAssumption, PartSize
  <2>9. QED BY <1>0, <2>7, <2>8 DEF CountInv
<1>7. SeatInv'
  <2>1. Present' = Present \cup {e} /\ Pending' = Pending \cup {e} /\ e \notin Present
    BY <1>1, <1>2, <1>4 DEF Present, Pending, e
  <2>2. \A f \in Present : f # e /\ row'[f].id = row[f].id /\ row[f].id \in 1..rows
    BY <1>0, <1>4, <2>1 DEF SeatInv, Present
  <2>3. \A n \in 1..rows : n \in 1..rows' /\ n # rows + 1
    BY <1>1, <1>2
  <2>4. rows + 1 \in 1..rows'
    BY <1>1, <1>2
  <2>5. \A f \in Present' : row'[f].id \in 1..rows'
    BY <1>4, <2>1, <2>2, <2>3, <2>4
  <2>6. \A f, g \in Present' : row'[f].id = row'[g].id => f = g
    BY <1>0, <1>4, <2>1, <2>2, <2>3 DEF SeatInv
  <2>7. \A x \in joined' : x.seat \in 1..rows' /\ x.seat # rows + 1
    BY <1>0, <1>1, <2>3 DEF SeatInv
  <2>8. \A f \in Pending : f \in Present
    BY DEF Pending, Present
  <2>9. \A f \in Pending' : \A x \in joined' : x.seat # row'[f].id
    BY <1>0, <1>1, <1>4, <2>1, <2>2, <2>7, <2>8 DEF SeatInv
  <2>10. QED BY <1>0, <1>1, <2>5, <2>6, <2>7, <2>9 DEF SeatInv, InviteSingleUse
<1>8. QED BY <1>5, <1>6, <1>7 DEF MembersInv

(* The row that an invite seats was open, and is so no more. *)
LEMMA ActivateStep ==
    ASSUME MembersInv, NEW h \in Requests, Activate(h)
    PROVE  MembersInv'
<1> DEFINE e == req[h].email
           seat == [by |-> h, invite |-> req[h].id, seat |-> row[e].id]
<1>0. TypeOK /\ EmailInv /\ CountInv /\ SeatInv
  BY DEF MembersInv
<1>1. /\ UNCHANGED <<live, spare, rows>> /\ Finish(h) /\ req[h].at = "activate"
      /\ \/ UNCHANGED <<row, joined>>
         \/ /\ row[e].id = req[h].id /\ row[e].status = "pending"
            /\ row' = [row EXCEPT ![e].status = "active", ![e].expires = "never"]
            /\ joined' = joined \cup {seat}
  BY DEF Activate, Seat, Matches
<1>2. /\ req' \in [Requests -> Req] /\ req'[h].at = "idle"
      /\ \A g \in Requests \ {h} : req'[g] = req[g]
  BY <1>0, <1>1, FinishEffect
<1>3. e \in Emails /\ row[e] \in Row
  BY <1>0, <1>1 DEF EmailInv, TypeOK
<1>4. EmailInv' /\ NoneAdds
  BY <1>0, <1>2 DEF EmailInv, NoneAdds, Adding
<1>5. CASE UNCHANGED <<row, joined>>
  <2>1. RowsShrink
    BY <1>1, <1>5 DEF RowsShrink
  <2>2. TypeOK'
    BY <1>0, <1>1, <1>2, <1>5 DEF TypeOK
  <2>3. QED BY <1>4, <2>1, <2>2, ShrinkStep DEF MembersInv
<1>6. CASE /\ row[e].id = req[h].id /\ row[e].status = "pending"
           /\ row' = [row EXCEPT ![e].status = "active", ![e].expires = "never"]
           /\ joined' = joined \cup {seat}
  <2> HIDE DEF e
  <2>1. /\ row' \in [Emails -> Row]
        /\ row'[e].id = row[e].id /\ row'[e].status = "active"
        /\ \A f \in Emails \ {e} : row'[f] = row[f]
    BY <1>0, <1>3, <1>6 DEF TypeOK, Row, Status, Expiry
  <2>2. TypeOK'
    <3>1. seat \in [by : Requests, invite : Nat, seat : Nat]
      BY <1>0, <1>3 DEF TypeOK, Req, Row
    <3>2. QED BY <1>0, <1>1, <1>2, <1>6, <2>1, <3>1 DEF TypeOK
  <2>3. Present' = Present /\ e \in Present /\ Pending' = Pending \ {e} /\ e \in Pending
    BY <1>3, <1>6, <2>1 DEF Present, Pending
  <2>4. \A f \in Present : row'[f].id = row[f].id
    BY <2>1 DEF Present
  <2>5. CountInv'
    <3>1. Inviting' \in SUBSET Inviting
      BY <1>4, <2>3 DEF NoneAdds, Inviting, AddedBy
    <3>2. Inviting \in SUBSET Emails
      BY <1>0 DEF Inviting, AddedBy, Adding, Pending, EmailInv
    <3>3. IsFiniteSet(Inviting)
      BY <3>2, MembersAssumption, PartSize
    <3>4. /\ Cardinality(Inviting') \in Nat /\ Cardinality(Inviting) \in Nat
          /\ Cardinality(Inviting') <= Cardinality(Inviting)
      BY <3>1, <3>3, PartSize
    <3>5. MaxPending \in Nat /\ Cardinality(Requests) \in Nat
      BY MembersAssumption, PartSize
    <3>6. QED BY <1>0, <3>4, <3>5 DEF CountInv
  <2>6. SeatInv'
    <3>1. \A f \in Pending' : f \in Pending /\ f \in Present /\ f # e
      BY <2>3 DEF Pending, Present
    <3>2. \A f \in Pending' : \A x \in joined : x.seat # row'[f].id
      BY <1>0, <2>4, <3>1 DEF SeatInv
    <3>3. \A f \in Pending' : row[e].id # row'[f].id
      BY <1>0, <2>3, <2>4, <3>1 DEF SeatInv
    <3>4. \A x \in joined : x.seat # row[e].id
      BY <1>0, <2>3 DEF SeatInv
    <3>5. seat.seat = row[e].id /\ seat.invite = row[e].id /\ row[e].id \in 1..rows
      BY <1>0, <1>6, <2>3 DEF SeatInv
    <3> HIDE DEF seat
    <3>6. InviteSingleUse'
      BY <1>0, <1>6, <3>4, <3>5 DEF SeatInv, InviteSingleUse
    <3>7. \A f \in Present' : row'[f].id \in 1..rows'
      BY <1>0, <1>1, <2>3, <2>4 DEF SeatInv
    <3>8. \A f, g \in Present' : row'[f].id = row'[g].id => f = g
      BY <1>0, <2>3, <2>4 DEF SeatInv
    <3>9. \A x \in joined' : x.seat \in 1..rows'
      BY <1>0, <1>1, <1>6, <3>5 DEF SeatInv
    <3>10. \A f \in Pending' : \A x \in joined' : x.seat # row'[f].id
      BY <1>6, <3>2, <3>3, <3>5
    <3>11. QED BY <3>6, <3>7, <3>8, <3>9, <3>10 DEF SeatInv
  <2>7. QED BY <1>4, <2>2, <2>5, <2>6 DEF MembersInv
<1>7. QED BY <1>1, <1>5, <1>6

(* A request that counts the open invites adds its address to an open one's   *)
(* place, or to fewer than the limit.                                        *)
LEMMA CountStep ==
    ASSUME MembersInv, NEW h \in Requests, CountPending(h)
    PROVE  CountInv'
<1> DEFINE e == req[h].email
<1>0. TypeOK /\ EmailInv /\ CountInv /\ SeatInv
  BY DEF MembersInv
<1>1. /\ UNCHANGED <<row, rows, joined>> /\ req[h].at = "list"
      /\ e \in Pending \/ Cardinality(Pending) < MaxPending
      /\ Advance(h, "find")
  BY DEF CountPending
<1>2. /\ req'[h].at = "find" /\ req'[h].email = e
      /\ \A g \in Requests \ {h} : req'[g] = req[g]
  BY <1>0, <1>1, AdvanceEffect DEF Step
<1>3. Pending' = Pending /\ Adding' = Adding \cup {h}
      /\ \A g \in Adding' : req'[g].email = req[g].email
  BY <1>1, <1>2 DEF Pending, Adding
<1>4. Pending \in SUBSET Emails /\ IsFiniteSet(Pending) /\ Cardinality(Pending) \in Nat
  <2>1. Pending \in SUBSET Emails
    BY DEF Pending
  <2>2. QED BY <2>1, MembersAssumption, PartSize
<1>5. Adding' \in SUBSET Requests
  BY DEF Adding
<1>6. MaxPending \in Nat /\ Cardinality(Requests) \in Nat
  BY MembersAssumption, PartSize
<1>7. CASE e \in Pending
  <2>1. Inviting' = Inviting
    BY <1>3, <1>7 DEF Inviting, AddedBy
  <2>2. QED BY <1>0, <2>1 DEF CountInv
<1>8. CASE Cardinality(Pending) < MaxPending
  <2>1. PICK A \in SUBSET Requests : A = Adding'
    BY <1>5
  <2>2. Inviting' = Pending \cup AddedBy(A)
    BY <1>3, <2>1 DEF Inviting, AddedBy
  <2>3. /\ IsFiniteSet(AddedBy(A)) /\ Cardinality(AddedBy(A)) \in Nat
        /\ Cardinality(AddedBy(A)) <= Cardinality(Requests)
    BY <1>0, AddedSize
  <2>4. /\ IsFiniteSet(Pending \cup AddedBy(A)) /\ IsFiniteSet(Pending \cap AddedBy(A))
        /\ Cardinality(Pending \cup AddedBy(A))
              = Cardinality(Pending) + Cardinality(AddedBy(A)) - Cardinality(Pending \cap AddedBy(A))
    BY <1>4, <2>3, FS_Union, FS_Intersection
  <2>5. Cardinality(Pending \cap AddedBy(A)) \in Nat /\ Cardinality(Pending \cup AddedBy(A)) \in Nat
    BY <2>4, FS_CardinalityType
  <2>6. Cardinality(Pending \cup AddedBy(A)) < MaxPending + Cardinality(Requests)
    BY <1>4, <1>6, <1>8, <2>3, <2>4, <2>5
  <2>7. QED BY <2>2, <2>6 DEF CountInv
<1>9. QED BY <1>1, <1>7, <1>8

(* A request that reads, starts or moves on. *)
LEMMA ReadingStep ==
    ASSUME MembersInv, NEW h \in Requests, Reading(h)
    PROVE  MembersInv'
<1>0. TypeOK /\ EmailInv /\ CountInv /\ SeatInv
  BY DEF MembersInv
<1>1. /\ UNCHANGED <<live, spare, row, rows, joined>>
      /\ req' \in [Requests -> Req]
      /\ \A g \in Requests \ {h} : req'[g] = req[g]
      /\ req'[h].at \notin {"idle", "count", "cascade", "drop", "countOther", "dropOther"}
            => req'[h].email \in Emails
      /\ h \in Adding' => /\ req'[h].email = req[h].email
                          /\ h \in Adding \/ CountPending(h)
  BY <1>0, ReadingEffect
<1>2. TypeOK' /\ EmailInv'
  BY <1>0, <1>1 DEF TypeOK, EmailInv
<1>3. RowsShrink
  BY <1>1 DEF RowsShrink
<1>4. CASE CountPending(h)
  <2>1. CountInv'
    BY <1>4, CountStep
  <2>2. SeatInv'
    BY <1>0, <1>1 DEF SeatInv, InviteSingleUse, Present, Pending
  <2>3. QED BY <1>2, <2>1, <2>2 DEF MembersInv
<1>5. CASE ~ CountPending(h)
  <2>1. NoneAdds
    BY <1>1, <1>5 DEF NoneAdds, Adding
  <2>2. QED BY <1>2, <1>3, <2>1, ShrinkStep DEF MembersInv
<1>6. QED BY <1>4, <1>5

(* A request that writes the rows, and the time that passes. *)
LEMMA WritingStep ==
    ASSUME MembersInv,
           \/ \E h \in Requests : Writing(h)
           \/ CreateOther \/ \E e \in Emails : Lapse(e) \/ Expire(e)
    PROVE  MembersInv'
<1>1. TypeOK' /\ EmailInv' /\ RowsShrink /\ NoneAdds
  BY WritingEffect, TimeEffect DEF MembersInv
<1>2. QED BY <1>1, ShrinkStep DEF MembersInv

-----------------------------------------------------------------------------
(* It holds when the workspace is made, with its owner alone in it. *)
LEMMA MembersBegins == Init => MembersInv
<1> SUFFICES ASSUME Init PROVE MembersInv
  OBVIOUS
<1>1. TypeOK
  <2>1. NoRow \in Row
    BY DEF NoRow, Row, Status, Expiry
  <2>2. rows \in 0..MaxRows
    BY MembersAssumption DEF Init
  <2>3. QED BY <2>1, <2>2, NoReqFields DEF Init, TypeOK
<1>2. \A h \in Requests : req[h].at = "idle"
  BY NoReqFields DEF Init
<1>3. Present = {} /\ Pending = {} /\ joined = {}
  BY DEF Init, Present, Pending, NoRow
<1>4. EmailInv
  BY <1>2 DEF EmailInv
<1>5. CountInv
  <2>1. Inviting = {}
    BY <1>2, <1>3 DEF Inviting, AddedBy, Adding
  <2>2. Cardinality(Inviting) = 0 /\ Cardinality(Requests) \in Nat
    BY <2>1, FS_EmptySet, MembersAssumption, PartSize
  <2>3. QED BY <2>2, MembersAssumption DEF CountInv
<1>6. SeatInv
  BY <1>3 DEF SeatInv, InviteSingleUse
<1>7. QED BY <1>1, <1>4, <1>5, <1>6 DEF MembersInv

(* Each step keeps it. *)
LEMMA MembersStep == MembersInv /\ [Next]_vars => MembersInv'
<1> SUFFICES ASSUME MembersInv, [Next]_vars PROVE MembersInv'
  OBVIOUS
<1>1. ASSUME NEW h \in Requests, Reading(h)
      PROVE  MembersInv'
  BY <1>1, ReadingStep
<1>2. ASSUME NEW h \in Requests, Writing(h)
      PROVE  MembersInv'
  BY <1>2, WritingStep
<1>3. ASSUME CreateOther \/ \E e \in Emails : Lapse(e) \/ Expire(e)
      PROVE  MembersInv'
  BY <1>3, WritingStep
<1>4. ASSUME NEW h \in Requests, Insert(h) \/ Activate(h)
      PROVE  MembersInv'
  BY <1>4, InsertStep, ActivateStep
<1>5. CASE UNCHANGED vars
  BY <1>5 DEF vars, MembersInv, TypeOK, EmailInv, CountInv, SeatInv, InviteSingleUse,
              Inviting, AddedBy, Adding, Present, Pending
<1>6. CASE Next
  <2>1. \/ \E h \in Requests : Reading(h) \/ Writing(h) \/ Insert(h) \/ Activate(h)
        \/ CreateOther \/ \E e \in Emails : Lapse(e) \/ Expire(e)
    BY <1>6 DEF Next, Reading, Writing
  <2>2. QED BY <1>1, <1>2, <1>3, <1>4, <2>1
<1>7. QED BY <1>5, <1>6

(* WorkspaceMembers: the invariant below holds of every reachable state, for *)
(* any number of requests, addresses, rows and other workspaces.             *)
THEOREM MembersInvariance == Spec => []MembersInv
BY MembersBegins, MembersStep, PTL DEF Spec

(* Types of the workspace, its rows and the requests about them. *)
THEOREM TypeCorrect == Spec => []TypeOK
<1>1. MembersInv => TypeOK
  BY DEF MembersInv
<1>2. QED BY <1>1, MembersInvariance, PTL

(* upsert_pending: the open invites exceed MAX_PENDING_INVITES by less than   *)
(* the requests the server works on at a time.                               *)
THEOREM PendingBoundedHolds == Spec => []PendingBounded
<1>1. ASSUME MembersInv
      PROVE  PendingBounded
  <2>1. CountInv /\ Pending \in SUBSET Inviting /\ Inviting \in SUBSET Emails
    BY <1>1 DEF MembersInv, Inviting, AddedBy, Adding, Pending, EmailInv
  <2>2. IsFiniteSet(Inviting)
    BY <2>1, MembersAssumption, PartSize
  <2>3. /\ Cardinality(Pending) \in Nat /\ Cardinality(Inviting) \in Nat
        /\ Cardinality(Pending) <= Cardinality(Inviting)
    BY <2>1, <2>2, PartSize
  <2>4. MaxPending \in Nat /\ Cardinality(Requests) \in Nat
    BY MembersAssumption, PartSize
  <2>5. QED BY <2>1, <2>3, <2>4 DEF CountInv, PendingBounded
<1>2. QED BY <1>1, MembersInvariance, PTL

(* accept_invite: an invite seats one address once, in the row it was found   *)
(* in, whatever was revoked, reissued, removed or expired meanwhile.          *)
THEOREM InviteSingleUseHolds == Spec => []InviteSingleUse
<1>1. MembersInv => InviteSingleUse
  BY DEF MembersInv, SeatInv
<1>2. QED BY <1>1, MembersInvariance, PTL
===============================================================================
