----------------------------- MODULE ContentProofs -----------------------------
(***************************************************************************)
(* Theorems about WorkspaceContent: who writes a document, and what the     *)
(* deletions leave behind, for any number of requests, members and          *)
(* documents.                                                               *)
(***************************************************************************)
EXTENDS WorkspaceContent, TLAPS

-----------------------------------------------------------------------------
(* The order of the _ids: a document has one that was given, and a saved      *)
(* request was inserted after the collection it is in.                       *)
DocInv ==
    \A i \in Ids :
        /\ docs[i].kind # "none" => i <= made
        /\ docs[i].kind = "request" => docs[i].in \in Ids /\ docs[i].in < i

(* A collection that is there, or is accounted for. *)
Settled(c) == docs[c].kind = "collection" \/ c \in purged \/ swept[c] <= made

(* What the operation of a request says of its step. *)
Shaped(r) ==
    /\ r.at = "request" => r.op \in {"update", "delete"} /\ r.kind = "request"
    /\ r.at = "collection" => r.op \in {"new", "update", "delete"}
    /\ r.at = "insert" => r.op = "new"
    /\ r.at = "sweep" => r.op = "delete" /\ r.kind = "collection"
    /\ r.at \in {"comment", "drop"} => r.op = "delete"
    /\ r.op \in {"update", "delete"} => r.id \in Ids
    /\ r.op \in {"update", "delete"} /\ r.kind = "collection" => r.in = r.id
    /\ r.op = "new" /\ r.kind = "request" => r.in \in Ids

(* The documents a request names were there when it named them. *)
Named(r) ==
    /\ r.op \in {"update", "delete"} => r.id <= made /\ docs[r.id].kind \in {"none", r.kind}
    /\ r.op = "new" /\ r.kind = "request" => r.in <= made /\ Settled(r.in)

(* What a cascade has swept is empty but for what was inserted since. *)
Late(r) ==
    /\ r.newest <= made
    /\ r.at = "drop" /\ r.kind = "collection" => \A q \in In(r.id) : r.newest < q
    /\ r.at = "sweepAll" => \A c \in Of("collection") \ r.todo : \A q \in In(c) : r.newest < q
    /\ r.at \in {"members", "comments", "dropWorkspace"} =>
          \A c \in Of("collection") : r.newest < c
    /\ r.at = "dropWorkspace" => \A c \in Of("comment") : r.newest < c

(* A request knows the highest rank its user had since it began. *)
Ranked(r) == r.at # "idle" => r.user \in Users /\ RankOf(r.user) <= r.had

(* A request past its checks had the rank they ask for. *)
Checked(r) == r.at \in {"comment", "insert", "sweep", "drop"} => r.had >= Needed(r)

(* Each of these is true of every request. *)
ReqInv ==
    \A h \in Requests : /\ Shaped(req[h]) /\ Named(req[h]) /\ Late(req[h])
                        /\ Ranked(req[h]) /\ Checked(req[h])

(* A workspace that is gone has only what was inserted after its cascade began. *)
EmptyInv ==
    \/ live \/ 0 \in purged
    \/ swept[0] <= made /\ \A i \in Of("collection") \cup Of("comment") : swept[0] < i

(* The inductive invariant. *)
ContentInv == TypeOK /\ DocInv /\ ReqInv /\ OrphansAreLate /\ EmptyInv

-----------------------------------------------------------------------------
(* What the deletions do to the documents: some go, and a collection that     *)
(* goes is accounted for. *)
Loses ==
    /\ UNCHANGED made
    /\ docs' \in [Ids -> Doc]
    /\ \A i \in Ids : docs'[i] = docs[i] \/ docs'[i] = NoDoc
    /\ purged \subseteq purged'
    /\ \A c \in Ids :
          \/ /\ swept'[c] = swept[c]
             /\ docs'[c].kind = docs[c].kind \/ docs[c].kind # "collection" \/ c \in purged'
          \/ /\ docs[c].kind = "collection"
             /\ swept'[c] <= made
             /\ \A q \in In(c)' : swept'[c] < q

(* What a step keeps of the documents, and of the requests it is not by. *)
Kept ==
    /\ DocInv' /\ OrphansAreLate'
    /\ \A r \in Req : (Shaped(r) /\ Named(r) => Named(r)') /\ (Late(r) => Late(r)')

(* The place of no document. *)
LEMMA NoDocFields == NoDoc \in Doc /\ NoDoc.kind = "none"
BY ContentAssumption DEF NoDoc, Doc, Kind

(* The request that is over. *)
LEMMA NoReqFields ==
    /\ NoReq \in Req /\ NoReq.op = "none" /\ NoReq.at = "idle" /\ NoReq.user = NoUser
    /\ NoReq.id = 0 /\ NoReq.in = 0 /\ NoReq.kind = "none" /\ NoReq.mine = FALSE
    /\ NoReq.had = 0 /\ NoReq.newest = 0 /\ NoReq.todo = {}
<1>1. 0 \in 0..MaxDocs /\ 0 \in Rank
  BY ContentAssumption DEF Rank
<1>2. QED BY <1>1 DEF NoReq, Req, Op, Step, Kind

(* Deletions keep what was true of the documents. *)
LEMMA LosesKeeps ==
    ASSUME TypeOK, DocInv, OrphansAreLate, Loses
    PROVE  Kept
<1>1. \A i \in Ids : \/ docs'[i].kind = docs[i].kind /\ docs'[i].in = docs[i].in
                     \/ docs'[i].kind = "none"
  BY NoDocFields DEF Loses
<1>2. /\ \A k \in Kind \ {"none"} : Of(k)' \subseteq Of(k)
      /\ \A c : In(c)' \subseteq In(c)
      /\ \A i \in Of("request")' : i \in Of("request") /\ docs'[i].in = docs[i].in
  BY <1>1 DEF Of, In
<1>3. DocInv'
  BY <1>1 DEF DocInv, Loses
<1>4. OrphansAreLate'
  <2> SUFFICES ASSUME NEW q \in Of("request")'
               PROVE  \/ docs'[docs'[q].in].kind = "collection"
                      \/ docs'[q].in \in purged'
                      \/ swept'[docs'[q].in] < q
    BY DEF OrphansAreLate
  <2>1. PICK c \in Ids : c = docs[q].in /\ c = docs'[q].in
    BY <1>2 DEF DocInv, Of
  <2>2. q \in In(c)'
    BY <2>1 DEF In
  <2>3. docs[c].kind = "collection" \/ c \in purged \/ swept[c] < q
    BY <1>2, <2>1 DEF OrphansAreLate
  <2>4. QED BY <2>1, <2>2, <2>3 DEF Loses
<1>5. ASSUME NEW r \in Req, Shaped(r), Named(r)
      PROVE  Named(r)'
  <2>1. CASE r.op \in {"update", "delete"}
    <3>1. r.id \in Ids /\ r.id <= made /\ docs[r.id].kind \in {"none", r.kind}
      BY <1>5, <2>1 DEF Shaped, Named
    <3>2. QED BY <1>1, <2>1, <3>1 DEF Named, Loses
  <2>2. CASE r.op = "new" /\ r.kind = "request"
    <3>1. r.in \in Ids /\ r.in <= made /\ Settled(r.in)
      BY <1>5, <2>2 DEF Shaped, Named
    <3>2. QED BY <2>2, <3>1 DEF Named, Settled, Loses
  <2>3. QED BY <2>1, <2>2 DEF Named
<1>6. ASSUME NEW r \in Req, Late(r)
      PROVE  Late(r)'
  <2>1. /\ Of("collection")' \subseteq Of("collection") /\ Of("comment")' \subseteq Of("comment")
    BY <1>2 DEF Kind
  <2>2. QED BY <1>2, <1>6, <2>1 DEF Late, Loses
<1>7. QED BY <1>3, <1>4, <1>5, <1>6 DEF Kept

(* An inserted document has the newest _id, so it is late for every cascade.  *)
LEMMA InsertKeeps ==
    ASSUME ContentInv, NEW h \in Requests, Insert(h)
    PROVE  Kept /\ EmptyInv'
<1>0. TypeOK /\ DocInv /\ OrphansAreLate /\ EmptyInv /\ Shaped(req[h]) /\ Named(req[h])
  BY DEF ContentInv, ReqInv
<1>1. /\ UNCHANGED <<live, role, swept, purged>> /\ req[h].at = "insert"
      /\ made < MaxDocs /\ made' = made + 1
      /\ docs' = [docs EXCEPT ![made + 1] =
                     [kind |-> req[h].kind, in |-> req[h].in, by |-> req[h].user]]
  BY DEF Insert
<1>2. PICK n \in Ids : n = made + 1 /\ made \in Nat
  BY <1>0, <1>1, ContentAssumption DEF TypeOK, Ids
<1>3. /\ docs'[n].kind = req[h].kind /\ docs'[n].in = req[h].in
      /\ \A i \in Ids \ {n} : docs'[i] = docs[i]
      /\ docs[n].kind = "none"
  BY <1>0, <1>1, <1>2 DEF TypeOK, DocInv
<1>4. docs'[n].kind = "request" => /\ docs'[n].in \in Ids /\ docs'[n].in < n
                                   /\ Settled(docs'[n].in)
  <2>1. docs'[n].kind = "request" => req[h].in \in Ids /\ req[h].in <= made /\ Settled(req[h].in)
    BY <1>0, <1>1, <1>3 DEF Shaped, Named
  <2>2. \A i \in Ids : i <= made => i < n
    BY <1>2 DEF Ids
  <2>3. QED BY <1>3, <2>1, <2>2
<1>5. \A i \in Ids : docs[i].kind # "none" => i <= made /\ i < n /\ i # n
  BY <1>0, <1>2 DEF DocInv, Ids
<1>6. DocInv'
  BY <1>0, <1>1, <1>2, <1>3, <1>4, <1>5 DEF DocInv, Ids
<1>7. \A k \in Kind \ {"none"} : \A i \in Of(k)' : i = n \/ i \in Of(k)
  BY <1>3 DEF Of
<1>8. \A c : \A q \in In(c)' : q = n \/ q \in In(c)
  BY <1>3 DEF In, Of
<1>9. OrphansAreLate'
  <2> SUFFICES ASSUME NEW q \in Of("request")'
               PROVE  \/ docs'[docs'[q].in].kind = "collection"
                      \/ docs'[q].in \in purged'
                      \/ swept'[docs'[q].in] < q
    BY DEF OrphansAreLate
  <2>1. CASE q = n
    <3>1. PICK c \in Ids : c = docs'[n].in /\ c < n /\ Settled(c)
      BY <1>4, <2>1 DEF Of
    <3>2. swept[c] \in Nat
      BY <1>0, <3>1 DEF TypeOK, Ids
    <3>3. c # n
      BY <3>1, <1>2 DEF Ids
    <3>4. QED BY <1>1, <1>2, <1>3, <2>1, <3>1, <3>2, <3>3 DEF Settled
  <2>2. CASE q # n
    <3>1. q \in Of("request") /\ docs'[q] = docs[q]
      BY <1>3, <2>2 DEF Of
    <3>2. docs[q].in \in Ids
      BY <1>0, <3>1 DEF DocInv, Of
    <3>3. QED BY <1>0, <1>1, <1>3, <1>5, <3>1, <3>2 DEF OrphansAreLate
  <2>3. QED BY <2>1, <2>2
<1>10. ASSUME NEW r \in Req, Shaped(r), Named(r)
       PROVE  Named(r)'
  <2>1. \A i \in Ids : i <= made => i <= made' /\ docs'[i] = docs[i] /\ (Settled(i) => Settled(i)')
    <3> SUFFICES ASSUME NEW i \in Ids, i <= made
                 PROVE  i <= made' /\ docs'[i] = docs[i] /\ (Settled(i) => Settled(i)')
      OBVIOUS
    <3>1. i # n /\ i <= made' /\ swept[i] \in Nat
      BY <1>0, <1>1, <1>2 DEF Ids, TypeOK
    <3>2. QED BY <1>1, <1>2, <1>3, <3>1 DEF Settled
  <2>2. QED BY <1>10, <2>1 DEF Named, Shaped
<1>11. ASSUME NEW r \in Req, Late(r)
       PROVE  Late(r)'
  <2>1. r.newest <= made' /\ r.newest < n
    BY <1>1, <1>2, <1>11 DEF Late, Req
  <2>2. \A i \in Of("collection")' : i = n \/ i \in Of("collection")
    BY <1>7 DEF Kind
  <2>3. \A i \in Of("comment")' : i = n \/ i \in Of("comment")
    BY <1>7 DEF Kind
  <2>4. In(n)' = {}
    BY <1>6, <1>2, <1>3, <1>4, <1>5 DEF In, Of, DocInv, Ids
  <2>5. QED BY <1>8, <1>11, <2>1, <2>2, <2>3, <2>4 DEF Late
<1>12. EmptyInv'
  <2>1. CASE live \/ 0 \in purged
    BY <1>1, <2>1 DEF EmptyInv
  <2>2. CASE ~ live /\ 0 \notin purged
    <3>1. swept[0] <= made /\ \A i \in Of("collection") \cup Of("comment") : swept[0] < i
      BY <1>0, <2>2 DEF EmptyInv
    <3>2. swept[0] \in Nat
      BY <1>0, ContentAssumption DEF TypeOK
    <3>3. swept[0] < n /\ swept[0] <= made'
      BY <1>1, <1>2, <3>1, <3>2
    <3>4. \A i \in Of("collection")' \cup Of("comment")' :
             i = n \/ i \in Of("collection") \cup Of("comment")
      BY <1>7 DEF Kind
    <3>5. QED BY <1>1, <3>1, <3>3, <3>4 DEF EmptyInv
  <2>3. QED BY <2>1, <2>2
<1>13. QED BY <1>6, <1>9, <1>10, <1>11, <1>12 DEF Kept

-----------------------------------------------------------------------------
(* A step of one request: what it makes of the documents is known, and what    *)
(* is left to show is about its own next call.                                *)
LEMMA RequestStep ==
    ASSUME ContentInv, TypeOK', Kept, EmptyInv', \A m \in Members : role'[m] <= role[m],
           NEW h \in Requests, NEW new \in Req, req' = [req EXCEPT ![h] = new],
           Shaped(new), Named(new)', Late(new)', Ranked(new), Checked(new)
    PROVE  ContentInv'
<1>0. TypeOK /\ ReqInv
  BY DEF ContentInv
<1>1. ASSUME NEW g \in Requests
      PROVE  /\ Shaped(req[g])' /\ Named(req[g])' /\ Late(req[g])'
             /\ Ranked(req[g])' /\ Checked(req[g])'
  <2>1. PICK r \in Req : /\ r = req'[g]
                         /\ Shaped(r) /\ Named(r)' /\ Late(r)' /\ Ranked(r) /\ Checked(r)
    <3>1. CASE g = h
      BY <1>0, <3>1 DEF TypeOK
    <3>2. CASE g # h
      <4>1. PICK r \in Req : r = req[g] /\ r = req'[g]
        BY <1>0, <3>2 DEF TypeOK
      <4>2. Shaped(r) /\ Named(r) /\ Late(r) /\ Ranked(r) /\ Checked(r)
        BY <1>0, <4>1 DEF ReqInv
      <4>3. Named(r)' /\ Late(r)'
        BY <4>2 DEF Kept
      <4>4. QED BY <4>1, <4>2, <4>3
    <3>3. QED BY <3>1, <3>2
  <2>2. Named(req[g])' /\ Late(req[g])'
    BY <2>1 DEF Named, Late, Settled, Of, In
  <2>3. Shaped(req[g])' /\ Checked(req[g])'
    BY <2>1 DEF Shaped, Checked, Needed
  <2>4. Ranked(req[g])'
    <3>1. r.user \in Users => /\ RankOf(r.user)' <= RankOf(r.user) /\ RankOf(r.user) \in Nat
                              /\ RankOf(r.user)' \in Nat /\ r.had \in Nat
      <4>1. r.had \in Nat
        BY DEF Req, Rank
      <4>2. CASE r.user = Owner
        BY <4>1, <4>2 DEF RankOf
      <4>3. CASE r.user \in Users /\ r.user # Owner
        <5>1. PICK m \in Members : m = r.user
          BY <4>3 DEF Users
        <5>2. role[m] \in Nat /\ role'[m] \in Nat /\ role'[m] <= role[m]
          BY <1>0 DEF TypeOK, Editor
        <5>3. QED BY <4>1, <4>3, <5>1, <5>2 DEF RankOf
      <4>4. QED BY <4>1, <4>2, <4>3
    <3>2. r.at # "idle" => r.user \in Users /\ RankOf(r.user)' <= r.had
      BY <2>1, <3>1 DEF Ranked
    <3>3. QED BY <2>1, <3>2 DEF Ranked, RankOf
  <2>5. QED BY <2>2, <2>3, <2>4
<1>2. ReqInv'
  BY <1>1 DEF ReqInv
<1>3. QED BY <1>2 DEF ContentInv, Kept

(* A step that writes no document. *)
LEMMA ReadingStep ==
    ASSUME ContentInv, UNCHANGED <<live, role, docs, made, swept, purged>>,
           NEW h \in Requests, NEW new \in Req, req' = [req EXCEPT ![h] = new],
           Shaped(new), Named(new), Late(new), Ranked(new), Checked(new)
    PROVE  ContentInv'
<1>0. TypeOK /\ DocInv /\ OrphansAreLate /\ EmptyInv
  BY DEF ContentInv
<1>1. TypeOK'
  BY <1>0 DEF TypeOK
<1>2. Loses
  BY <1>0 DEF Loses, TypeOK
<1>3. Kept
  BY <1>0, <1>2, LosesKeeps
<1>4. EmptyInv'
  BY <1>0 DEF EmptyInv, Of
<1>5. Named(new)' /\ Late(new)'
  BY DEF Named, Late, Settled, Of, In
<1>6. \A m \in Members : role'[m] <= role[m]
  BY <1>0 DEF TypeOK, Editor
<1>7. QED BY <1>1, <1>3, <1>4, <1>5, <1>6, RequestStep

(* The request that is over asks for nothing. *)
LEMMA OverEffect ==
    ASSUME TypeOK
    PROVE  Shaped(NoReq) /\ Named(NoReq) /\ Late(NoReq) /\ Ranked(NoReq) /\ Checked(NoReq)
<1>1. 0 <= made
  BY ContentAssumption DEF TypeOK
<1>2. QED BY <1>1, NoReqFields DEF Shaped, Named, Late, Ranked, Checked

(* A request that ends. *)
LEMMA OverStep ==
    ASSUME ContentInv, NEW h \in Requests, WriteBack(h) \/ Abandon(h)
    PROVE  ContentInv'
<1>1. UNCHANGED <<live, role, docs, made, swept, purged>> /\ req' = [req EXCEPT ![h] = NoReq]
  BY DEF WriteBack, Abandon, Finish
<1>2. Shaped(NoReq) /\ Named(NoReq) /\ Late(NoReq) /\ Ranked(NoReq) /\ Checked(NoReq)
  BY OverEffect DEF ContentInv
<1>3. QED BY <1>1, <1>2, NoReqFields, ReadingStep

(* A request that begins names what is there, with the rank of its user. *)
LEMMA StartStep ==
    ASSUME ContentInv, NEW h \in Requests, NEW r \in Req, Start(h, r), r.user \in Users,
           r.at \notin {"comment", "insert", "sweep", "drop", "sweepAll",
                        "members", "comments", "dropWorkspace"},
           r.newest = 0, Shaped(r), Named(r)
    PROVE  ContentInv'
<1>0. TypeOK
  BY DEF ContentInv
<1>1. RankOf(r.user) \in Rank
  BY <1>0 DEF RankOf, TypeOK, Users, Rank, Editor
<1>2. PICK new \in Req : new = [r EXCEPT !.had = RankOf(r.user)]
  BY <1>1 DEF Req
<1>3. /\ UNCHANGED <<live, role, docs, made, swept, purged>>
      /\ req' = [req EXCEPT ![h] = new]
  BY <1>2 DEF Start
<1>4. /\ new.op = r.op /\ new.at = r.at /\ new.user = r.user /\ new.id = r.id /\ new.in = r.in
      /\ new.kind = r.kind /\ new.newest = r.newest /\ new.had = RankOf(r.user)
  BY <1>2 DEF Req
<1>5. Shaped(new) /\ Named(new)
  BY <1>4 DEF Shaped, Named
<1>6. Late(new)
  BY <1>0, <1>4, ContentAssumption DEF Late, TypeOK
<1>7. Ranked(new) /\ Checked(new)
  BY <1>1, <1>4 DEF Ranked, Checked, Rank
<1>8. QED BY <1>3, <1>5, <1>6, <1>7, ReadingStep

(* Every operation begins so. *)
Begins(h) ==
    \/ \E u \in Users :
          \/ \E kind \in {"collection", "comment"} : StartNew(h, u, kind)
          \/ \E i \in Ids : StartAdd(h, u, i)
                            \/ \E op \in {"update", "delete"} : StartExisting(h, u, op, i)
          \/ StartPurge(h, u)
    \/ StartDeleteWorkspace(h)

(* The first step of an operation keeps the invariant. *)
LEMMA BeginStep ==
    ASSUME ContentInv, NEW h \in Requests, Begins(h)
    PROVE  ContentInv'
<1>0. TypeOK /\ DocInv /\ made \in 0..MaxDocs
  BY DEF ContentInv, TypeOK
<1> DEFINE Fresh(r) == /\ r \in Req /\ r.user \in Users /\ r.newest = 0
                       /\ r.at \in {"request", "collection", "workspace", "purgeRequests"}
                       /\ Shaped(r) /\ Named(r)
<1>1. ASSUME NEW r, Fresh(r), Start(h, r)
      PROVE  ContentInv'
  <2>1. r.at \notin {"comment", "insert", "sweep", "drop", "sweepAll",
                     "members", "comments", "dropWorkspace"}
    BY <1>1
  <2>2. QED BY <1>1, <2>1, StartStep
<1>2. ASSUME NEW u \in Users, NEW kind \in {"collection", "comment"}, StartNew(h, u, kind)
      PROVE  ContentInv'
  <2>1. PICK r : r = [NoReq EXCEPT !.op = "new", !.at = "workspace", !.user = u, !.kind = kind]
    OBVIOUS
  <2>2. /\ r \in Req /\ r.user = u /\ r.newest = 0 /\ r.at = "workspace"
        /\ r.op = "new" /\ r.kind = kind
    BY <2>1, NoReqFields DEF Req, Op, Step, Kind
  <2>3. Shaped(r) /\ Named(r)
    BY <2>2 DEF Shaped, Named
  <2>4. QED BY <1>1, <1>2, <2>1, <2>2, <2>3 DEF StartNew
<1>3. ASSUME NEW u \in Users, NEW i \in Ids, StartAdd(h, u, i)
      PROVE  ContentInv'
  <2>1. PICK r : r = [NoReq EXCEPT !.op = "new", !.at = "collection", !.user = u,
                                   !.kind = "request", !.in = i]
    OBVIOUS
  <2>2. /\ r \in Req /\ r.user = u /\ r.newest = 0 /\ r.at = "collection"
        /\ r.op = "new" /\ r.kind = "request" /\ r.in = i
    <3>1. i \in 0..MaxDocs /\ "request" \in Kind /\ "collection" \in Step /\ "new" \in Op
      BY DEF Ids, Kind, Step, Op
    <3>2. QED BY <2>1, <3>1, NoReqFields DEF Req
  <2>3. docs[i].kind = "collection" /\ i <= made
    BY <1>0, <1>3 DEF StartAdd, DocInv
  <2>4. Shaped(r) /\ Named(r)
    BY <2>2, <2>3 DEF Shaped, Named, Settled
  <2>5. QED BY <1>1, <1>3, <2>1, <2>2, <2>4 DEF StartAdd
<1>4. ASSUME NEW u \in Users, NEW i \in Ids, NEW op \in {"update", "delete"},
             StartExisting(h, u, op, i)
      PROVE  ContentInv'
  <2>1. PICK kind \in Kind \ {"none"} : kind = docs[i].kind
    BY <1>0, <1>4 DEF StartExisting, TypeOK, Doc
  <2>2. PICK r : r = [NoReq EXCEPT !.op = op, !.at = FirstStep(kind), !.user = u, !.kind = kind,
                                   !.id = i, !.in = IF kind = "collection" THEN i ELSE 0]
    OBVIOUS
  <2>3. /\ FirstStep(kind) \in {"request", "collection", "workspace"}
        /\ FirstStep(kind) = "request" => kind = "request"
    BY DEF FirstStep
  <2>4. /\ r \in Req /\ r.user = u /\ r.newest = 0 /\ r.at = FirstStep(kind)
        /\ r.op = op /\ r.kind = kind /\ r.id = i
        /\ r.in = (IF kind = "collection" THEN i ELSE 0)
    <3>1. PICK c \in 0..MaxDocs : c = (IF kind = "collection" THEN i ELSE 0)
      BY NoReqFields, ContentAssumption DEF Ids
    <3>2. PICK step \in Step : step = FirstStep(kind)
      BY <2>3 DEF Step
    <3>3. i \in 0..MaxDocs /\ op \in Op
      BY DEF Ids, Op
    <3>4. r = [NoReq EXCEPT !.op = op, !.at = step, !.user = u, !.kind = kind, !.id = i, !.in = c]
      BY <2>2, <3>1, <3>2
    <3>5. /\ r \in Req /\ r.user = u /\ r.newest = 0 /\ r.at = step
          /\ r.op = op /\ r.kind = kind /\ r.id = i /\ r.in = c
      BY <3>3, <3>4, NoReqFields DEF Req
    <3>6. QED BY <3>1, <3>2, <3>5
  <2>5. i <= made /\ docs[r.id].kind = r.kind
    BY <1>0, <2>1, <2>4 DEF DocInv
  <2>6. Shaped(r) /\ Named(r)
    BY <2>3, <2>4, <2>5 DEF Shaped, Named
  <2>7. Start(h, r)
    BY <1>4, <2>1, <2>2 DEF StartExisting
  <2>8. QED BY <1>1, <2>3, <2>4, <2>6, <2>7
<1>5. ASSUME NEW u \in Users, StartPurge(h, u)
      PROVE  ContentInv'
  <2>1. PICK r : r = [NoReq EXCEPT !.op = "purge", !.at = "purgeRequests", !.user = u]
    OBVIOUS
  <2>2. r \in Req /\ r.user = u /\ r.newest = 0 /\ r.at = "purgeRequests" /\ r.op = "purge"
    BY <2>1, NoReqFields DEF Req, Op, Step
  <2>3. Shaped(r) /\ Named(r)
    BY <2>2 DEF Shaped, Named
  <2>4. QED BY <1>1, <1>5, <2>1, <2>2, <2>3 DEF StartPurge
<1>6. ASSUME StartDeleteWorkspace(h)
      PROVE  ContentInv'
  <2>1. PICK r : r = [NoReq EXCEPT !.op = "deleteWorkspace", !.at = "workspace", !.user = Owner]
    OBVIOUS
  <2>2. /\ r \in Req /\ r.user = Owner /\ r.newest = 0 /\ r.at = "workspace"
        /\ r.op = "deleteWorkspace"
    BY <2>1, NoReqFields DEF Req, Op, Step, Users
  <2>3. Shaped(r) /\ Named(r)
    BY <2>2 DEF Shaped, Named
  <2>4. QED BY <1>1, <1>6, <2>1, <2>2, <2>3 DEF StartDeleteWorkspace, Users
<1>7. QED BY <1>2, <1>3, <1>4, <1>5, <1>6 DEF Begins

(* What the operation of a request does next, once its user may. *)
LEMMA ProceedStep ==
    ASSUME ContentInv, NEW h \in Requests, req[h].at # "idle",
           req[h].had >= Needed(req[h]), NEW owner \in BOOLEAN, Proceed(h, owner),
           UNCHANGED <<live, role, docs, made, swept, purged>>
    PROVE  ContentInv'
<1>0. TypeOK
  BY DEF ContentInv
<1>1. PICK r \in Req : r = req[h]
  BY <1>0 DEF TypeOK
<1>2. Shaped(r) /\ Named(r) /\ Late(r) /\ Ranked(r)
  BY <1>1 DEF ContentInv, ReqInv
<1>3. PICK step \in {"insert", "write", "drop", "sweep", "comment", "list"} :
         /\ Advance(h, step)
         /\ step = "insert" => r.op = "new"
         /\ step = "sweep" => r.op = "delete" /\ r.kind = "collection"
         /\ step = "comment" => r.op = "delete"
         /\ step = "drop" => r.op = "delete" /\ r.kind = "request"
  BY <1>1 DEF Proceed
<1>4. PICK new \in Req : new = [r EXCEPT !.at = step]
  BY DEF Req, Step
<1>5. /\ new.op = r.op /\ new.at = step /\ new.user = r.user /\ new.id = r.id /\ new.in = r.in
      /\ new.kind = r.kind /\ new.newest = r.newest /\ new.had = r.had
  BY <1>4 DEF Req
<1>6. req' = [req EXCEPT ![h] = new]
  BY <1>1, <1>3, <1>4 DEF Advance
<1>7. Shaped(new) /\ Named(new) /\ Late(new)
  BY <1>2, <1>3, <1>5 DEF Shaped, Named, Late
<1>8. Ranked(new) /\ Checked(new)
  BY <1>1, <1>2, <1>5 DEF Ranked, Checked, Needed
<1>9. QED BY <1>6, <1>7, <1>8, ReadingStep

(* Every call that only finds something. *)
Finds(h) ==
    \/ FindRequest(h) \/ FindCollection(h) \/ FindWorkspace(h) \/ CheckRole(h)
    \/ FindComment(h) \/ ListCollections(h)

(* A lookup or a check of the role keeps the invariant. *)
LEMMA FindStep ==
    ASSUME ContentInv, NEW h \in Requests, Finds(h)
    PROVE  ContentInv'
<1>0. TypeOK /\ UNCHANGED <<live, role, docs, made, swept, purged>> /\ req[h].at # "idle"
  BY DEF ContentInv, Finds, FindRequest, FindCollection, FindWorkspace, CheckRole, FindComment,
         ListCollections
<1>1. PICK r \in Req : r = req[h]
  BY <1>0 DEF TypeOK
<1>2. Shaped(r) /\ Named(r) /\ Late(r) /\ Ranked(r) /\ Checked(r)
  BY <1>1 DEF ContentInv, ReqInv
<1>3. ASSUME FindRequest(h)
      PROVE  ContentInv'
  <2>1. r.at = "request" /\ r.op \in {"update", "delete"} /\ r.kind = "request" /\ r.id \in Ids
    BY <1>1, <1>2, <1>3 DEF FindRequest, Shaped
  <2>2. PICK c \in 0..MaxDocs : c = docs[r.id].in
    BY <1>0, <2>1 DEF TypeOK, Doc
  <2>3. PICK new \in Req : new = [r EXCEPT !.at = "collection", !.in = c]
    BY DEF Req, Step
  <2>4. /\ new.op = r.op /\ new.at = "collection" /\ new.user = r.user /\ new.id = r.id
        /\ new.in = c /\ new.kind = r.kind /\ new.newest = r.newest /\ new.had = r.had
    BY <2>3 DEF Req
  <2>5. req' = [req EXCEPT ![h] = new]
    BY <1>1, <1>3, <2>2, <2>3 DEF FindRequest
  <2>6. Shaped(new) /\ Named(new) /\ Late(new) /\ Ranked(new) /\ Checked(new)
    BY <1>2, <2>1, <2>4 DEF Shaped, Named, Late, Ranked, Checked
  <2>7. QED BY <1>0, <2>5, <2>6, ReadingStep
<1>4. ASSUME FindCollection(h)
      PROVE  ContentInv'
  <2>1. PICK mine \in BOOLEAN : mine = (docs[req[h].in].by = req[h].user)
    OBVIOUS
  <2>2. PICK new \in Req : new = [r EXCEPT !.at = "workspace", !.mine = mine]
    BY DEF Req, Step
  <2>3. /\ new.op = r.op /\ new.at = "workspace" /\ new.user = r.user /\ new.id = r.id
        /\ new.in = r.in /\ new.kind = r.kind /\ new.newest = r.newest /\ new.had = r.had
    BY <2>2 DEF Req
  <2>4. req' = [req EXCEPT ![h] = new] /\ r.at = "collection"
    BY <1>1, <1>4, <2>1, <2>2 DEF FindCollection
  <2>5. Shaped(new) /\ Named(new) /\ Late(new) /\ Ranked(new) /\ Checked(new)
    BY <1>2, <2>3, <2>4 DEF Shaped, Named, Late, Ranked, Checked
  <2>6. QED BY <1>0, <2>4, <2>5, ReadingStep
<1>5. ASSUME FindWorkspace(h)
      PROVE  ContentInv'
  <2>1. CASE req[h].user = Owner
    <3>1. RankOf(r.user) = 3 /\ r.had \in Nat /\ 3 <= r.had
      BY <1>0, <1>1, <1>2, <2>1 DEF Ranked, RankOf, Req, Rank
    <3>2. req[h].had >= Needed(req[h])
      BY <1>1, <3>1 DEF Needed, Viewer, Editor
    <3>3. QED BY <1>0, <1>5, <2>1, <3>2, ProceedStep DEF FindWorkspace
  <2>2. CASE req[h].user # Owner
    <3>1. PICK new \in Req : new = [r EXCEPT !.at = "role"]
      BY DEF Req, Step
    <3>2. /\ new.op = r.op /\ new.at = "role" /\ new.user = r.user /\ new.id = r.id
          /\ new.in = r.in /\ new.kind = r.kind /\ new.newest = r.newest /\ new.had = r.had
      BY <3>1 DEF Req
    <3>3. req' = [req EXCEPT ![h] = new] /\ r.at = "workspace"
      BY <1>1, <1>5, <2>2, <3>1 DEF FindWorkspace, Advance
    <3>4. Shaped(new) /\ Named(new) /\ Late(new) /\ Ranked(new) /\ Checked(new)
      BY <1>2, <3>2, <3>3 DEF Shaped, Named, Late, Ranked, Checked
    <3>5. QED BY <1>0, <3>3, <3>4, ReadingStep
  <2>3. QED BY <2>1, <2>2
<1>6. ASSUME CheckRole(h)
      PROVE  ContentInv'
  <2>1. r.user \in Users /\ RankOf(r.user) <= r.had /\ r.had \in Nat
    BY <1>0, <1>1, <1>2 DEF Ranked, Req, Rank
  <2>2. CASE r.user = Owner
    <3>1. 3 <= r.had
      BY <2>1, <2>2 DEF RankOf
    <3>2. req[h].had >= Needed(req[h])
      BY <1>1, <2>1, <3>1 DEF Needed, Viewer, Editor
    <3>3. QED BY <1>0, <1>6, <3>2, ProceedStep DEF CheckRole
  <2>3. CASE r.user # Owner
    <3>1. role[r.user] \in Nat /\ role[r.user] <= r.had
      BY <1>0, <2>1, <2>3 DEF RankOf, Users, TypeOK, Editor
    <3>2. role[req[h].user] >= Needed(req[h]) /\ Needed(req[h]) \in Nat
      BY <1>6 DEF CheckRole, Needed, Viewer, Editor
    <3>3. req[h].had >= Needed(req[h])
      BY <1>1, <2>1, <3>1, <3>2
    <3>4. QED BY <1>0, <1>6, <3>3, ProceedStep DEF CheckRole
  <2>4. QED BY <2>2, <2>3
<1>7. ASSUME FindComment(h)
      PROVE  ContentInv'
  <2>1. r.op = "delete" /\ r.id \in Ids /\ docs[r.id].kind = "comment"
    BY <1>1, <1>2, <1>7 DEF FindComment, Shaped
  <2>2. r.kind = "comment"
    BY <1>2, <2>1 DEF Named
  <2>3. PICK new \in Req : new = [r EXCEPT !.at = "drop"]
    BY DEF Req, Step
  <2>4. /\ new.op = r.op /\ new.at = "drop" /\ new.user = r.user /\ new.id = r.id
        /\ new.in = r.in /\ new.kind = r.kind /\ new.newest = r.newest /\ new.had = r.had
    BY <2>3 DEF Req
  <2>5. req' = [req EXCEPT ![h] = new] /\ r.at = "comment"
    BY <1>1, <1>7, <2>3 DEF FindComment, Advance
  <2>6. Shaped(new) /\ Named(new) /\ Late(new) /\ Ranked(new)
    BY <1>2, <2>1, <2>2, <2>4, <2>5 DEF Shaped, Named, Late, Ranked
  <2>7. Checked(new)
    BY <1>2, <2>4, <2>5 DEF Checked, Needed
  <2>8. QED BY <1>0, <2>5, <2>6, <2>7, ReadingStep
<1>8. ASSUME ListCollections(h)
      PROVE  ContentInv'
  <2>1. PICK listed \in SUBSET Ids : listed = Of("collection")
    BY DEF Of
  <2>2. PICK n \in 0..MaxDocs : n = made
    BY <1>0 DEF TypeOK
  <2>3. PICK new \in Req : new = [r EXCEPT !.at = "sweepAll", !.newest = n, !.todo = listed]
    BY DEF Req, Step
  <2>4. /\ new.op = r.op /\ new.at = "sweepAll" /\ new.user = r.user /\ new.id = r.id
        /\ new.in = r.in /\ new.kind = r.kind /\ new.newest = n /\ new.had = r.had
        /\ new.todo = listed
    BY <2>3 DEF Req
  <2>5. req' = [req EXCEPT ![h] = new] /\ r.at = "list"
    BY <1>1, <1>8, <2>1, <2>2, <2>3 DEF ListCollections
  <2>6. n <= made
    BY <2>2
  <2>7. Shaped(new) /\ Named(new) /\ Ranked(new) /\ Checked(new)
    BY <1>2, <2>4, <2>5 DEF Shaped, Named, Ranked, Checked
  <2>8. Late(new)
    BY <2>1, <2>4, <2>6 DEF Late
  <2>9. QED BY <1>0, <2>5, <2>7, <2>8, ReadingStep
<1>9. QED BY <1>3, <1>4, <1>5, <1>6, <1>7, <1>8 DEF Finds

-----------------------------------------------------------------------------
(* A deletion takes the documents it names and leaves the others. *)
LEMMA WithoutEffect ==
    ASSUME TypeOK, NEW gone, docs' = Without(gone)
    PROVE  /\ docs' \in [Ids -> Doc]
           /\ \A i \in Ids : docs'[i] = docs[i] \/ docs'[i] = NoDoc
           /\ \A i \in Ids : i \in gone => docs'[i] = NoDoc
           /\ \A i \in Ids : i \notin gone => docs'[i] = docs[i]
<1>1. \A i \in Ids : docs'[i] = IF i \in gone THEN NoDoc ELSE docs[i]
  BY DEF Without
<1>2. docs' \in [Ids -> Doc]
  BY NoDocFields DEF Without, TypeOK
<1>3. QED BY <1>1, <1>2

(* What a deletion leaves is part of what there was. *)
LEMMA LosesLess ==
    ASSUME Loses
    PROVE  /\ Of("collection")' \subseteq Of("collection")
           /\ Of("comment")' \subseteq Of("comment")
           /\ \A c : In(c)' \subseteq In(c)
BY NoDocFields DEF Loses, Of, In

(* A workspace that is gone stays as empty as it was. *)
LEMMA LosesEmpty ==
    ASSUME Loses, EmptyInv, UNCHANGED live, swept'[0] = swept[0]
    PROVE  EmptyInv'
BY LosesLess DEF EmptyInv, Loses

(* The steps of a deletion that go over the requests of a collection. *)
LEMMA SweepStep ==
    ASSUME ContentInv, NEW h \in Requests,
           SweepCollection(h) \/ \E c \in Ids : SweepNext(h, c)
    PROVE  ContentInv'
<1>0. TypeOK /\ DocInv /\ OrphansAreLate /\ EmptyInv /\ ReqInv
  BY DEF ContentInv
<1>1. PICK r \in Req : r = req[h]
  BY <1>0 DEF TypeOK
<1>2. Shaped(r) /\ Named(r) /\ Late(r) /\ Ranked(r) /\ Checked(r)
  BY <1>0, <1>1 DEF ReqInv
<1>3. ASSUME NEW c \in 0..MaxDocs, docs' = Without(In(c)), UNCHANGED <<live, role, made, swept, purged>>
      PROVE  /\ Loses /\ Kept /\ EmptyInv' /\ In(c)' = {}
             /\ \A m \in Members : role'[m] <= role[m]
  <2>1. /\ docs' \in [Ids -> Doc]
        /\ \A i \in Ids : docs'[i] = docs[i] \/ docs'[i] = NoDoc
        /\ \A i \in Ids : i \in In(c) => docs'[i] = NoDoc
        /\ \A i \in Ids : i \notin In(c) => docs'[i] = docs[i]
    BY <1>0, <1>3, WithoutEffect
  <2>2. Loses
    BY <1>3, <2>1 DEF Loses, In, Of
  <2>3. In(c)' = {}
    BY <2>1, NoDocFields DEF In, Of
  <2>4. \A m \in Members : role'[m] <= role[m]
    BY <1>0, <1>3 DEF TypeOK, Editor
  <2>5. QED BY <1>0, <1>3, <2>2, <2>3, <2>4, LosesKeeps, LosesEmpty
<1>4. ASSUME SweepCollection(h)
      PROVE  ContentInv'
  <2>1. /\ r.at = "sweep" /\ r.op = "delete" /\ r.kind = "collection" /\ r.id \in Ids /\ r.in = r.id
        /\ docs' = Without(In(r.in)) /\ UNCHANGED <<live, role, made, swept, purged>>
    BY <1>1, <1>2, <1>4 DEF SweepCollection, Shaped
  <2>2. r.in \in 0..MaxDocs
    BY DEF Req
  <2>3. /\ Loses /\ Kept /\ EmptyInv' /\ In(r.in)' = {}
        /\ \A m \in Members : role'[m] <= role[m]
    BY <1>3, <2>1, <2>2
  <2>4. PICK n \in 0..MaxDocs : n = made
    BY <1>0 DEF TypeOK
  <2>5. PICK new \in Req : new = [r EXCEPT !.at = "drop", !.newest = n]
    BY DEF Req, Step
  <2>6. /\ new.op = r.op /\ new.at = "drop" /\ new.user = r.user /\ new.id = r.id
        /\ new.in = r.in /\ new.kind = r.kind /\ new.newest = n /\ new.had = r.had
    BY <2>5 DEF Req
  <2>7. req' = [req EXCEPT ![h] = new]
    BY <1>1, <1>4, <2>4, <2>5 DEF SweepCollection
  <2>8. Shaped(new) /\ Named(new) /\ Ranked(new) /\ Checked(new)
    BY <1>2, <2>1, <2>6 DEF Shaped, Named, Ranked, Checked, Needed
  <2>9. Named(new)'
    BY <2>3, <2>8 DEF Kept
  <2>10. n <= made'
    BY <2>1, <2>4
  <2>11. Late(new)'
    BY <2>1, <2>3, <2>6, <2>10 DEF Late
  <2>12. TypeOK'
    BY <1>0, <2>1, <2>3, <2>7 DEF TypeOK, Loses
  <2>13. QED BY <2>3, <2>7, <2>8, <2>9, <2>11, <2>12, RequestStep
<1>5. ASSUME NEW c \in Ids, SweepNext(h, c)
      PROVE  ContentInv'
  <2>1. /\ r.at = "sweepAll" /\ docs' = Without(In(c))
        /\ UNCHANGED <<live, role, made, swept, purged>>
    BY <1>1, <1>5 DEF SweepNext
  <2>2. c \in 0..MaxDocs
    BY DEF Ids
  <2>3. /\ Loses /\ Kept /\ EmptyInv' /\ In(c)' = {}
        /\ \A m \in Members : role'[m] <= role[m]
    BY <1>3, <2>1, <2>2
  <2>4. PICK rest \in SUBSET Ids : rest = r.todo \ {c}
    BY DEF Req
  <2>5. PICK new \in Req : new = [r EXCEPT !.todo = rest]
    BY DEF Req
  <2>6. /\ new.op = r.op /\ new.at = r.at /\ new.user = r.user /\ new.id = r.id
        /\ new.in = r.in /\ new.kind = r.kind /\ new.newest = r.newest /\ new.had = r.had
        /\ new.todo = rest
    BY <2>5 DEF Req
  <2>7. req' = [req EXCEPT ![h] = new]
    BY <1>1, <1>5, <2>4, <2>5 DEF SweepNext
  <2>8. Shaped(new) /\ Named(new) /\ Ranked(new) /\ Checked(new)
    BY <1>2, <2>1, <2>6 DEF Shaped, Named, Ranked, Checked, Needed
  <2>9. Named(new)'
    BY <2>3, <2>8 DEF Kept
  <2>10. \A d \in Of("collection")' \ rest : \A q \in In(d)' : r.newest < q
    <3>1. /\ Of("collection")' \subseteq Of("collection")
          /\ \A d : In(d)' \subseteq In(d)
      BY <2>3, LosesLess
    <3>2. \A d \in Of("collection") \ r.todo : \A q \in In(d) : r.newest < q
      BY <1>2, <2>1 DEF Late
    <3>3. QED BY <2>3, <2>4, <3>1, <3>2
  <2>11. Late(new)'
    BY <1>2, <2>1, <2>6, <2>10 DEF Late
  <2>12. TypeOK'
    BY <1>0, <2>1, <2>3, <2>7 DEF TypeOK, Loses
  <2>13. QED BY <2>3, <2>7, <2>8, <2>9, <2>11, <2>12, RequestStep
<1>6. QED BY <1>4, <1>5

(* The last step of a deletion: a collection goes once it was swept. *)
LEMMA DropStep ==
    ASSUME ContentInv, NEW h \in Requests, Drop(h)
    PROVE  ContentInv'
<1>0. TypeOK /\ DocInv /\ OrphansAreLate /\ EmptyInv /\ ReqInv
  BY DEF ContentInv
<1>1. PICK r \in Req : r = req[h]
  BY <1>0 DEF TypeOK
<1>2. Shaped(r) /\ Named(r) /\ Late(r)
  BY <1>0, <1>1 DEF ReqInv
<1>3. /\ r.at = "drop" /\ r.op = "delete" /\ r.id \in Ids /\ r.newest \in 0..MaxDocs
      /\ docs' = Without({r.id}) /\ UNCHANGED <<live, role, made, purged>>
      /\ swept' = IF docs[r.id].kind = "collection"
                  THEN [swept EXCEPT ![r.id] = r.newest] ELSE swept
      /\ req' = [req EXCEPT ![h] = NoReq]
  BY <1>1, <1>2 DEF Drop, Shaped, Finish, Req
<1>4. /\ docs' \in [Ids -> Doc]
      /\ \A i \in Ids : docs'[i] = docs[i] \/ docs'[i] = NoDoc
      /\ \A i \in Ids : i # r.id => docs'[i] = docs[i]
  BY <1>0, <1>3, WithoutEffect
<1>5. /\ swept' \in [0..MaxDocs -> 0..MaxDocs] /\ swept'[0] = swept[0]
      /\ \A c \in Ids : c # r.id => swept'[c] = swept[c]
      /\ docs[r.id].kind # "collection" => swept'[r.id] = swept[r.id]
      /\ docs[r.id].kind = "collection" => swept'[r.id] = r.newest
  BY <1>0, <1>3 DEF TypeOK, Ids
<1>6. \A c : In(c)' \subseteq In(c)
  BY <1>4, NoDocFields DEF In, Of
<1>7. docs[r.id].kind = "collection" => r.newest <= made /\ \A q \in In(r.id) : r.newest < q
  BY <1>2, <1>3 DEF Named, Late
<1>8. Loses
  <2>1. ASSUME NEW c \in Ids
        PROVE  \/ /\ swept'[c] = swept[c]
                  /\ docs'[c].kind = docs[c].kind \/ docs[c].kind # "collection" \/ c \in purged'
               \/ /\ docs[c].kind = "collection"
                  /\ swept'[c] <= made
                  /\ \A q \in In(c)' : swept'[c] < q
    <3>1. CASE c = r.id /\ docs[c].kind = "collection"
      <4>1. swept'[c] = r.newest /\ r.newest <= made /\ \A q \in In(c)' : r.newest < q
        BY <1>5, <1>6, <1>7, <3>1
      <4>2. QED BY <3>1, <4>1
    <3>2. CASE c = r.id /\ docs[c].kind # "collection"
      BY <1>5, <3>2
    <3>3. CASE c # r.id
      BY <1>4, <1>5, <3>3
    <3>4. QED BY <3>1, <3>2, <3>3
  <2>2. QED BY <1>3, <1>4, <2>1 DEF Loses
<1>9. Kept /\ EmptyInv'
  BY <1>0, <1>3, <1>5, <1>8, LosesKeeps, LosesEmpty
<1>10. \A m \in Members : role'[m] <= role[m]
  BY <1>0, <1>3 DEF TypeOK, Editor
<1>11. TypeOK'
  BY <1>0, <1>3, <1>4, <1>5, NoReqFields DEF TypeOK
<1>12. Shaped(NoReq) /\ Named(NoReq)' /\ Late(NoReq)' /\ Ranked(NoReq) /\ Checked(NoReq)
  BY <1>0, <1>9, NoReqFields, OverEffect DEF Kept
<1>13. QED BY <1>3, <1>9, <1>10, <1>11, <1>12, NoReqFields, RequestStep

(* What is inserted has the place after the newest. *)
LEMMA InsertStep ==
    ASSUME ContentInv, NEW h \in Requests, Insert(h)
    PROVE  ContentInv'
<1>0. TypeOK
  BY DEF ContentInv
<1>1. Kept /\ EmptyInv'
  BY InsertKeeps
<1>2. /\ UNCHANGED <<live, role, swept, purged>> /\ made < MaxDocs /\ made' = made + 1
      /\ docs' = [docs EXCEPT ![made + 1] =
                     [kind |-> req[h].kind, in |-> req[h].in, by |-> req[h].user]]
      /\ req' = [req EXCEPT ![h] = NoReq]
  BY DEF Insert, Finish
<1>3. [kind |-> req[h].kind, in |-> req[h].in, by |-> req[h].user] \in Doc
  BY <1>0 DEF TypeOK, Req, Doc
<1>4. made' \in 0..MaxDocs
  BY <1>0, <1>2, ContentAssumption DEF TypeOK
<1>5. TypeOK'
  BY <1>0, <1>2, <1>3, <1>4, NoReqFields DEF TypeOK
<1>6. \A m \in Members : role'[m] <= role[m]
  BY <1>0, <1>2 DEF TypeOK, Editor
<1>7. Shaped(NoReq) /\ Named(NoReq)' /\ Late(NoReq)' /\ Ranked(NoReq) /\ Checked(NoReq)
  BY <1>0, <1>1, NoReqFields, OverEffect DEF Kept
<1>8. QED BY <1>1, <1>2, <1>5, <1>6, <1>7, NoReqFields, RequestStep

(* The deletion of the workspace, once its collections were swept. *)
Cascades(h) == DropCollections(h) \/ DropMembers(h) \/ DropComments(h) \/ DropWorkspace(h)

(* A call of the deletion of a workspace keeps the invariant. *)
LEMMA CascadeStep ==
    ASSUME ContentInv, NEW h \in Requests, Cascades(h)
    PROVE  ContentInv'
<1>0. TypeOK /\ DocInv /\ OrphansAreLate /\ EmptyInv /\ ReqInv
  BY DEF ContentInv
<1>1. PICK r \in Req : r = req[h]
  BY <1>0 DEF TypeOK
<1>2. Shaped(r) /\ Named(r) /\ Late(r) /\ Ranked(r) /\ Checked(r)
  BY <1>0, <1>1 DEF ReqInv
<1>3. ASSUME NEW step \in {"members", "comments", "dropWorkspace"}, Advance(h, step), TypeOK',
             Loses, EmptyInv', r.at \notin {"idle", "drop"}, \A m \in Members : role'[m] <= role[m],
             \A c \in Of("collection")' : r.newest < c,
             step = "dropWorkspace" => \A c \in Of("comment")' : r.newest < c
      PROVE  ContentInv'
  <2>1. Kept
    BY <1>0, <1>3, LosesKeeps
  <2>2. PICK new \in Req : new = [r EXCEPT !.at = step]
    BY DEF Req, Step
  <2>3. /\ new.op = r.op /\ new.at = step /\ new.user = r.user /\ new.id = r.id
        /\ new.in = r.in /\ new.kind = r.kind /\ new.newest = r.newest /\ new.had = r.had
    BY <2>2 DEF Req
  <2>4. req' = [req EXCEPT ![h] = new]
    BY <1>1, <1>3, <2>2 DEF Advance
  <2>5. Shaped(new) /\ Named(new) /\ Ranked(new) /\ Checked(new)
    BY <1>2, <1>3, <2>3 DEF Shaped, Named, Ranked, Checked
  <2>6. Named(new)'
    BY <2>1, <2>5 DEF Kept
  <2>7. r.newest <= made'
    BY <1>2, <1>3 DEF Late, Loses
  <2>8. Late(new)'
    BY <1>3, <2>3, <2>7 DEF Late
  <2>9. QED BY <1>3, <2>1, <2>4, <2>5, <2>6, <2>8, RequestStep
<1>4. UNCHANGED role => \A m \in Members : role'[m] <= role[m]
  BY <1>0 DEF TypeOK, Editor
<1>5. \A step \in Step : Advance(h, step) => req' \in [Requests -> Req]
  <2>1. \A step \in Step : [r EXCEPT !.at = step] \in Req
    BY DEF Req
  <2>2. QED BY <1>0, <1>1, <2>1 DEF TypeOK, Advance
<1>6. ASSUME DropCollections(h)
      PROVE  ContentInv'
  <2>1. /\ r.at = "sweepAll" /\ r.todo = {} /\ docs' = Without(Of("collection"))
        /\ swept' = [i \in 0..MaxDocs |-> IF i \in Of("collection") THEN r.newest ELSE swept[i]]
        /\ Advance(h, "members") /\ UNCHANGED <<live, role, made, purged>>
    BY <1>1, <1>6 DEF DropCollections
  <2>2. /\ docs' \in [Ids -> Doc]
        /\ \A i \in Ids : docs'[i] = docs[i] \/ docs'[i] = NoDoc
        /\ \A i \in Ids : i \in Of("collection") => docs'[i] = NoDoc
        /\ \A i \in Ids : i \notin Of("collection") => docs'[i] = docs[i]
    BY <1>0, <2>1, WithoutEffect
  <2>3. /\ swept' \in [0..MaxDocs -> 0..MaxDocs] /\ swept'[0] = swept[0]
        /\ \A c \in Ids : c \notin Of("collection") => swept'[c] = swept[c]
        /\ \A c \in Of("collection") : swept'[c] = r.newest
    <3>1. r.newest \in 0..MaxDocs
      BY DEF Req
    <3>2. 0 \notin Of("collection") /\ 0 \in 0..MaxDocs
      BY ContentAssumption DEF Of, Ids
    <3>3. \A c \in Ids : c \in 0..MaxDocs
      BY DEF Ids
    <3>4. \A c \in Of("collection") : c \in Ids
      BY DEF Of
    <3>5. QED BY <1>0, <2>1, <3>1, <3>2, <3>3, <3>4 DEF TypeOK
  <2>4. \A c : In(c)' \subseteq In(c)
    BY <2>2, NoDocFields DEF In, Of
  <2>5. r.newest <= made /\ \A c \in Of("collection") : \A q \in In(c) : r.newest < q
    BY <1>2, <2>1 DEF Late
  <2>6. Loses
    <3>1. ASSUME NEW c \in Ids
          PROVE  \/ /\ swept'[c] = swept[c]
                    /\ docs'[c].kind = docs[c].kind \/ docs[c].kind # "collection" \/ c \in purged'
                 \/ /\ docs[c].kind = "collection"
                    /\ swept'[c] <= made
                    /\ \A q \in In(c)' : swept'[c] < q
      <4>1. CASE c \in Of("collection")
        <5>1. docs[c].kind = "collection" /\ swept'[c] = r.newest
          BY <2>3, <4>1 DEF Of
        <5>2. \A q \in In(c)' : r.newest < q
          BY <2>4, <2>5, <4>1
        <5>3. QED BY <2>5, <5>1, <5>2
      <4>2. CASE c \notin Of("collection")
        BY <2>3, <4>2 DEF Of
      <4>3. QED BY <4>1, <4>2
    <3>2. QED BY <2>1, <2>2, <3>1 DEF Loses
  <2>7. EmptyInv'
    BY <1>0, <2>1, <2>3, <2>6, LosesEmpty
  <2>8. Of("collection")' = {}
    BY <2>2, NoDocFields DEF Of
  <2>9. TypeOK'
    BY <1>0, <1>5, <2>1, <2>2, <2>3 DEF TypeOK, Step
  <2>10. QED BY <1>3, <1>4, <2>1, <2>6, <2>7, <2>8, <2>9
<1>7. ASSUME DropMembers(h)
      PROVE  ContentInv'
  <2>1. /\ r.at = "members" /\ role' = [m \in Members |-> 0] /\ Advance(h, "comments")
        /\ UNCHANGED <<live, docs, made, swept, purged>>
    BY <1>1, <1>7 DEF DropMembers
  <2>2. \A m \in Members : role'[m] <= role[m]
    BY <1>0, <2>1 DEF TypeOK, Editor
  <2>3. TypeOK'
    BY <1>0, <1>5, <2>1 DEF TypeOK, Step, Editor
  <2>4. Loses
    BY <1>0, <2>1 DEF Loses, TypeOK
  <2>5. EmptyInv'
    BY <1>0, <2>1, <2>4, LosesEmpty
  <2>6. \A c \in Of("collection")' : r.newest < c
    BY <1>2, <2>1, <2>4, LosesLess DEF Late
  <2>7. QED BY <1>3, <2>1, <2>2, <2>3, <2>4, <2>5, <2>6
<1>8. ASSUME DropComments(h)
      PROVE  ContentInv'
  <2>1. /\ r.at = "comments" /\ docs' = Without(Of("comment")) /\ Advance(h, "dropWorkspace")
        /\ UNCHANGED <<live, role, made, swept, purged>>
    BY <1>1, <1>8 DEF DropComments
  <2>2. /\ docs' \in [Ids -> Doc]
        /\ \A i \in Ids : docs'[i] = docs[i] \/ docs'[i] = NoDoc
        /\ \A i \in Ids : i \in Of("comment") => docs'[i] = NoDoc
        /\ \A i \in Ids : i \notin Of("comment") => docs'[i] = docs[i]
    BY <1>0, <2>1, WithoutEffect
  <2>3. Loses
    BY <2>1, <2>2 DEF Loses, Of
  <2>4. EmptyInv'
    BY <1>0, <2>1, <2>3, LosesEmpty
  <2>5. \A c \in Of("collection")' : r.newest < c
    BY <1>2, <2>1, <2>3, LosesLess DEF Late
  <2>6. Of("comment")' = {}
    BY <2>2, NoDocFields DEF Of
  <2>7. TypeOK'
    BY <1>0, <1>5, <2>1, <2>2 DEF TypeOK, Step
  <2>8. QED BY <1>3, <1>4, <2>1, <2>3, <2>4, <2>5, <2>6, <2>7
<1>9. ASSUME DropWorkspace(h)
      PROVE  ContentInv'
  <2>1. /\ r.at = "dropWorkspace" /\ live' = FALSE /\ UNCHANGED <<role, docs, made, purged>>
        /\ swept' = IF live THEN [swept EXCEPT ![0] = r.newest] ELSE swept
        /\ req' = [req EXCEPT ![h] = NoReq] /\ r.newest \in 0..MaxDocs
    BY <1>1, <1>9 DEF DropWorkspace, Finish, Req
  <2>2. /\ swept' \in [0..MaxDocs -> 0..MaxDocs]
        /\ \A c \in Ids : swept'[c] = swept[c]
        /\ live => swept'[0] = r.newest
        /\ ~ live => swept'[0] = swept[0]
    <3>1. swept \in [0..MaxDocs -> 0..MaxDocs]
      BY <1>0 DEF TypeOK
    <3>2. 0 \in 0..MaxDocs /\ \A c \in Ids : c \in 0..MaxDocs /\ c # 0
      BY ContentAssumption DEF Ids
    <3>3. CASE ~ live
      BY <2>1, <3>1, <3>3
    <3>4. CASE live
      <4>1. swept' = [swept EXCEPT ![0] = r.newest]
        BY <2>1, <3>4
      <4>2. swept' \in [0..MaxDocs -> 0..MaxDocs] /\ swept'[0] = r.newest
        BY <2>1, <3>1, <3>2, <4>1
      <4>3. \A c \in Ids : swept'[c] = swept[c]
        BY <3>1, <3>2, <4>1
      <4>4. QED BY <3>4, <4>2, <4>3
    <3>5. QED BY <3>3, <3>4
  <2>3. Loses
    BY <1>0, <2>1, <2>2 DEF Loses, TypeOK
  <2>4. Kept
    BY <1>0, <2>3, LosesKeeps
  <2>5. r.newest <= made /\ \A i \in Of("collection") \cup Of("comment") : r.newest < i
    BY <1>2, <2>1 DEF Late
  <2>6. Of("collection")' = Of("collection") /\ Of("comment")' = Of("comment")
    BY <2>1 DEF Of
  <2>7. EmptyInv'
    BY <1>0, <2>1, <2>2, <2>5, <2>6 DEF EmptyInv
  <2>8. TypeOK'
    BY <1>0, <2>1, <2>2, NoReqFields DEF TypeOK
  <2>9. Shaped(NoReq) /\ Named(NoReq)' /\ Late(NoReq)' /\ Ranked(NoReq) /\ Checked(NoReq)
    BY <1>0, <2>4, NoReqFields, OverEffect DEF Kept
  <2>10. QED BY <1>4, <2>1, <2>4, <2>7, <2>8, <2>9, NoReqFields, RequestStep
<1>10. QED BY <1>6, <1>7, <1>8, <1>9 DEF Cascades

(* A purge names the collections it takes. *)
Purges(h) == PurgeRequests(h) \/ PurgeCollections(h) \/ PurgeWorkspaces(h)

(* A call of the purge of a user keeps the invariant. *)
LEMMA PurgeStep ==
    ASSUME ContentInv, NEW h \in Requests, Purges(h)
    PROVE  ContentInv'
<1>0. TypeOK /\ DocInv /\ OrphansAreLate /\ EmptyInv /\ ReqInv
  BY DEF ContentInv
<1>1. PICK r \in Req : r = req[h]
  BY <1>0 DEF TypeOK
<1>2. Shaped(r) /\ Named(r) /\ Late(r) /\ Ranked(r) /\ Checked(r)
  BY <1>0, <1>1 DEF ReqInv
<1>3. r.at \in {"purgeRequests", "purgeCollections", "purgeWorkspaces"}
      /\ UNCHANGED <<role, made, swept>>
  BY <1>1 DEF Purges, PurgeRequests, PurgeCollections, PurgeWorkspaces
<1>4. /\ Loses
      /\ \/ UNCHANGED live
         \/ 0 \in purged' /\ live' \in BOOLEAN
      /\ purged' \subseteq 0..MaxDocs
  <2>1. CASE PurgeRequests(h)
    <3>1. docs' = Without(By("request", r.user)) /\ UNCHANGED <<live, made, swept, purged>>
      BY <1>1, <2>1 DEF PurgeRequests
    <3>2. /\ docs' \in [Ids -> Doc]
          /\ \A i \in Ids : docs'[i] = docs[i] \/ docs'[i] = NoDoc
          /\ \A i \in Ids : i \notin By("request", r.user) => docs'[i] = docs[i]
      BY <1>0, <3>1, WithoutEffect
    <3>3. Loses
      BY <3>1, <3>2 DEF Loses, By, Of
    <3>4. QED BY <1>0, <3>1, <3>3 DEF TypeOK
  <2>2. CASE PurgeCollections(h)
    <3>1. /\ docs' = Without(By("collection", r.user)) /\ UNCHANGED <<live, made, swept>>
          /\ purged' = purged \cup By("collection", r.user)
      BY <1>1, <2>2 DEF PurgeCollections
    <3>2. /\ docs' \in [Ids -> Doc]
          /\ \A i \in Ids : docs'[i] = docs[i] \/ docs'[i] = NoDoc
          /\ \A i \in Ids : i \notin By("collection", r.user) => docs'[i] = docs[i]
      BY <1>0, <3>1, WithoutEffect
    <3>3. Loses
      BY <3>1, <3>2 DEF Loses
    <3>4. By("collection", r.user) \subseteq 0..MaxDocs
      BY DEF By, Of, Ids
    <3>5. QED BY <1>0, <3>1, <3>3, <3>4 DEF TypeOK
  <2>3. CASE PurgeWorkspaces(h)
    <3>1. /\ UNCHANGED <<docs, made, swept>>
          /\ \/ UNCHANGED <<live, purged>>
             \/ live' = FALSE /\ purged' = purged \cup {0}
      BY <2>3 DEF PurgeWorkspaces
    <3>2. Loses
      BY <1>0, <3>1 DEF Loses, TypeOK
    <3>3. 0 \in 0..MaxDocs
      BY ContentAssumption
    <3>4. QED BY <1>0, <3>1, <3>2, <3>3 DEF TypeOK
  <2>4. QED BY <2>1, <2>2, <2>3 DEF Purges
<1>5. Kept
  BY <1>0, <1>4, LosesKeeps
<1>6. EmptyInv'
  <2>1. CASE UNCHANGED live
    BY <1>0, <1>3, <1>4, <2>1, LosesEmpty
  <2>2. CASE 0 \in purged'
    BY <2>2 DEF EmptyInv
  <2>3. QED BY <1>4, <2>1, <2>2
<1> DEFINE Own(new) ==
        /\ req' = [req EXCEPT ![h] = new]
        /\ Shaped(new) /\ Named(new) /\ Late(new) /\ Ranked(new) /\ Checked(new)
<1>7. PICK new \in Req : Own(new)
  <2>1. ASSUME NEW step \in {"purgeCollections", "purgeWorkspaces"}, Advance(h, step)
        PROVE  \E new \in Req : Own(new)
    <3>1. PICK new \in Req : new = [r EXCEPT !.at = step]
      BY DEF Req, Step
    <3>2. /\ new.op = r.op /\ new.at = step /\ new.user = r.user /\ new.id = r.id
          /\ new.in = r.in /\ new.kind = r.kind /\ new.newest = r.newest /\ new.had = r.had
      BY <3>1 DEF Req
    <3>3. Shaped(new) /\ Named(new) /\ Late(new) /\ Ranked(new) /\ Checked(new)
      BY <1>2, <1>3, <3>2 DEF Shaped, Named, Late, Ranked, Checked
    <3>4. QED BY <1>1, <2>1, <3>1, <3>3 DEF Advance
  <2>2. CASE PurgeWorkspaces(h)
    BY <1>0, <2>2, NoReqFields, OverEffect DEF PurgeWorkspaces, Finish
  <2>3. QED BY <2>1, <2>2 DEF Purges, PurgeRequests, PurgeCollections
<1>8. Named(new)' /\ Late(new)'
  BY <1>5, <1>7 DEF Kept
<1>9. \A m \in Members : role'[m] <= role[m]
  BY <1>0, <1>3 DEF TypeOK, Editor
<1>10. TypeOK'
  BY <1>0, <1>3, <1>4, <1>7 DEF TypeOK, Loses
<1>11. QED BY <1>5, <1>6, <1>7, <1>8, <1>9, <1>10, RequestStep

(* A role that is raised is known to the requests of its member. *)
LEMMA RoleStep ==
    ASSUME ContentInv, NEW m \in Members, NEW rank \in 0..Editor, ChangeRole(m, rank)
    PROVE  ContentInv'
<1>0. TypeOK /\ DocInv /\ OrphansAreLate /\ EmptyInv /\ ReqInv
  BY DEF ContentInv
<1>1. /\ UNCHANGED <<live, docs, made, swept, purged>> /\ role' = [role EXCEPT ![m] = rank]
      /\ req' = [h \in Requests |->
                    IF req[h].user = m /\ req[h].had < rank THEN [req[h] EXCEPT !.had = rank]
                    ELSE req[h]]
  BY DEF ChangeRole
<1>2. rank \in Nat /\ rank \in Rank
  BY DEF Editor, Rank
<1>3. DocInv' /\ OrphansAreLate' /\ EmptyInv'
  BY <1>0, <1>1 DEF DocInv, OrphansAreLate, EmptyInv, Of
<1>4. ASSUME NEW h \in Requests
      PROVE  /\ req'[h] \in Req
             /\ Shaped(req[h])' /\ Named(req[h])' /\ Late(req[h])'
             /\ Ranked(req[h])' /\ Checked(req[h])'
  <2>1. PICK r \in Req : r = req[h]
    BY <1>0 DEF TypeOK
  <2>2. Shaped(r) /\ Named(r) /\ Late(r) /\ Ranked(r) /\ Checked(r)
    BY <1>0, <2>1 DEF ReqInv
  <2>3. PICK had \in Rank : had = IF r.user = m /\ r.had < rank THEN rank ELSE r.had
    BY <1>2 DEF Req
  <2>4. PICK new \in Req : new = [r EXCEPT !.had = had]
    BY DEF Req
  <2>5. /\ new.op = r.op /\ new.at = r.at /\ new.user = r.user /\ new.id = r.id
        /\ new.in = r.in /\ new.kind = r.kind /\ new.newest = r.newest /\ new.had = had
        /\ new.todo = r.todo
    BY <2>4 DEF Req
  <2>6. req'[h] = new
    <3>1. CASE r.user = m /\ r.had < rank
      BY <1>1, <2>1, <2>3, <2>4, <3>1
    <3>2. CASE ~ (r.user = m /\ r.had < rank)
      <4>1. new = r
        BY <2>3, <2>4, <3>2 DEF Req
      <4>2. QED BY <1>1, <2>1, <3>2, <4>1
    <3>3. QED BY <3>1, <3>2
  <2>7. r.had \in Nat /\ had \in Nat /\ r.had <= had /\ (r.user = m => rank <= had)
    BY <1>2, <2>3 DEF Req, Rank
  <2>8. Shaped(new) /\ Named(new) /\ Late(new) /\ Checked(new)
    <3>1. Needed(new) = Needed(r) /\ Needed(r) \in Nat
      BY <2>5 DEF Needed, Viewer, Editor
    <3>2. Checked(new)
      BY <2>2, <2>5, <2>7, <3>1 DEF Checked
    <3>3. QED BY <2>2, <2>5, <3>2 DEF Shaped, Named, Late
  <2>9. Named(new)' /\ Late(new)'
    BY <1>1, <2>8 DEF Named, Late, Settled, Of, In
  <2>10. Ranked(new)'
    <3>1. ASSUME new.at # "idle"
          PROVE  new.user \in Users /\ RankOf(new.user)' <= new.had
      <4>1. r.user \in Users /\ RankOf(r.user) <= r.had
        BY <2>2, <2>5, <3>1 DEF Ranked
      <4>2. CASE r.user = m
        <5>1. RankOf(m)' = rank \/ m = Owner
          BY <1>0, <1>1 DEF RankOf, TypeOK
        <5>2. m # Owner
          BY ContentAssumption
        <5>3. QED BY <2>5, <2>7, <4>1, <4>2, <5>1, <5>2
      <4>3. CASE r.user # m
        <5>1. RankOf(r.user)' = RankOf(r.user) /\ RankOf(r.user) \in Nat
          BY <1>0, <1>1, <4>1, <4>3 DEF RankOf, TypeOK, Users, Editor
        <5>2. QED BY <2>5, <2>7, <4>1, <5>1
      <4>4. QED BY <4>2, <4>3
    <3>2. QED BY <3>1 DEF Ranked
  <2>11. Named(req[h])' /\ Late(req[h])'
    BY <2>6, <2>9 DEF Named, Late, Settled, Of, In
  <2>12. Shaped(req[h])' /\ Checked(req[h])' /\ Ranked(req[h])'
    BY <2>6, <2>8, <2>10 DEF Shaped, Checked, Needed, Ranked, RankOf
  <2>13. QED BY <2>6, <2>11, <2>12
<1>5. ReqInv'
  BY <1>4 DEF ReqInv
<1>6. req' \in [Requests -> Req]
  BY <1>1, <1>4
<1>7. TypeOK'
  BY <1>0, <1>1, <1>6 DEF TypeOK
<1>8. QED BY <1>3, <1>5, <1>7 DEF ContentInv

-----------------------------------------------------------------------------
(* It holds of a workspace that was just made, with nothing in it. *)
LEMMA ContentBegins == Init => ContentInv
<1> SUFFICES ASSUME Init PROVE ContentInv
  OBVIOUS
<1>1. TypeOK
  <2>1. docs \in [Ids -> Doc] /\ req \in [Requests -> Req]
    BY NoDocFields, NoReqFields DEF Init
  <2>2. role \in [Members -> 0..Editor]
    BY DEF Init, Viewer, Editor
  <2>3. made \in 0..MaxDocs /\ swept \in [0..MaxDocs -> 0..MaxDocs] /\ purged \subseteq 0..MaxDocs
    BY ContentAssumption DEF Init
  <2>4. QED BY <2>1, <2>2, <2>3 DEF Init, TypeOK
<1>2. \A i \in Ids : docs[i].kind = "none"
  BY NoDocFields DEF Init
<1>3. DocInv /\ OrphansAreLate /\ EmptyInv
  BY <1>2 DEF Init, DocInv, OrphansAreLate, EmptyInv, Of
<1>4. ReqInv
  <2>1. \A h \in Requests : req[h] = NoReq
    BY DEF Init
  <2>2. Shaped(NoReq) /\ Named(NoReq) /\ Late(NoReq) /\ Ranked(NoReq) /\ Checked(NoReq)
    BY <1>1, OverEffect
  <2>3. QED BY <2>1, <2>2 DEF ReqInv
<1>5. QED BY <1>1, <1>3, <1>4 DEF ContentInv

(* Each step keeps it. *)
LEMMA ContentStep == ContentInv /\ [Next]_vars => ContentInv'
<1> SUFFICES ASSUME ContentInv, [Next]_vars PROVE ContentInv'
  OBVIOUS
<1>1. ASSUME NEW h \in Requests, Begins(h) \/ Finds(h) \/ WriteBack(h) \/ Abandon(h)
      PROVE  ContentInv'
  BY <1>1, BeginStep, FindStep, OverStep
<1>2. ASSUME NEW h \in Requests,
             Insert(h) \/ SweepCollection(h) \/ Drop(h) \/ \E c \in Ids : SweepNext(h, c)
      PROVE  ContentInv'
  BY <1>2, InsertStep, SweepStep, DropStep
<1>3. ASSUME NEW h \in Requests, Cascades(h) \/ Purges(h)
      PROVE  ContentInv'
  BY <1>3, CascadeStep, PurgeStep
<1>4. ASSUME NEW m \in Members, NEW rank \in 0..Editor, ChangeRole(m, rank)
      PROVE  ContentInv'
  BY <1>4, RoleStep
<1>5. CASE UNCHANGED vars
  BY <1>5 DEF vars, ContentInv, TypeOK, DocInv, ReqInv, OrphansAreLate, EmptyInv, Shaped, Named,
              Late, Ranked, Checked, Settled, RankOf, Needed, Of, In
<1>6. CASE Next
  <2>1. \/ \E h \in Requests : \/ Begins(h) \/ Finds(h) \/ WriteBack(h) \/ Abandon(h)
                               \/ Insert(h) \/ SweepCollection(h) \/ Drop(h)
                               \/ \E c \in Ids : SweepNext(h, c)
                               \/ Cascades(h) \/ Purges(h)
        \/ \E m \in Members, rank \in 0..Editor : ChangeRole(m, rank)
    BY <1>6 DEF Next, Begins, Finds, Cascades, Purges
  <2>2. QED BY <1>1, <1>2, <1>3, <1>4, <2>1
<1>7. QED BY <1>5, <1>6

(* WorkspaceContent: the invariant above holds of every reachable state, for *)
(* any number of requests, members and documents.                            *)
THEOREM ContentInvariance == Spec => []ContentInv
BY ContentBegins, ContentStep, PTL DEF Spec

(* Types of the documents and of the requests about them. *)
THEOREM TypeCorrect == Spec => []TypeOK
<1>1. ContentInv => TypeOK
  BY DEF ContentInv
<1>2. QED BY <1>1, ContentInvariance, PTL

(* delete_collection and delete_workspace: a saved request nobody can reach   *)
(* was inserted after the cascade that took its collection had begun.         *)
THEOREM OrphansAreLateHolds == Spec => []OrphansAreLate
<1>1. ContentInv => OrphansAreLate
  BY DEF ContentInv
<1>2. QED BY <1>1, ContentInvariance, PTL

(* delete_workspace: what is left in a workspace that is gone was inserted    *)
(* after its deletion had begun, wherever other deletions of it stopped.      *)
THEOREM DeletedWorkspaceIsEmptyHolds == Spec => []DeletedWorkspaceIsEmpty
<1>1. ContentInv => DeletedWorkspaceIsEmpty
  BY DEF ContentInv, EmptyInv, DeletedWorkspaceIsEmpty
<1>2. QED BY <1>1, ContentInvariance, PTL

(* WorkspaceAccess::require: whoever writes had the rank for it at some time  *)
(* during the request, by the check or by the change of a role since.         *)
THEOREM WritesAuthorizedHolds == Spec => WritesAuthorized
<1>1. ContentInv => \A h \in Requests : Changes(h) => req[h].had >= Needed(req[h])
  BY DEF ContentInv, ReqInv, Checked, Changes
<1>2. QED BY <1>1, ContentInvariance, PTL DEF Spec, WritesAuthorized
===============================================================================
