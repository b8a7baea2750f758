----------------------------- MODULE EdgesProofs -----------------------------
(***************************************************************************)
(* Theorems about RequestHistory, ApiKeyGate and BridgeOrders, each for its  *)
(* own specification: no call or document is common to the three.  They     *)
(* hold for any number of requests, entries, keys, quotes and orders, and   *)
(* for every cap, limit and length of time.                                *)
(***************************************************************************)
EXTENDS MCEdges, Counting, SequenceTheorems

-----------------------------------------------------------------------------
(* RequestHistory. *)

(* An entry is dated once, so that a prune that was cut off is told from any  *)
(* other by its entry, also after a prune has finished what it left.         *)
EntryInv ==
    /\ \A h \in Recorders :
          record[h].at # "idle" =>
              /\ record[h].entry \in 1..dated
              /\ record[h].at # "insert" => record[h].entry \in recorded
              /\ record[h].entry \notin cutOff
              /\ \A g \in Recorders : record[h].entry \notin record[g].seen
    /\ \A h, g \in Recorders :
          record[h].at # "idle" /\ record[g].at # "idle" /\ record[h].entry = record[g].entry
              => h = g
    /\ \A h \in Recorders : record[h].seen \subseteq 1..dated

(* What a prune is about to delete has as many newer entries as the cap. *)
StaleInv ==
    \A h \in Recorders : \A e \in record[h].stale :
        Cardinality({f \in recorded : f > e}) >= MaxEntries

(* Prunes that have read what is stale, what that was, and the cut they saw. *)
Deleting == {h \in Recorders : record[h].at = "delete"}
StaleOf(D) == UNION {record[h].stale : h \in D}
SeenBy(D) == UNION {record[h].seen : h \in D}

(* Whichever of the prunes that have read what is stale end next: the entries *)
(* they leave beyond the cap are of insertions that have a prune to come, or  *)
(* whose prune was cut off since.                                            *)
DebtInv ==
    \A D \in SUBSET Deleting :
        Cardinality(Stale \ StaleOf(D))
            <= Cardinality(Pruning \ D) + Cardinality(cutOff \ SeenBy(D))

(* The inductive invariant of the history. *)
HistoryInv == HistoryTypeOK /\ EntryInv /\ StaleInv /\ DebtInv

-----------------------------------------------------------------------------
(* ApiKeyGate. *)

(* A request has a key that exists; one that began after the revocation gets  *)
(* neither a token nor past the extractor.                                   *)
CallInv ==
    \A h \in Clients :
        /\ call[h].now <= time
        /\ call[h].at # "idle" =>
              /\ call[h].key \in Keys /\ keys[call[h].key] # "none"
              /\ call[h].late =>
                    keys[call[h].key] = "revoked" /\ call[h].at \notin {"take", "serve"}

(* No bucket is dated ahead of the clock. *)
BucketInv == \A k \in DOMAIN buckets : buckets[k].last <= time

(* What a request at this time would find in the bucket of a key. *)
Credit(k) ==
    IF k \in DOMAIN buckets THEN Less(buckets[k].tokens + (time - buckets[k].last), Limit)
    ELSE Limit

(* Requests the middleware lost, and the extractor will admit. *)
Unmetered == {h \in Clients : call[h].at = "extract" /\ keys[call[h].key] # "revoked"}

(* What was admitted and what can be at once were paid for. *)
QuotaInv ==
    /\ time < window => admitted = 0
    /\ Cardinality(Unmetered) <= unmetered
    /\ admitted + Credit(followed) + Cardinality(Unmetered)
          <= Limit + Since(time, window) + waited + unmetered

(* The inductive invariant of the gate. *)
GateInv == GateTypeOK /\ CallInv /\ BucketInv /\ QuotaInv

-----------------------------------------------------------------------------
(* BridgeOrders. *)

(* A quote is asked of the first provider of its route, or of the second when *)
(* the first has refused.                                                    *)
Asked(h) ==
    /\ trade[h].at = "idle" => trade[h].refused = {}
    /\ trade[h].at = "quote" =>
          \/ trade[h].asks = First(trade[h].route) /\ trade[h].refused = {}
          \/ /\ trade[h].refused = {First(trade[h].route)}
             /\ trade[h].asks # First(trade[h].route)
             /\ Allowed(trade[h].route) = {First(trade[h].route), trade[h].asks}
    /\ trade[h].at = "refused" => trade[h].refused = Allowed(trade[h].route)

(* So it is for every request. *)
QuoteInv == \A h \in Traders : Asked(h)

(* The id of an order made at SideShift. *)
ShiftId(s) == <<"sideshift", s>>

(* A row of a SideShift order is there only after the order, and each order   *)
(* that has none is inserted by one request at most.                         *)
ShiftInv ==
    /\ \A s \in Shifts : orders[ShiftId(s)] # "none" => s \in DOMAIN remote
    /\ \A h \in Inserting :
          /\ trade[h].id[2] \in DOMAIN remote
          /\ orders[trade[h].id] = "none"
    /\ \A h, g \in Inserting : trade[h].id = trade[g].id => h = g
    /\ ShiftsTracked

(* What a refresh was told is no end that SideShift has not come to since. *)
Refreshing(h) ==
    /\ trade[h].at = "find" => trade[h].id \in OrderIds
    /\ trade[h].at \in {"fetch", "write"} =>
          /\ orders[trade[h].id] # "none"
          /\ \E s \in DOMAIN remote :
                /\ trade[h].id = ShiftId(s)
                /\ trade[h].at = "write" => Says(MapStatus(trade[h].got), remote[s])

(* Nor is what a row says. *)
ReportInv == EndsAsReported /\ \A h \in Traders : Refreshing(h)

(* The inductive invariant of the orders. *)
BridgeInv == BridgeTypeOK /\ QuoteInv /\ ShiftInv /\ ReportInv

-----------------------------------------------------------------------------
(* Sets of entries, and those beyond the cap.  *)

NewerIn(S, e) == {f \in S : f > e}
StaleIn(S) == {e \in S : Cardinality(NewerIn(S, e)) >= MaxEntries}

(* Those newer than an entry are no more in a part than in the whole. *)
LEMMA NewerPart ==
    ASSUME NEW S, IsFiniteSet(S), NEW T \in SUBSET S, NEW e
    PROVE  /\ Cardinality(NewerIn(T, e)) \in Nat /\ Cardinality(NewerIn(S, e)) \in Nat
           /\ Cardinality(NewerIn(T, e)) <= Cardinality(NewerIn(S, e))
<1>1. NewerIn(S, e) \in SUBSET S /\ NewerIn(T, e) \in SUBSET NewerIn(S, e)
  BY DEF NewerIn
<1>2. IsFiniteSet(NewerIn(S, e))
  BY <1>1, PartSize
<1>3. QED BY <1>1, <1>2, PartSize

(* What is beyond the cap in a part is so in the whole. *)
LEMMA StalePart ==
    ASSUME NEW S, IsFiniteSet(S), NEW T \in SUBSET S
    PROVE  StaleIn(T) \subseteq StaleIn(S)
BY NewerPart, HistoryAssumption DEF StaleIn

(* All but the cap are beyond it. *)
LEMMA StaleRest ==
    ASSUME NEW S \in SUBSET Nat, IsFiniteSet(S)
    PROVE  /\ IsFiniteSet(StaleIn(S)) /\ Cardinality(StaleIn(S)) \in Nat
           /\ Cardinality(S) \in Nat
           /\ Cardinality(S) <= MaxEntries + Cardinality(StaleIn(S))
<1> DEFINE Kept == S \ StaleIn(S)
<1>1. /\ IsFiniteSet(StaleIn(S)) /\ Cardinality(StaleIn(S)) \in Nat
      /\ IsFiniteSet(Kept) /\ Cardinality(Kept) \in Nat /\ Cardinality(S) \in Nat
  <2>1. StaleIn(S) \in SUBSET S /\ Kept \in SUBSET S
    BY DEF StaleIn
  <2>2. QED BY <2>1, PartSize
<1>2. Cardinality(Kept) <= MaxEntries
  <2>1. CASE Kept = {}
    BY <2>1, FS_EmptySet, HistoryAssumption
  <2>2. CASE Kept # {}
    <3>1. Kept \in SUBSET Nat
      OBVIOUS
    <3>2. PICK e \in Kept : \A f \in Kept : e <= f
      BY <2>2, <3>1, LeastMember
    <3>3. Kept \ {e} \in SUBSET NewerIn(S, e)
      BY <3>1, <3>2 DEF NewerIn
    <3>4. IsFiniteSet(NewerIn(S, e)) /\ Cardinality(NewerIn(S, e)) \in Nat
      <4>1. NewerIn(S, e) \in SUBSET S
        BY DEF NewerIn
      <4>2. QED BY <4>1, PartSize
    <3>5. Cardinality(Kept \ {e}) <= Cardinality(NewerIn(S, e))
      BY <3>3, <3>4, PartSize
    <3>6. Cardinality(NewerIn(S, e)) < MaxEntries
      BY <3>2, <3>4, HistoryAssumption DEF StaleIn
    <3>7. Cardinality(Kept \ {e}) = Cardinality(Kept) - 1
      BY <1>1, <3>2, SizeLess
    <3>8. QED BY <1>1, <3>4, <3>5, <3>6, <3>7, HistoryAssumption
  <2>3. QED BY <2>1, <2>2
<1>3. Cardinality(S) <= Cardinality(Kept) + Cardinality(StaleIn(S))
  <2>1. S = Kept \cup StaleIn(S) /\ Kept \cap StaleIn(S) = {}
    BY DEF StaleIn
  <2> HIDE DEF Kept
  <2>2. Cardinality(S) = Cardinality(Kept) + Cardinality(StaleIn(S)) - Cardinality(Kept \cap StaleIn(S))
    BY <1>1, <2>1, FS_Union
  <2>3. QED BY <1>1, <2>1, <2>2, FS_EmptySet
<1>4. QED BY <1>1, <1>2, <1>3, HistoryAssumption

(* One more entry takes one more beyond the cap at most. *)
LEMMA StaleWith ==
    ASSUME NEW S \in SUBSET Nat, IsFiniteSet(S), NEW e \in Nat
    PROVE  \E x : StaleIn(S \cup {e}) \subseteq StaleIn(S) \cup {x}
<1> DEFINE T == S \cup {e}
<1>1. IsFiniteSet(T) /\ S \in SUBSET T
  BY FS_AddElement
<1>2. \A a \in Nat : /\ Cardinality(NewerIn(S, a)) \in Nat /\ Cardinality(NewerIn(T, a)) \in Nat
                     /\ Cardinality(NewerIn(T, a)) <= Cardinality(NewerIn(S, a)) + 1
                     /\ ~ (e > a) => NewerIn(T, a) = NewerIn(S, a)
  <2> TAKE a \in Nat
  <2>1. IsFiniteSet(NewerIn(S, a)) /\ Cardinality(NewerIn(S, a)) \in Nat
    <3>1. NewerIn(S, a) \in SUBSET S
      BY DEF NewerIn
    <3>2. QED BY <3>1, PartSize
  <2>2. NewerIn(T, a) = NewerIn(S, a) \/ NewerIn(T, a) = NewerIn(S, a) \cup {e}
    BY DEF NewerIn
  <2>3. ~ (e > a) => NewerIn(T, a) = NewerIn(S, a)
    BY DEF NewerIn
  <2>4. /\ Cardinality(NewerIn(S, a) \cup {e}) \in Nat
        /\ Cardinality(NewerIn(S, a) \cup {e}) <= Cardinality(NewerIn(S, a)) + 1
    BY <2>1, SizeJoined
  <2>5. QED BY <2>1, <2>2, <2>3, <2>4
<1>3. ASSUME NEW a \in StaleIn(T) \ StaleIn(S), NEW b \in StaleIn(T) \ StaleIn(S), a < b
      PROVE  FALSE
  <2>0. a \in Nat /\ b \in Nat /\ a \in T /\ b \in T
    BY DEF StaleIn
  <2>1. /\ Cardinality(NewerIn(T, a)) >= MaxEntries /\ Cardinality(NewerIn(T, b)) >= MaxEntries
        /\ a \in S => Cardinality(NewerIn(S, a)) < MaxEntries
        /\ b \in S => Cardinality(NewerIn(S, b)) < MaxEntries
    BY <1>2, <2>0, HistoryAssumption DEF StaleIn
  <2>2. CASE a = e
    <3>1. b \in S /\ ~ (e > b)
      BY <1>3, <2>0, <2>2
    <3>2. NewerIn(T, b) = NewerIn(S, b)
      BY <1>2, <2>0, <3>1
    <3>3. QED BY <1>2, <2>0, <2>1, <3>1, <3>2, HistoryAssumption
  <2>3. CASE a # e
    <3>1. a \in S /\ IsFiniteSet(NewerIn(S, a))
      <4>1. NewerIn(S, a) \in SUBSET S
        BY DEF NewerIn
      <4>2. QED BY <2>0, <2>3, <4>1, PartSize
    <3>2. CASE b \in S
      <4>1. /\ b \in NewerIn(S, a)
            /\ \A f \in S : f > b => f > a /\ f # b
        BY <1>3, <2>0, <3>2 DEF NewerIn
      <4>2. NewerIn(S, b) \in SUBSET (NewerIn(S, a) \ {b})
        BY <4>1 DEF NewerIn
      <4>3. Cardinality(NewerIn(S, b)) + 1 <= Cardinality(NewerIn(S, a))
        BY <3>1, <4>1, <4>2, PartWithout
      <4>4. /\ Cardinality(NewerIn(S, a)) \in Nat /\ Cardinality(NewerIn(S, b)) \in Nat
            /\ Cardinality(NewerIn(T, b)) \in Nat
            /\ Cardinality(NewerIn(T, b)) <= Cardinality(NewerIn(S, b)) + 1
        BY <1>2, <2>0
      <4>5. QED BY <2>1, <3>1, <4>3, <4>4, HistoryAssumption
    <3>3. CASE b = e
      <4>1. NewerIn(T, b) = NewerIn(S, b) /\ NewerIn(S, b) \in SUBSET NewerIn(S, a)
        <5>1. ~ (e > b) /\ \A f \in S : f > b => f > a
          BY <1>3, <2>0, <3>3
        <5>2. NewerIn(S, b) \in SUBSET NewerIn(S, a)
          BY <5>1 DEF NewerIn
        <5>3. QED BY <1>2, <2>0, <5>1, <5>2
      <4>2. Cardinality(NewerIn(S, b)) <= Cardinality(NewerIn(S, a))
        BY <3>1, <4>1, PartSize
      <4>3. QED BY <1>2, <2>0, <2>1, <3>1, <4>1, <4>2, HistoryAssumption
    <3>4. QED BY <2>0, <3>2, <3>3
  <2>4. QED BY <2>2, <2>3
<1>4. \A a, b \in StaleIn(T) \ StaleIn(S) : a = b
  <2>1. \A a \in StaleIn(T) : a \in Nat
    BY DEF StaleIn
  <2>2. QED BY <1>3, <2>1
<1>5. QED BY <1>4

(* The sets that the invariant counts are finite. *)
LEMMA HistoryFinite ==
    ASSUME HistoryTypeOK
    PROVE  /\ history \in SUBSET Nat /\ IsFiniteSet(history)
           /\ recorded \in SUBSET Nat /\ IsFiniteSet(recorded)
           /\ IsFiniteSet(cutOff)
           /\ Pruning \in SUBSET Recorders /\ IsFiniteSet(Pruning)
           /\ Stale = StaleIn(history) /\ IsFiniteSet(Stale)
           /\ dated \in Nat
<1>1. dated \in Nat
  BY HistoryAssumption DEF HistoryTypeOK
<1>2. recorded \in SUBSET (1..dated) /\ history \in SUBSET recorded /\ cutOff \in SUBSET recorded
  BY DEF HistoryTypeOK
<1>3. IsFiniteSet(recorded) /\ recorded \in SUBSET Nat
  BY <1>1, <1>2, SizeUpTo
<1>4. IsFiniteSet(history) /\ IsFiniteSet(cutOff)
  BY <1>2, <1>3, PartSize
<1>5. Pruning \in SUBSET Recorders
  BY DEF Pruning
<1>6. IsFiniteSet(Pruning)
  BY <1>5, HistoryAssumption, PartSize
<1>7. Stale = StaleIn(history)
  BY DEF Stale, StaleIn, NewerIn
<1>8. Stale \in SUBSET history
  BY DEF Stale
<1>9. QED BY <1>1, <1>2, <1>3, <1>4, <1>5, <1>6, <1>7, <1>8, PartSize

(* What a step makes of the request whose turn it is. *)
LEMMA RecordEffect ==
    ASSUME HistoryTypeOK, NEW h \in Recorders, NEW new \in Record,
           record' = [record EXCEPT ![h] = new]
    PROVE  /\ record' \in [Recorders -> Record]
           /\ record'[h] = new
           /\ \A g \in Recorders \ {h} : record'[g] = record[g]
BY DEF HistoryTypeOK

(* No call is about to be made of an entry, or of what it found. *)
LEMMA NoRecordFields ==
    /\ NoRecord \in Record
    /\ NoRecord.at = "idle" /\ NoRecord.entry = 0 /\ NoRecord.stale = {} /\ NoRecord.seen = {}
BY HistoryAssumption DEF NoRecord, Record, RecordStep

(* The steps of a request, as the records that they make. *)
LEMMA RequestEffect ==
    ASSUME HistoryTypeOK, NEW h \in Recorders
    PROVE  /\ \A inWorkspace \in BOOLEAN : DateEntry(h, inWorkspace) =>
                 /\ record' = [record EXCEPT ![h] = [record[h] EXCEPT !.at = "insert", !.entry = dated + 1]]
                 /\ [record[h] EXCEPT !.at = "insert", !.entry = dated + 1] \in Record
           /\ InsertEntry(h) =>
                 /\ record' = [record EXCEPT ![h] = [record[h] EXCEPT !.at = "find"]]
                 /\ [record[h] EXCEPT !.at = "find"] \in Record
           /\ FindStale(h) =>
                 /\ record' = [record EXCEPT ![h] =
                                  [record[h] EXCEPT !.at = "delete", !.stale = Stale, !.seen = cutOff]]
                 /\ [record[h] EXCEPT !.at = "delete", !.stale = Stale, !.seen = cutOff] \in Record
           /\ DeleteStale(h) \/ CutOff(h) => record' = [record EXCEPT ![h] = NoRecord]
<1>0. record[h] \in Record
  BY DEF HistoryTypeOK
<1>1. ASSUME NEW inWorkspace \in BOOLEAN, DateEntry(h, inWorkspace)
      PROVE  /\ record' = [record EXCEPT ![h] = [record[h] EXCEPT !.at = "insert", !.entry = dated + 1]]
             /\ [record[h] EXCEPT !.at = "insert", !.entry = dated + 1] \in Record
  <2>1. dated' = dated + 1 /\ dated + 1 \in 0..MaxDated
    BY <1>1, HistoryAssumption DEF DateEntry, HistoryTypeOK
  <2>2. record' = [record EXCEPT ![h] = [record[h] EXCEPT !.at = "insert", !.entry = dated + 1]]
    BY <1>0, <1>1, <2>1 DEF DateEntry, HistoryTypeOK
  <2>3. [record[h] EXCEPT !.at = "insert", !.entry = dated + 1] \in Record
    BY <1>0, <2>1 DEF Record, RecordStep
  <2>4. QED BY <2>2, <2>3
<1>2. ASSUME InsertEntry(h)
      PROVE  /\ record' = [record EXCEPT ![h] = [record[h] EXCEPT !.at = "find"]]
             /\ [record[h] EXCEPT !.at = "find"] \in Record
  BY <1>0, <1>2 DEF InsertEntry, HistoryTypeOK, Record, RecordStep
<1>3. ASSUME FindStale(h)
      PROVE  /\ record' = [record EXCEPT ![h] =
                              [record[h] EXCEPT !.at = "delete", !.stale = Stale, !.seen = cutOff]]
             /\ [record[h] EXCEPT !.at = "delete", !.stale = Stale, !.seen = cutOff] \in Record
  <2>1. Stale \in SUBSET Entries /\ cutOff \in SUBSET Entries
    <3>1. 1..dated \subseteq Entries
      BY HistoryAssumption DEF HistoryTypeOK, Entries
    <3>2. QED BY <3>1 DEF HistoryTypeOK, Stale
  <2>2. QED BY <1>0, <1>3, <2>1 DEF FindStale, HistoryTypeOK, Record, RecordStep
<1>4. QED BY <1>1, <1>2, <1>3 DEF DeleteStale, CutOff, Done

-----------------------------------------------------------------------------
(* Every step keeps the types, and tells an entry from every other. *)
LEMMA EntryStep ==
    ASSUME HistoryTypeOK, EntryInv, [HistoryNext]_historyVars
    PROVE  HistoryTypeOK' /\ EntryInv'
<1>0. dated \in Nat /\ 1..dated \subseteq Entries
  BY HistoryAssumption DEF HistoryTypeOK, Entries
<1>1. CASE record' = record /\ history' \subseteq history
           /\ UNCHANGED <<dated, shared, recorded, cutOff>>
  BY <1>1 DEF HistoryTypeOK, EntryInv
<1>2. ASSUME NEW h \in Recorders, NEW inWorkspace \in BOOLEAN, DateEntry(h, inWorkspace)
      PROVE  HistoryTypeOK' /\ EntryInv'
  <2>1. /\ record' \in [Recorders -> Record]
        /\ record'[h].at = "insert" /\ record'[h].entry = dated + 1 /\ record'[h].seen = record[h].seen
        /\ \A g \in Recorders \ {h} : record'[g] = record[g]
    <3>1. record[h] \in Record
      BY DEF HistoryTypeOK
    <3>2. /\ record' = [record EXCEPT ![h] = [record[h] EXCEPT !.at = "insert", !.entry = dated + 1]]
          /\ [record[h] EXCEPT !.at = "insert", !.entry = dated + 1] \in Record
      BY <1>2, RequestEffect
    <3>3. QED BY <3>1, <3>2, RecordEffect DEF Record
  <2>2. /\ dated' = dated + 1 /\ dated' \in 0..MaxDated
        /\ UNCHANGED <<history, recorded, cutOff>>
        /\ shared' \subseteq shared \cup {dated'}
    BY <1>0, <1>2, HistoryAssumption DEF DateEntry
  <2>3. /\ 1..dated \subseteq 1..dated' /\ dated + 1 \in 1..dated' /\ dated + 1 \notin 1..dated
    BY <1>0, <2>2
  <2>4. HistoryTypeOK'
    BY <2>1, <2>2, <2>3 DEF HistoryTypeOK
  <2>5. EntryInv'
    <3>1. dated + 1 \notin cutOff /\ \A g \in Recorders : dated + 1 \notin record[g].seen
      BY <2>3 DEF HistoryTypeOK, EntryInv
    <3>2. \A g \in Recorders \ {h} : record[g].at # "idle" => record[g].entry # dated + 1
      BY <2>3 DEF EntryInv
    <3>3. QED BY <2>1, <2>2, <2>3, <3>1, <3>2 DEF EntryInv
  <2>6. QED BY <2>4, <2>5
<1>3. ASSUME NEW h \in Recorders, InsertEntry(h)
      PROVE  HistoryTypeOK' /\ EntryInv'
  <2>1. /\ record' \in [Recorders -> Record] /\ record[h].at = "insert"
        /\ record'[h].at = "find" /\ record'[h].entry = record[h].entry
        /\ record'[h].seen = record[h].seen
        /\ \A g \in Recorders \ {h} : record'[g] = record[g]
    <3>1. record[h].at = "insert" /\ record[h] \in Record
      BY <1>3 DEF InsertEntry, HistoryTypeOK
    <3>2. PICK new \in Record : /\ new = [record[h] EXCEPT !.at = "find"]
                                /\ record' = [record EXCEPT ![h] = new]
      BY <1>3, RequestEffect
    <3>3. new.at = "find" /\ new.entry = record[h].entry /\ new.seen = record[h].seen
      BY <3>1, <3>2 DEF Record
    <3>4. /\ record' \in [Recorders -> Record] /\ record'[h] = new
          /\ \A g \in Recorders \ {h} : record'[g] = record[g]
      BY <3>2, RecordEffect
    <3>5. QED BY <3>1, <3>3, <3>4
  <2>2. /\ history' = history \cup {record[h].entry} /\ recorded' = recorded \cup {record[h].entry}
        /\ UNCHANGED <<dated, shared, cutOff>>
    BY <1>3 DEF InsertEntry
  <2>3. record[h].entry \in 1..dated
    BY <2>1 DEF EntryInv
  <2>4. HistoryTypeOK'
    BY <2>1, <2>2, <2>3 DEF HistoryTypeOK
  <2>5. EntryInv'
    BY <2>1, <2>2 DEF EntryInv
  <2>6. QED BY <2>4, <2>5
<1>4. ASSUME NEW h \in Recorders, FindStale(h)
      PROVE  HistoryTypeOK' /\ EntryInv'
  <2>1. /\ record' \in [Recorders -> Record] /\ record[h].at = "find"
        /\ record'[h].at = "delete" /\ record'[h].entry = record[h].entry
        /\ record'[h].seen = cutOff
        /\ \A g \in Recorders \ {h} : record'[g] = record[g]
    <3>1. record[h].at = "find" /\ record[h] \in Record
      BY <1>4 DEF FindStale, HistoryTypeOK
    <3>2. PICK new \in Record :
             /\ new = [record[h] EXCEPT !.at = "delete", !.stale = Stale, !.seen = cutOff]
             /\ record' = [record EXCEPT ![h] = new]
      BY <1>4, RequestEffect
    <3>3. new.at = "delete" /\ new.entry = record[h].entry /\ new.seen = cutOff
      BY <3>1, <3>2 DEF Record
    <3>4. /\ record' \in [Recorders -> Record] /\ record'[h] = new
          /\ \A g \in Recorders \ {h} : record'[g] = record[g]
      BY <3>2, RecordEffect
    <3>5. QED BY <3>1, <3>3, <3>4
  <2>2. UNCHANGED <<history, dated, shared, recorded, cutOff>>
    BY <1>4 DEF FindStale
  <2>3. cutOff \subseteq 1..dated
    BY DEF HistoryTypeOK
  <2>4. HistoryTypeOK'
    BY <2>1, <2>2 DEF HistoryTypeOK
  <2>5. \A g \in Recorders :
           /\ record'[g].at # "idle" <=> record[g].at # "idle"
           /\ record'[g].at # "insert" <=> record[g].at # "insert"
           /\ record'[g].entry = record[g].entry
           /\ record'[g].seen = record[g].seen \/ record'[g].seen = cutOff
    BY <2>1
  <2>6. EntryInv'
    BY <2>2, <2>3, <2>5 DEF EntryInv
  <2>7. QED BY <2>4, <2>6
<1>5. ASSUME NEW h \in Recorders, DeleteStale(h) \/ CutOff(h)
      PROVE  HistoryTypeOK' /\ EntryInv'
  <2>1. /\ record' \in [Recorders -> Record] /\ record[h].at # "idle"
        /\ record'[h].at = "idle" /\ record'[h].seen = {}
        /\ \A g \in Recorders \ {h} : record'[g] = record[g]
    BY <1>5, RequestEffect, RecordEffect, NoRecordFields DEF DeleteStale, CutOff
  <2>2. /\ history' \subseteq history /\ UNCHANGED <<dated, shared, recorded>>
        /\ cutOff' \subseteq cutOff \cup {record[h].entry}
        /\ record[h].entry \in recorded \/ cutOff' \subseteq cutOff
    BY <1>5 DEF DeleteStale, CutOff, EntryInv
  <2>3. HistoryTypeOK'
    BY <2>1, <2>2 DEF HistoryTypeOK
  <2>4. \A g \in Recorders \ {h} : record[g].at # "idle" =>
            record[g].entry # record[h].entry /\ record[g].entry \notin cutOff'
    BY <2>1, <2>2 DEF EntryInv
  <2>5. EntryInv'
    BY <2>1, <2>2, <2>4 DEF EntryInv
  <2>6. QED BY <2>3, <2>5
<1>6. QED
  BY <1>1, <1>2, <1>3, <1>4, <1>5 DEF HistoryNext, historyVars, DeleteEntry, ClearHistory

(* Every step keeps what a prune has read older than as many as the cap. *)
LEMMA StaleStep ==
    ASSUME HistoryTypeOK, HistoryTypeOK', StaleInv, [HistoryNext]_historyVars
    PROVE  StaleInv'
<1>0. recorded \subseteq recorded' /\ IsFiniteSet(recorded')
  <2>1. recorded \subseteq recorded'
    BY DEF HistoryNext, historyVars, DateEntry, InsertEntry, FindStale, DeleteStale, CutOff,
           DeleteEntry, ClearHistory
  <2>2. dated' \in Nat /\ recorded' \in SUBSET (1..dated')
    BY HistoryAssumption DEF HistoryTypeOK
  <2>3. QED BY <2>1, <2>2, SizeUpTo
<1>1. ASSUME NEW h \in Recorders, NEW e \in record'[h].stale
      PROVE  e \in record[h].stale \/ e \in Stale
  <2>1. CASE record' = record
    BY <1>1, <2>1
  <2>2. ASSUME NEW g \in Recorders, NEW inWorkspace \in BOOLEAN, DateEntry(g, inWorkspace)
        PROVE  record'[h].stale = record[h].stale
    BY <2>2 DEF DateEntry, HistoryTypeOK, Record
  <2>3. ASSUME NEW g \in Recorders, InsertEntry(g)
        PROVE  record'[h].stale = record[h].stale
    BY <2>3 DEF InsertEntry, HistoryTypeOK, Record
  <2>4. ASSUME NEW g \in Recorders, FindStale(g)
        PROVE  record'[h].stale = record[h].stale \/ record'[h].stale = Stale
    BY <2>4 DEF FindStale, HistoryTypeOK, Record
  <2>5. ASSUME NEW g \in Recorders, DeleteStale(g) \/ CutOff(g)
        PROVE  record'[h].stale = record[h].stale \/ record'[h].stale = {}
    <3>1. record' = [record EXCEPT ![g] = NoRecord]
      BY <2>5 DEF DeleteStale, CutOff, Done
    <3>2. QED BY <3>1, NoRecordFields DEF HistoryTypeOK
  <2>6. QED
    BY <1>1, <2>1, <2>2, <2>3, <2>4, <2>5 DEF HistoryNext, historyVars, DeleteEntry, ClearHistory
<1>2. ASSUME NEW e \in Stale
      PROVE  Cardinality(NewerIn(recorded, e)) >= MaxEntries
  <2>1. e \in StaleIn(history) /\ history \in SUBSET recorded /\ IsFiniteSet(recorded)
    BY HistoryFinite DEF HistoryTypeOK
  <2>2. Cardinality(NewerIn(history, e)) >= MaxEntries
    BY <2>1 DEF StaleIn
  <2>3. QED BY <2>1, <2>2, NewerPart, HistoryAssumption
<1>3. ASSUME NEW h \in Recorders, NEW e \in record'[h].stale
      PROVE  Cardinality({f \in recorded' : f > e}) >= MaxEntries
  <2>1. Cardinality(NewerIn(recorded, e)) >= MaxEntries
    BY <1>1, <1>2, <1>3 DEF StaleInv, NewerIn
  <2>2. Cardinality(NewerIn(recorded', e)) >= MaxEntries
    BY <1>0, <2>1, NewerPart, HistoryAssumption
  <2>3. QED BY <2>2 DEF NewerIn
<1>4. QED BY <1>3 DEF StaleInv

-----------------------------------------------------------------------------
(* The debt of one set of prunes. *)
Debt(D) ==
    Cardinality(Stale \ StaleOf(D))
        <= Cardinality(Pruning \ D) + Cardinality(cutOff \ SeenBy(D))

(* The sizes in it are numbers. *)
LEMMA DebtType ==
    ASSUME HistoryTypeOK, NEW D
    PROVE  /\ IsFiniteSet(Stale \ StaleOf(D)) /\ Cardinality(Stale \ StaleOf(D)) \in Nat
           /\ IsFiniteSet(Pruning \ D) /\ Cardinality(Pruning \ D) \in Nat
           /\ IsFiniteSet(cutOff \ SeenBy(D)) /\ Cardinality(cutOff \ SeenBy(D)) \in Nat
<1>1. /\ Stale \ StaleOf(D) \in SUBSET Stale
      /\ Pruning \ D \in SUBSET Pruning
      /\ cutOff \ SeenBy(D) \in SUBSET cutOff
  OBVIOUS
<1>2. QED BY <1>1, HistoryFinite, PartSize

(* What prunes have read changes with their records only. *)
LEMMA DebtOf ==
    ASSUME NEW D, \A h \in D : record'[h] = record[h]
    PROVE  /\ StaleOf(D)' = StaleOf(D) /\ SeenBy(D)' = SeenBy(D)
           /\ Debt(D)' <=> Cardinality(Stale' \ StaleOf(D))
                              <= Cardinality(Pruning' \ D) + Cardinality(cutOff' \ SeenBy(D))
<1>1. StaleOf(D)' = StaleOf(D) /\ SeenBy(D)' = SeenBy(D)
  BY DEF StaleOf, SeenBy
<1>2. QED BY <1>1 DEF Debt

(* What is beyond the cap shrinks with the history. *)
LEMMA StaleShrinks ==
    ASSUME HistoryTypeOK, HistoryTypeOK', history' \subseteq history
    PROVE  Stale' \subseteq Stale
<1>1. Stale = StaleIn(history) /\ IsFiniteSet(history) /\ Stale' = StaleIn(history')
  <2>1. Stale' = StaleIn(history')
    BY DEF Stale, StaleIn, NewerIn
  <2>2. QED BY <2>1, HistoryFinite
<1>2. QED BY <1>1, StalePart

(* Whatever only removes entries, and ends no prune, runs no debt up. *)
LEMMA DebtFrame ==
    ASSUME HistoryTypeOK, HistoryTypeOK', NEW D, Debt(D), history' \subseteq history,
           \A h \in D : record'[h] = record[h], Pruning' = Pruning, cutOff' = cutOff
    PROVE  Debt(D)'
<1>1. Debt(D)' <=> Cardinality(Stale' \ StaleOf(D))
                      <= Cardinality(Pruning \ D) + Cardinality(cutOff \ SeenBy(D))
  BY DebtOf
<1>2. Stale' \ StaleOf(D) \in SUBSET (Stale \ StaleOf(D))
  BY StaleShrinks
<1>3. Cardinality(Stale' \ StaleOf(D)) \in Nat
      /\ Cardinality(Stale' \ StaleOf(D)) <= Cardinality(Stale \ StaleOf(D))
  BY <1>2, DebtType, PartSize
<1>4. /\ Cardinality(Stale \ StaleOf(D)) <= Cardinality(Pruning \ D) + Cardinality(cutOff \ SeenBy(D))
      /\ Cardinality(Stale \ StaleOf(D)) \in Nat
      /\ Cardinality(Pruning \ D) \in Nat /\ Cardinality(cutOff \ SeenBy(D)) \in Nat
  BY DebtType DEF Debt
<1>5. QED BY <1>1, <1>3, <1>4

(* An insertion owes the one entry that it pushes beyond the cap. *)
LEMMA DebtInsert ==
    ASSUME HistoryTypeOK, HistoryTypeOK', EntryInv, DebtInv, NEW h \in Recorders, InsertEntry(h)
    PROVE  DebtInv'
<1>1. /\ record[h].at = "insert" /\ record'[h].at = "find"
      /\ \A g \in Recorders \ {h} : record'[g] = record[g]
      /\ history' = history \cup {record[h].entry} /\ cutOff' = cutOff
  BY DEF InsertEntry, HistoryTypeOK, Record
<1>2. /\ Deleting' = Deleting /\ Deleting \in SUBSET (Recorders \ {h})
      /\ Pruning' = Pruning \cup {h} /\ h \notin Pruning
  BY <1>1 DEF Deleting, Pruning
<1>3. PICK x : Stale' \subseteq Stale \cup {x}
  <2>1. record[h].entry \in Nat
    BY <1>1, HistoryFinite DEF EntryInv
  <2>2. Stale' = StaleIn(history') /\ Stale = StaleIn(history)
    BY HistoryFinite DEF Stale, StaleIn, NewerIn
  <2>3. QED BY <1>1, <2>1, <2>2, HistoryFinite, StaleWith
<1> SUFFICES ASSUME NEW D \in SUBSET Deleting PROVE Debt(D)'
  BY <1>2 DEF DebtInv, Debt
<1>4. Debt(D) /\ h \notin D
  BY <1>2 DEF DebtInv, Debt
<1>5. Debt(D)' <=> Cardinality(Stale' \ StaleOf(D))
                      <= Cardinality(Pruning' \ D) + Cardinality(cutOff \ SeenBy(D))
  BY <1>1, <1>2, DebtOf
<1>6. /\ Cardinality(Stale' \ StaleOf(D)) \in Nat
      /\ Cardinality(Stale' \ StaleOf(D)) <= Cardinality(Stale \ StaleOf(D)) + 1
  <2> DEFINE A == Stale \ StaleOf(D)
             B == Stale' \ StaleOf(D)
  <2>1. IsFiniteSet(A) /\ B \in SUBSET (A \cup {x})
    BY <1>3, DebtType
  <2> HIDE DEF A, B
  <2>2. /\ IsFiniteSet(A \cup {x}) /\ Cardinality(A) \in Nat /\ Cardinality(A \cup {x}) \in Nat
        /\ Cardinality(A \cup {x}) <= Cardinality(A) + 1
    BY <2>1, SizeJoined
  <2>3. Cardinality(B) \in Nat /\ Cardinality(B) <= Cardinality(A \cup {x})
    BY <2>1, <2>2, PartSize
  <2>4. Cardinality(B) \in Nat /\ Cardinality(B) <= Cardinality(A) + 1
    BY <2>2, <2>3
  <2>5. QED BY <2>4 DEF A, B
<1>7. Cardinality(Pruning' \ D) = Cardinality(Pruning \ D) + 1
  <2>1. Pruning' \ D = (Pruning \ D) \cup {h} /\ h \notin Pruning \ D
    BY <1>2, <1>4
  <2>2. QED BY <2>1, DebtType, SizeWith
<1>8. /\ Cardinality(Stale \ StaleOf(D)) <= Cardinality(Pruning \ D) + Cardinality(cutOff \ SeenBy(D))
      /\ Cardinality(Stale \ StaleOf(D)) \in Nat
      /\ Cardinality(Pruning \ D) \in Nat /\ Cardinality(cutOff \ SeenBy(D)) \in Nat
  BY <1>4, DebtType DEF Debt
<1>9. QED BY <1>5, <1>6, <1>7, <1>8

(* A prune that has read what is stale leaves nothing of it. *)
LEMMA DebtFind ==
    ASSUME HistoryTypeOK, HistoryTypeOK', DebtInv, NEW h \in Recorders, FindStale(h)
    PROVE  DebtInv'
<1>1. /\ record[h].at = "find" /\ record'[h].at = "delete" /\ record'[h].stale = Stale
      /\ \A g \in Recorders \ {h} : record'[g] = record[g]
      /\ history' = history /\ cutOff' = cutOff
  BY DEF FindStale, HistoryTypeOK, Record
<1>2. /\ Deleting' = Deleting \cup {h} /\ Pruning' = Pruning /\ Deleting \in SUBSET Recorders
  BY <1>1 DEF Deleting, Pruning
<1> SUFFICES ASSUME NEW D \in SUBSET (Deleting \cup {h}) PROVE Debt(D)'
  BY <1>2 DEF DebtInv, Debt
<1>3. CASE h \in D
  <2>1. Stale' = Stale
    BY <1>1 DEF Stale
  <2>2. Stale' \ StaleOf(D)' = {}
    BY <1>1, <1>3, <2>1 DEF StaleOf
  <2>3. /\ Cardinality(Stale' \ StaleOf(D)') = 0
        /\ Cardinality(Pruning' \ D) \in Nat /\ Cardinality(cutOff' \ SeenBy(D)') \in Nat
    <3>1. Cardinality(Stale' \ StaleOf(D)') = 0
      BY <2>2, FS_EmptySet
    <3>2. Pruning' \ D \in SUBSET Pruning /\ cutOff' \ SeenBy(D)' \in SUBSET cutOff
      BY <1>1, <1>2
    <3>3. QED BY <3>1, <3>2, HistoryFinite, PartSize
  <2>4. QED BY <2>3 DEF Debt
<1>4. CASE h \notin D
  <2>1. Debt(D) /\ \A g \in D : record'[g] = record[g]
    BY <1>1, <1>2, <1>4 DEF DebtInv, Debt
  <2>2. QED BY <1>1, <1>2, <2>1, DebtFrame
<1>5. QED BY <1>3, <1>4

(* A prune that ends has paid for itself and for those it has seen cut off. *)
LEMMA DebtDelete ==
    ASSUME HistoryTypeOK, HistoryTypeOK', DebtInv, NEW h \in Recorders, DeleteStale(h)
    PROVE  DebtInv'
<1>1. /\ record[h].at = "delete" /\ record'[h].at = "idle"
      /\ \A g \in Recorders \ {h} : record'[g] = record[g]
      /\ history' = history \ record[h].stale /\ cutOff' = cutOff \ record[h].seen
  BY NoRecordFields DEF DeleteStale, Done, HistoryTypeOK
<1>2. /\ Deleting' = Deleting \ {h} /\ Pruning' = Pruning \ {h} /\ h \in Deleting
      /\ Deleting \in SUBSET Recorders
  BY <1>1 DEF Deleting, Pruning
<1> SUFFICES ASSUME NEW D \in SUBSET (Deleting \ {h}) PROVE Debt(D)'
  BY <1>2 DEF DebtInv, Debt
<1> DEFINE E == D \cup {h}
<1>3. Debt(E)
  BY <1>2 DEF DebtInv, Debt
<1>4. Debt(D)' <=> Cardinality(Stale' \ StaleOf(D))
                      <= Cardinality(Pruning' \ D) + Cardinality(cutOff' \ SeenBy(D))
  BY <1>1, <1>2, DebtOf
<1>5. /\ StaleOf(E) = StaleOf(D) \cup record[h].stale
      /\ SeenBy(E) = SeenBy(D) \cup record[h].seen
  BY DEF StaleOf, SeenBy
<1>6. /\ Stale' \ StaleOf(D) \in SUBSET (Stale \ StaleOf(E))
      /\ Pruning' \ D = Pruning \ E
      /\ cutOff' \ SeenBy(D) = cutOff \ SeenBy(E)
  <2>1. Stale' \subseteq Stale /\ Stale' \subseteq history'
    BY <1>1, StaleShrinks DEF Stale
  <2>2. QED BY <1>1, <1>2, <1>5, <2>1
<1> HIDE DEF E
<1>7. /\ Cardinality(Stale' \ StaleOf(D)) \in Nat
      /\ Cardinality(Stale' \ StaleOf(D)) <= Cardinality(Stale \ StaleOf(E))
  BY <1>6, DebtType, PartSize
<1>8. Debt(D)' <=> Cardinality(Stale' \ StaleOf(D))
                      <= Cardinality(Pruning \ E) + Cardinality(cutOff \ SeenBy(E))
  BY <1>4, <1>6
<1>9. /\ Cardinality(Stale \ StaleOf(E)) <= Cardinality(Pruning \ E) + Cardinality(cutOff \ SeenBy(E))
      /\ Cardinality(Stale \ StaleOf(E)) \in Nat
      /\ Cardinality(Pruning \ E) \in Nat /\ Cardinality(cutOff \ SeenBy(E)) \in Nat
  BY <1>3, DebtType DEF Debt
<1>10. QED BY <1>7, <1>8, <1>9

(* A prune that is cut off leaves its debt behind under its entry. *)
LEMMA DebtCutOff ==
    ASSUME HistoryTypeOK, HistoryTypeOK', EntryInv, DebtInv, NEW h \in Recorders, CutOff(h)
    PROVE  DebtInv'
<1>1. /\ record[h].at # "idle" /\ record'[h].at = "idle"
      /\ \A g \in Recorders \ {h} : record'[g] = record[g]
      /\ history' = history
  BY NoRecordFields DEF CutOff, Done, HistoryTypeOK
<1>2. /\ Deleting' = Deleting \ {h} /\ Pruning' = Pruning \ {h}
      /\ Deleting \in SUBSET Recorders
  BY <1>1 DEF Deleting, Pruning
<1> SUFFICES ASSUME NEW D \in SUBSET (Deleting \ {h}) PROVE Debt(D)'
  BY <1>2 DEF DebtInv, Debt
<1>3. Debt(D) /\ \A g \in D : record'[g] = record[g]
  BY <1>1, <1>2 DEF DebtInv, Debt
<1>4. CASE record[h].at = "insert"
  <2>1. Pruning' = Pruning /\ cutOff' = cutOff
    BY <1>2, <1>4 DEF CutOff, Pruning
  <2>2. QED BY <1>1, <1>3, <2>1, DebtFrame
<1>5. CASE record[h].at # "insert"
  <2>1. cutOff' = cutOff \cup {record[h].entry} /\ h \in Pruning
    BY <1>1, <1>5 DEF CutOff, Pruning, HistoryTypeOK, Record, RecordStep
  <2>2. Debt(D)' <=> Cardinality(Stale \ StaleOf(D))
                        <= Cardinality(Pruning' \ D) + Cardinality(cutOff' \ SeenBy(D))
    <3>1. Stale' = Stale
      BY <1>1 DEF Stale
    <3>2. QED BY <1>3, <3>1, DebtOf
  <2>3. Cardinality(Pruning' \ D) = Cardinality(Pruning \ D) - 1
    <3>1. Pruning' \ D = (Pruning \ D) \ {h} /\ h \in Pruning \ D
      BY <1>2, <2>1
    <3>2. QED BY <3>1, DebtType, SizeLess
  <2>4. Cardinality(cutOff' \ SeenBy(D)) = Cardinality(cutOff \ SeenBy(D)) + 1
    <3>1. record[h].entry \notin cutOff /\ record[h].entry \notin SeenBy(D)
      BY <1>1, <1>2 DEF EntryInv, SeenBy
    <3>2. /\ cutOff' \ SeenBy(D) = (cutOff \ SeenBy(D)) \cup {record[h].entry}
          /\ record[h].entry \notin cutOff \ SeenBy(D)
      BY <2>1, <3>1
    <3>3. QED BY <3>2, DebtType, SizeWith
  <2>5. /\ Cardinality(Stale \ StaleOf(D)) <= Cardinality(Pruning \ D) + Cardinality(cutOff \ SeenBy(D))
        /\ Cardinality(Stale \ StaleOf(D)) \in Nat
        /\ Cardinality(Pruning \ D) \in Nat /\ Cardinality(cutOff \ SeenBy(D)) \in Nat
    BY <1>3, DebtType DEF Debt
  <2>6. QED BY <2>2, <2>3, <2>4, <2>5
<1>6. QED BY <1>4, <1>5

(* Every step keeps the debts. *)
LEMMA DebtStep ==
    ASSUME HistoryTypeOK, HistoryTypeOK', EntryInv, DebtInv, [HistoryNext]_historyVars
    PROVE  DebtInv'
<1>1. CASE record' = record /\ history' \subseteq history /\ cutOff' = cutOff
  <2>1. Deleting' = Deleting /\ Pruning' = Pruning
    BY <1>1 DEF Deleting, Pruning
  <2>2. ASSUME NEW D \in SUBSET Deleting
        PROVE  Debt(D)'
    BY <1>1, <2>1, <2>2, DebtFrame DEF DebtInv, Debt
  <2>3. QED BY <2>1, <2>2 DEF DebtInv, Debt
<1>2. ASSUME NEW h \in Recorders, NEW inWorkspace \in BOOLEAN, DateEntry(h, inWorkspace)
      PROVE  DebtInv'
  <2>1. /\ record[h].at = "idle" /\ record'[h].at = "insert"
        /\ \A g \in Recorders \ {h} : record'[g] = record[g]
        /\ UNCHANGED <<history, cutOff>>
    BY <1>2 DEF DateEntry, HistoryTypeOK, Record
  <2>2. Deleting' = Deleting /\ Pruning' = Pruning /\ Deleting \in SUBSET (Recorders \ {h})
    BY <2>1 DEF Deleting, Pruning
  <2>3. ASSUME NEW D \in SUBSET Deleting
        PROVE  Debt(D)'
    BY <2>1, <2>2, <2>3, DebtFrame DEF DebtInv, Debt
  <2>4. QED BY <2>2, <2>3 DEF DebtInv, Debt
<1>3. QED
  BY <1>1, <1>2, DebtInsert, DebtFind, DebtDelete, DebtCutOff
  DEF HistoryNext, historyVars, DeleteEntry, ClearHistory

(* The invariant holds of an empty history. *)
LEMMA HistoryBegins == HistoryInit => HistoryInv
<1> SUFFICES ASSUME HistoryInit PROVE HistoryInv
  OBVIOUS
<1>1. /\ record \in [Recorders -> Record]
      /\ \A h \in Recorders : /\ record[h].at = "idle" /\ record[h].stale = {} /\ record[h].seen = {}
  BY NoRecordFields DEF HistoryInit
<1>2. HistoryTypeOK
  BY <1>1, HistoryAssumption DEF HistoryInit, HistoryTypeOK
<1>3. EntryInv /\ StaleInv
  BY <1>1 DEF EntryInv, StaleInv
<1>4. DebtInv
  <2> SUFFICES ASSUME NEW D \in SUBSET Deleting
               PROVE  Cardinality(Stale \ StaleOf(D))
                          <= Cardinality(Pruning \ D) + Cardinality(cutOff \ SeenBy(D))
    BY DEF DebtInv
  <2>1. Stale \ StaleOf(D) = {}
    BY DEF HistoryInit, Stale
  <2>2. Cardinality(Stale \ StaleOf(D)) = 0
    BY <2>1, FS_EmptySet
  <2>3. Cardinality(Pruning \ D) \in Nat /\ Cardinality(cutOff \ SeenBy(D)) \in Nat
    BY <1>2, DebtType
  <2>4. QED BY <2>2, <2>3
<1>5. QED BY <1>2, <1>3, <1>4 DEF HistoryInv

(* Every step keeps it. *)
LEMMA HistoryStep == HistoryInv /\ [HistoryNext]_historyVars => HistoryInv'
BY EntryStep, StaleStep, DebtStep DEF HistoryInv

(* The invariant of the history, of which the type invariant is a part. *)
THEOREM HistoryInvariance == HistorySpec => [](HistoryInv /\ HistoryTypeOK)
<1>1. HistoryInv => HistoryTypeOK
  BY DEF HistoryInv
<1>2. QED BY <1>1, HistoryBegins, HistoryStep, PTL DEF HistorySpec

(* The history exceeds its cap by one entry for each prune under way, and for *)
(* each that was cut off and not made up for since, whatever the order of    *)
(* their reads and deletes.                                                  *)
THEOREM HistoryBoundedHolds == HistorySpec => []HistoryBounded
<1>1. HistoryInv => HistoryBounded
  <2> SUFFICES ASSUME HistoryInv PROVE HistoryBounded
    OBVIOUS
  <2>1. HistoryTypeOK
    BY DEF HistoryInv
  <2>2. Cardinality(Stale) <= Cardinality(Pruning) + Cardinality(cutOff)
    <3>1. Debt({})
      BY DEF HistoryInv, DebtInv, Debt
    <3>2. StaleOf({}) = {} /\ SeenBy({}) = {}
      BY DEF StaleOf, SeenBy
    <3>3. Stale \ {} = Stale /\ Pruning \ {} = Pruning /\ cutOff \ {} = cutOff
      OBVIOUS
    <3>4. QED BY <3>1, <3>2, <3>3 DEF Debt
  <2>3. /\ Cardinality(history) \in Nat /\ Cardinality(Stale) \in Nat
        /\ Cardinality(history) <= MaxEntries + Cardinality(Stale)
    BY <2>1, HistoryFinite, StaleRest
  <2>4. Cardinality(Pruning) \in Nat /\ Cardinality(cutOff) \in Nat
    BY <2>1, HistoryFinite, FS_CardinalityType
  <2>5. QED BY <2>2, <2>3, <2>4, HistoryAssumption DEF HistoryBounded
<1>2. QED BY <1>1, HistoryInvariance, PTL

(* A prune removes no entry unless as many as the cap that are newer were     *)
(* recorded, though it deletes what it read some calls before.               *)
THEOREM PrunesOldestHolds == HistorySpec => PrunesOldest
<1> DEFINE Oldest ==
      \A h \in Recorders : (record[h].at = "delete" /\ record'[h].at = "idle") =>
          \A e \in history \ history' :
             Cardinality({f \in recorded : f > e}) >= MaxEntries
<1>1. HistoryInv /\ [HistoryNext]_historyVars => [Oldest]_historyVars
  <2> SUFFICES ASSUME HistoryInv, [HistoryNext]_historyVars,
                      NEW h \in Recorders, record[h].at = "delete", record'[h].at = "idle",
                      NEW e \in history \ history'
               PROVE  Cardinality({f \in recorded : f > e}) >= MaxEntries
    OBVIOUS
  <2>1. HistoryTypeOK /\ StaleInv
    BY DEF HistoryInv
  <2>2. PICK g \in Recorders :
            \/ \E inWorkspace \in BOOLEAN : DateEntry(g, inWorkspace)
            \/ InsertEntry(g) \/ FindStale(g) \/ DeleteStale(g) \/ CutOff(g)
    BY DEF HistoryNext, historyVars, DeleteEntry, ClearHistory
  <2>3. g = h
    <3>1. \A f \in Recorders \ {g} : record'[f] = record[f]
      BY <2>1, <2>2 DEF HistoryTypeOK, DateEntry, InsertEntry, FindStale, DeleteStale, CutOff, Done
    <3>2. QED BY <3>1
  <2>4. e \in record[h].stale
    BY <2>1, <2>2, <2>3 DEF DateEntry, InsertEntry, FindStale, DeleteStale, CutOff
  <2>5. QED BY <2>1, <2>4 DEF StaleInv
<1>2. QED BY <1>1, HistoryInvariance, PTL DEF HistorySpec, PrunesOldest

-----------------------------------------------------------------------------
(* ApiKeyGate: what a step makes of the request whose turn it is. *)
LEMMA CallEffect ==
    ASSUME GateTypeOK, NEW h \in Clients, NEW new \in Client,
           call' = [call EXCEPT ![h] = new]
    PROVE  /\ call' \in [Clients -> Client]
           /\ call'[h] = new
           /\ \A g \in Clients \ {h} : call'[g] = call[g]
BY DEF GateTypeOK

(* A request that ends is none. *)
LEMMA HangEffect ==
    ASSUME GateTypeOK, NEW h \in Clients, Hang(h)
    PROVE  /\ call' \in [Clients -> Client]
           /\ call'[h].at = "idle" /\ call'[h].now = 0
           /\ \A g \in Clients \ {h} : call'[g] = call[g]
<1>1. NoClient \in Client /\ NoClient.at = "idle" /\ NoClient.now = 0
  BY GateAssumption DEF NoClient, Client, ClientStep
<1>2. QED BY <1>1, CallEffect DEF Hang

(* A request that goes on to another step changes in nothing else. *)
LEMMA GoToEffect ==
    ASSUME GateTypeOK, NEW h \in Clients, NEW step \in ClientStep, GoTo(h, step)
    PROVE  /\ call' \in [Clients -> Client]
           /\ call'[h].at = step /\ call'[h].key = call[h].key
           /\ call'[h].now = call[h].now /\ call'[h].late = call[h].late
           /\ \A g \in Clients \ {h} : call'[g] = call[g]
BY DEF GoTo, GateTypeOK, Client

(* The tokens found in a bucket fit in it. *)
LEMMA RefilledType ==
    ASSUME GateTypeOK, NEW k \in Keys, NEW now \in 0..MaxClock
    PROVE  Refilled(k, now) \in 0..Limit
<1>1. CASE k \in Retained(now)
  <2>1. k \in DOMAIN buckets
    BY <1>1 DEF Retained
  <2>2. buckets[k].tokens \in 0..Limit /\ buckets[k].last \in 0..MaxClock
    BY <2>1 DEF GateTypeOK, Bucket
  <2>3. Since(now, buckets[k].last) \in Nat
    BY <2>2, GateAssumption DEF Since
  <2>4. QED BY <1>1, <2>2, <2>3, GateAssumption DEF Refilled, Less
<1>2. CASE k \notin Retained(now)
  BY <1>2, GateAssumption DEF Refilled
<1>3. QED BY <1>1, <1>2

(* What a check leaves in the buckets. *)
LEMMA TakeEffect ==
    ASSUME GateTypeOK, CallInv, NEW h \in Clients, TakeToken(h)
    PROVE  /\ call[h].key \in Keys /\ call[h].now \in 0..time
           /\ call[h].now \in 0..MaxClock
           /\ Refilled(call[h].key, call[h].now) \in 0..Limit
           /\ DOMAIN buckets' = Retained(call[h].now) \cup {call[h].key}
           /\ Retained(call[h].now) \subseteq DOMAIN buckets
           /\ buckets'[call[h].key] =
                 [tokens |-> IF Refilled(call[h].key, call[h].now) > 0
                             THEN Refilled(call[h].key, call[h].now) - 1 ELSE 0,
                  last |-> call[h].now]
           /\ \A j \in Retained(call[h].now) \ {call[h].key} : buckets'[j] = buckets[j]
           /\ buckets' = [j \in DOMAIN buckets' |-> buckets'[j]]
<1>1. /\ call[h].key \in Keys /\ call[h].now <= time /\ call[h].now \in 0..MaxClock /\ time \in Nat
  BY GateAssumption DEF TakeToken, CallInv, GateTypeOK, Client
<1>2. call[h].now \in 0..time
  BY <1>1
<1>3. Refilled(call[h].key, call[h].now) \in 0..Limit
  BY <1>1, RefilledType
<1>4. Retained(call[h].now) \subseteq DOMAIN buckets
  BY DEF Retained
<1>5. QED BY <1>1, <1>2, <1>3, <1>4 DEF TakeToken

(* Every step keeps the types, the requests and the times of the buckets. *)
LEMMA GateTypeStep ==
    ASSUME GateTypeOK, CallInv, BucketInv, [GateNext]_gateVars
    PROVE  GateTypeOK' /\ CallInv' /\ BucketInv'
<1>0. time \in Nat
  BY GateAssumption DEF GateTypeOK
<1>1. CASE UNCHANGED gateVars
  BY <1>1 DEF gateVars, GateTypeOK, CallInv, BucketInv
<1>2. ASSUME NEW k \in Keys, CreateKey(k) \/ RevokeKey(k)
      PROVE  GateTypeOK' /\ CallInv' /\ BucketInv'
  <2>1. /\ UNCHANGED <<time, buckets, call, followed, window, admitted, waited, unmetered>>
        /\ keys' \in [Keys -> {"none", "active", "revoked"}]
        /\ \A j \in Keys : /\ keys[j] # "none" => keys'[j] # "none"
                           /\ keys[j] = "revoked" => keys'[j] = "revoked"
    BY <1>2 DEF CreateKey, RevokeKey, GateTypeOK
  <2>2. QED BY <2>1 DEF GateTypeOK, CallInv, BucketInv
<1>3. ASSUME NEW h \in Clients,
             UNCHANGED <<time, keys, buckets, followed, window>>,
             admitted' \in Nat, waited' \in Nat, unmetered' \in 0..MaxUnmetered,
             call' \in [Clients -> Client],
             \A g \in Clients \ {h} : call'[g] = call[g],
             call'[h].now <= time,
             call'[h].at # "idle" =>
                /\ call'[h].key \in Keys /\ keys[call'[h].key] # "none"
                /\ call'[h].late =>
                      keys[call'[h].key] = "revoked" /\ call'[h].at \notin {"take", "serve"}
      PROVE  GateTypeOK' /\ CallInv' /\ BucketInv'
  <2>1. GateTypeOK'
    BY <1>3 DEF GateTypeOK
  <2>2. BucketInv'
    BY <1>3 DEF BucketInv
  <2>3. CallInv'
    BY <1>3 DEF CallInv
  <2>4. QED BY <2>1, <2>2, <2>3
<1>4. ASSUME NEW h \in Clients, NEW k \in Keys, StartRequest(h, k)
      PROVE  GateTypeOK' /\ CallInv' /\ BucketInv'
  <2>1. /\ call' \in [Clients -> Client] /\ call'[h].at = "resolve" /\ call'[h].key = k
        /\ call'[h].now = call[h].now /\ call'[h].late = (keys[k] = "revoked")
        /\ \A g \in Clients \ {h} : call'[g] = call[g]
    BY <1>4 DEF StartRequest, GateTypeOK, Client, ClientStep
  <2>2. keys[k] # "none"
    BY <1>4 DEF StartRequest
  <2>3. /\ UNCHANGED <<time, keys, buckets, followed, window, admitted, waited, unmetered>>
        /\ admitted \in Nat /\ waited \in Nat /\ unmetered \in 0..MaxUnmetered
        /\ call[h].now <= time
    BY <1>4 DEF StartRequest, GateTypeOK, CallInv
  <2>4. QED BY <1>3, <2>1, <2>2, <2>3
<1>5. ASSUME NEW h \in Clients, ResolveKey(h)
      PROVE  GateTypeOK' /\ CallInv' /\ BucketInv'
  <2>1. /\ call[h].at = "resolve" /\ call[h].key \in Keys /\ keys[call[h].key] # "none"
        /\ call[h].now <= time
        /\ call[h].late => keys[call[h].key] = "revoked"
    BY <1>5 DEF ResolveKey, CallInv
  <2>2. /\ UNCHANGED <<time, keys, buckets, followed, window, admitted, waited>>
        /\ unmetered' \in 0..MaxUnmetered
    BY <1>5, GateAssumption DEF ResolveKey, GateTypeOK
  <2>3. CASE keys[call[h].key] = "active" /\ call' = [call EXCEPT ![h].at = "take", ![h].now = time]
    <3>1. /\ call' \in [Clients -> Client] /\ call'[h].at = "take" /\ call'[h].key = call[h].key
          /\ call'[h].now = time /\ call'[h].late = call[h].late
          /\ \A g \in Clients \ {h} : call'[g] = call[g]
      BY ZenonT(40), <2>3 DEF GateTypeOK, Client, ClientStep
    <3>2. QED BY <1>0, <1>3, <2>1, <2>2, <2>3, <3>1 DEF GateTypeOK
  <2>4. CASE GoTo(h, "extract")
    <3>1. /\ call' \in [Clients -> Client] /\ call'[h].at = "extract"
          /\ call'[h].key = call[h].key /\ call'[h].now = call[h].now /\ call'[h].late = call[h].late
          /\ \A g \in Clients \ {h} : call'[g] = call[g]
      BY <2>4, GoToEffect DEF ClientStep
    <3>2. QED BY <1>3, <2>1, <2>2, <3>1 DEF GateTypeOK
  <2>5. QED BY <1>5, <2>3, <2>4 DEF ResolveKey
<1>6. ASSUME NEW h \in Clients, GoTo(h, "serve") \/ Hang(h),
             GoTo(h, "serve") => call[h].at # "idle" /\ ~ call[h].late,
             UNCHANGED <<time, keys, followed, window, unmetered>>
      PROVE  /\ call' \in [Clients -> Client] /\ CallInv'
  <2>1. CASE GoTo(h, "serve")
    <3>1. /\ call' \in [Clients -> Client] /\ call'[h].at = "serve"
          /\ call'[h].key = call[h].key /\ call'[h].now = call[h].now /\ call'[h].late = call[h].late
          /\ \A g \in Clients \ {h} : call'[g] = call[g]
      BY <2>1, GoToEffect DEF ClientStep
    <3>2. QED BY <1>6, <2>1, <3>1 DEF CallInv
  <2>2. CASE Hang(h)
    BY <1>0, <1>6, <2>2, HangEffect DEF CallInv
  <2>3. QED BY <1>6, <2>1, <2>2
<1>7. ASSUME NEW h \in Clients, TakeToken(h)
      PROVE  GateTypeOK' /\ CallInv' /\ BucketInv'
  <2> DEFINE k == call[h].key
             now == call[h].now
  <2>0. /\ k \in Keys /\ now \in 0..time /\ now \in 0..MaxClock
        /\ Refilled(k, now) \in 0..Limit
        /\ DOMAIN buckets' = Retained(now) \cup {k}
        /\ Retained(now) \subseteq DOMAIN buckets
        /\ buckets'[k] = [tokens |-> IF Refilled(k, now) > 0 THEN Refilled(k, now) - 1 ELSE 0,
                          last |-> now]
        /\ \A j \in Retained(now) \ {k} : buckets'[j] = buckets[j]
        /\ buckets' = [j \in DOMAIN buckets' |-> buckets'[j]]
    BY <1>7, TakeEffect
  <2>1. /\ UNCHANGED <<time, keys, followed, window, unmetered>>
        /\ GoTo(h, "serve") \/ Hang(h)
        /\ call[h].at # "idle" /\ ~ call[h].late
    BY <1>7 DEF TakeToken, CallInv, GateTypeOK, Client
  <2>2. call' \in [Clients -> Client] /\ CallInv'
    BY <1>6, <2>1
  <2>3. admitted' \in Nat /\ waited' \in Nat
    <3>1. admitted' = admitted + (IF Watched(k) THEN 1 ELSE 0) \/ admitted' = admitted
      BY <1>7 DEF TakeToken, Admit
    <3>2. waited' = waited + (IF Watched(k) THEN time - now ELSE 0)
      BY <1>7 DEF TakeToken
    <3>3. time - now \in Nat /\ admitted \in Nat /\ waited \in Nat
      BY <1>0, <2>0 DEF GateTypeOK
    <3> HIDE DEF k, now
    <3>4. QED BY <3>1, <3>2, <3>3
  <2>4. /\ DOMAIN buckets' \subseteq Keys
        /\ \A j \in DOMAIN buckets' : buckets'[j] \in Bucket /\ buckets'[j].last <= time
    <3> HIDE DEF k, now
    <3>1. buckets'[k] \in Bucket /\ buckets'[k].last <= time
      <4>1. (IF Refilled(k, now) > 0 THEN Refilled(k, now) - 1 ELSE 0) \in 0..Limit
        BY <2>0, GateAssumption
      <4>2. now \in 0..MaxClock /\ now <= time
        BY <1>0, <2>0
      <4>3. QED BY <2>0, <4>1, <4>2 DEF Bucket
    <3>2. \A j \in Retained(now) \ {k} : buckets'[j] \in Bucket /\ buckets'[j].last <= time
      BY <2>0 DEF GateTypeOK, BucketInv
    <3>3. QED BY <2>0, <3>1, <3>2 DEF GateTypeOK
  <2>5. buckets' \in [DOMAIN buckets' -> Bucket]
    BY <2>0, <2>4
  <2>6. GateTypeOK'
    BY <2>1, <2>2, <2>3, <2>4, <2>5 DEF GateTypeOK
  <2>7. BucketInv'
    BY <2>1, <2>4 DEF BucketInv
  <2>8. QED BY <2>2, <2>6, <2>7
<1>8. ASSUME NEW h \in Clients, FindKey(h)
      PROVE  GateTypeOK' /\ CallInv' /\ BucketInv'
  <2>1. /\ UNCHANGED <<time, keys, buckets, followed, window, waited, unmetered>>
        /\ call[h].at # "idle" /\ (keys[call[h].key] = "active" => ~ call[h].late)
    BY <1>8 DEF FindKey, CallInv
  <2>2. admitted' \in Nat
    BY <1>8 DEF FindKey, Admit, GateTypeOK
  <2>3. call' \in [Clients -> Client] /\ CallInv'
    <3>1. CASE keys[call[h].key] = "active"
      <4>1. GoTo(h, "serve") /\ ~ call[h].late
        BY <1>8, <2>1, <3>1 DEF FindKey
      <4>2. QED BY <1>6, <2>1, <4>1
    <3>2. CASE keys[call[h].key] # "active"
      <4>1. Hang(h)
        BY <1>8, <3>2 DEF FindKey
      <4>2. call'[h].at = "idle" /\ call'[h].now <= time
        BY <1>0, <4>1, HangEffect
      <4>3. QED BY <2>1, <4>1, <4>2, HangEffect DEF CallInv
    <3>3. QED BY <3>1, <3>2
  <2>4. QED BY <2>1, <2>2, <2>3 DEF GateTypeOK, BucketInv
<1>9. ASSUME NEW h \in Clients, EndRequest(h)
      PROVE  GateTypeOK' /\ CallInv' /\ BucketInv'
  BY <1>0, <1>9, <1>3, HangEffect DEF EndRequest, GateTypeOK
<1>10. CASE TickGate
  <2>1. /\ UNCHANGED <<keys, buckets, call, followed, window, admitted, waited, unmetered>>
        /\ time' = time + 1 /\ time' \in 0..MaxClock
    BY <1>0, <1>10, GateAssumption DEF TickGate
  <2>2. \A n \in Int : n <= time => n <= time'
    BY <1>0, <2>1
  <2>3. /\ \A k \in DOMAIN buckets : buckets[k].last \in Int
        /\ \A h \in Clients : call[h].now \in Int
    BY DEF GateTypeOK, Bucket, Client
  <2>4. QED BY <2>1, <2>2, <2>3 DEF GateTypeOK, CallInv, BucketInv
<1>11. QED
  BY <1>1, <1>2, <1>4, <1>5, <1>7, <1>8, <1>9, <1>10 DEF GateNext

(* The sizes that the account of a key adds up. *)
LEMMA QuotaType ==
    ASSUME GateTypeOK, BucketInv
    PROVE  /\ time \in Nat /\ window \in Nat /\ admitted \in Nat /\ waited \in Nat
           /\ unmetered \in Nat /\ Limit \in Nat /\ Limit > 0
           /\ Credit(followed) \in 0..Limit
           /\ Unmetered \in SUBSET Clients /\ IsFiniteSet(Unmetered)
           /\ Cardinality(Unmetered) \in Nat
<1>1. /\ time \in Nat /\ window \in Nat /\ admitted \in Nat /\ waited \in Nat
      /\ unmetered \in Nat /\ Limit \in Nat /\ Limit > 0
  BY GateAssumption DEF GateTypeOK
<1>2. Credit(followed) \in 0..Limit
  <2>1. CASE followed \in DOMAIN buckets
    <3>1. /\ buckets[followed].tokens \in 0..Limit /\ buckets[followed].last \in 0..MaxClock
          /\ buckets[followed].last <= time
      BY <2>1 DEF GateTypeOK, BucketInv, Bucket
    <3>2. buckets[followed].tokens + (time - buckets[followed].last) \in Nat
      BY <1>1, <3>1, GateAssumption
    <3>3. QED BY <1>1, <2>1, <3>2 DEF Credit, Less
  <2>2. CASE followed \notin DOMAIN buckets
    BY <1>1, <2>2 DEF Credit
  <2>3. QED BY <2>1, <2>2
<1>3. Unmetered \in SUBSET Clients
  BY DEF Unmetered
<1>4. IsFiniteSet(Unmetered) /\ Cardinality(Unmetered) \in Nat
  BY <1>3, GateAssumption, PartSize
<1>5. QED BY <1>1, <1>2, <1>3, <1>4

(* The lesser of two. *)
LEMMA LessType ==
    ASSUME NEW a \in Nat, NEW b \in Nat
    PROVE  Less(a, b) \in 0..b /\ Less(a, b) <= a
BY DEF Less

(* A bucket holds between nothing and the limit after the step, too. *)
LEMMA QuotaTypeNext ==
    ASSUME GateTypeOK', BucketInv'
    PROVE  Credit(followed)' \in 0..Limit
<1>1. time' \in Nat /\ Limit \in Nat
  BY GateAssumption DEF GateTypeOK
<1>2. CASE followed' \in DOMAIN buckets'
  <2>1. PICK tokens \in 0..Limit, last \in 0..MaxClock :
            buckets'[followed'].tokens = tokens /\ buckets'[followed'].last = last /\ last <= time'
    BY <1>2 DEF GateTypeOK, BucketInv, Bucket
  <2>2. PICK now \in Nat : now = time'
    BY <1>1
  <2>3. tokens \in Nat /\ last \in Nat /\ last <= now
    BY <1>1, <2>1, <2>2, GateAssumption
  <2>4. Less(tokens + (now - last), Limit) \in 0..Limit
    <3>1. now - last \in Nat
      BY <2>3
    <3>2. tokens + (now - last) \in Nat
      BY <2>3, <3>1
    <3>3. QED BY <1>1, <3>2, LessType
  <2>5. Credit(followed)' = Less(tokens + (now - last), Limit)
    BY <1>2, <2>1, <2>2 DEF Credit
  <2>6. QED BY <2>4, <2>5
<1>3. CASE followed' \notin DOMAIN buckets'
  <2>1. Credit(followed)' = Limit
    BY <1>3 DEF Credit
  <2>2. QED BY <1>1, <2>1
<1>4. QED BY <1>2, <1>3

(* The requests of the others stay where the step of one leaves them. *)
LEMMA UnmeteredMoves ==
    ASSUME NEW h \in Clients, UNCHANGED keys, \A g \in Clients \ {h} : call'[g] = call[g]
    PROVE  Unmetered' \ {h} = Unmetered \ {h}
BY DEF Unmetered

(* A check finds no more than the bucket could have had by the time it is     *)
(* its turn, and what it drops had as much as a new one.                     *)
LEMMA RefilledPaid ==
    ASSUME GateTypeOK, BucketInv, NEW now \in 0..time, now \in 0..MaxClock
    PROVE  /\ Refilled(followed, now) \in 0..Limit
           /\ Refilled(followed, now) <= Credit(followed)
           /\ followed \in (DOMAIN buckets) \ Retained(now) => Credit(followed) = Limit
<1>1. Refilled(followed, now) \in 0..Limit
  BY RefilledType DEF GateTypeOK
<1>2. CASE followed \notin DOMAIN buckets
  BY <1>1, <1>2, GateAssumption DEF Credit
<1>3. CASE followed \in DOMAIN buckets
  <2>1. PICK tokens \in 0..Limit, last \in 0..MaxClock :
            buckets[followed].tokens = tokens /\ buckets[followed].last = last /\ last <= time
    BY <1>3 DEF GateTypeOK, BucketInv, Bucket
  <2>2. time \in Nat /\ now \in Nat /\ now <= time /\ last \in Nat /\ tokens \in Nat
        /\ Limit \in Nat
    BY GateAssumption DEF GateTypeOK
  <2>3. Credit(followed) = Less(tokens + (time - last), Limit)
    BY <1>3, <2>1 DEF Credit
  <2>4. Since(now, last) \in Nat /\ Since(now, last) <= time - last
    BY <2>1, <2>2 DEF Since
  <2>5. CASE followed \in Retained(now)
    <3>1. Refilled(followed, now) = Less(tokens + Since(now, last), Limit)
      BY <2>1, <2>5 DEF Refilled
    <3>2. QED BY <1>1, <2>2, <2>3, <2>4, <2>5, <3>1 DEF Less
  <2>6. CASE followed \notin Retained(now)
    <3>1. ~ (Since(now, last) < IdleTime)
      BY <1>3, <2>1, <2>6 DEF Retained
    <3>2. IdleTime \in Nat /\ IdleTime >= Limit
      BY GateAssumption
    <3>3. Credit(followed) = Limit
      BY <2>1, <2>2, <2>3, <2>4, <3>1, <3>2 DEF Less
    <3>4. QED BY <1>1, <2>2, <3>3
  <2>7. QED BY <2>5, <2>6
<1>4. QED BY <1>2, <1>3

(* A check of the key that is followed takes what it finds, and the time it   *)
(* waited at the mutex; one of another key takes nothing.                    *)
LEMMA TakePaid ==
    ASSUME GateTypeOK, CallInv, BucketInv, NEW h \in Clients, TakeToken(h)
    PROVE  /\ call[h].key = followed =>
                 \E tokens \in 0..Limit :
                    /\ tokens <= Credit(followed)
                    /\ Credit(followed)' <= (IF tokens > 0 THEN tokens - 1 ELSE 0) + (time - call[h].now)
                    /\ tokens > 0 => GoTo(h, "serve") /\ Admit(followed)
                    /\ tokens = 0 => Hang(h) /\ admitted' = admitted
           /\ call[h].key # followed => Credit(followed)' = Credit(followed)
<1> DEFINE k == call[h].key
           now == call[h].now
<1>0. /\ k \in Keys /\ now \in 0..time /\ now \in 0..MaxClock
      /\ Refilled(k, now) \in 0..Limit
      /\ DOMAIN buckets' = Retained(now) \cup {k}
      /\ Retained(now) \subseteq DOMAIN buckets
      /\ buckets'[k] = [tokens |-> IF Refilled(k, now) > 0 THEN Refilled(k, now) - 1 ELSE 0,
                        last |-> now]
      /\ \A j \in Retained(now) \ {k} : buckets'[j] = buckets[j]
  BY TakeEffect
<1>1. UNCHANGED <<time, followed>>
  BY DEF TakeToken
<1>2. time \in Nat /\ Limit \in Nat
  BY GateAssumption DEF GateTypeOK
<1>3. /\ Refilled(k, now) > 0 => GoTo(h, "serve") /\ Admit(k)
      /\ ~ (Refilled(k, now) > 0) => Hang(h) /\ admitted' = admitted
  BY DEF TakeToken
<1> HIDE DEF k, now
<1>4. CASE k = followed
  <2>1. PICK tokens \in 0..Limit : tokens = Refilled(k, now)
    BY <1>0
  <2>2. tokens <= Credit(followed)
    BY <1>0, <1>4, <2>1, RefilledPaid
  <2>3. buckets'[followed].tokens = (IF tokens > 0 THEN tokens - 1 ELSE 0)
        /\ buckets'[followed].last = now /\ followed \in DOMAIN buckets'
    BY <1>0, <1>4, <2>1
  <2>4. Credit(followed)' = Less((IF tokens > 0 THEN tokens - 1 ELSE 0) + (time - now), Limit)
    BY <1>1, <2>3 DEF Credit
  <2>5. (IF tokens > 0 THEN tokens - 1 ELSE 0) + (time - now) \in Nat
    BY <1>0, <1>2
  <2>6. Credit(followed)' <= (IF tokens > 0 THEN tokens - 1 ELSE 0) + (time - now)
    BY <1>2, <2>4, <2>5 DEF Less
  <2>7. /\ tokens > 0 => GoTo(h, "serve") /\ Admit(followed)
        /\ tokens = 0 => Hang(h) /\ admitted' = admitted
    BY <1>3, <1>4, <2>1
  <2>8. QED BY <1>4, <2>2, <2>6, <2>7 DEF k, now
<1>5. ASSUME k # followed
      PROVE  Credit(followed)' = Credit(followed)
  <2>1. CASE followed \in Retained(now)
    BY <1>0, <1>1, <1>5, <2>1 DEF Credit
  <2>2. CASE followed \notin Retained(now)
    <3>1. followed \notin DOMAIN buckets'
      BY <1>0, <1>5, <2>2
    <3>2. Credit(followed)' = Limit
      BY <1>1, <3>1 DEF Credit
    <3>3. CASE followed \in DOMAIN buckets
      BY <1>0, <2>2, <3>2, <3>3, RefilledPaid
    <3>4. CASE followed \notin DOMAIN buckets
      BY <3>2, <3>4 DEF Credit
    <3>5. QED BY <3>3, <3>4
  <2>3. QED BY <2>1, <2>2
<1>6. QED BY <1>4, <1>5 DEF k

(* What a step must leave of the account, when the window stays as it is. *)
LEMMA QuotaKept ==
    ASSUME GateTypeOK, BucketInv, QuotaInv, GateTypeOK', BucketInv',
           UNCHANGED <<time, window, followed, waited>>,
           Credit(followed)' = Credit(followed),
           admitted' = admitted \/ (Watched(followed) /\ admitted' = admitted + 1),
           Cardinality(Unmetered)' + admitted' + unmetered
              <= Cardinality(Unmetered) + admitted + unmetered',
           Cardinality(Unmetered)' + unmetered <= Cardinality(Unmetered) + unmetered'
    PROVE  QuotaInv'
<1>1. /\ time \in Nat /\ window \in Nat /\ admitted \in Nat /\ waited \in Nat
      /\ unmetered \in Nat /\ Limit \in Nat
      /\ Credit(followed) \in 0..Limit /\ Cardinality(Unmetered) \in Nat
  BY QuotaType
<1>2. admitted' \in Nat /\ unmetered' \in Nat /\ Cardinality(Unmetered)' \in Nat
  <2>1. admitted' \in Nat /\ unmetered' \in Nat
    BY GateAssumption DEF GateTypeOK
  <2>2. Unmetered' \in SUBSET Clients
    BY DEF Unmetered
  <2>3. Cardinality(Unmetered') \in Nat
    BY <2>2, GateAssumption, PartSize
  <2>4. QED BY <2>1, <2>3
<1>3. Since(time, window)' = Since(time, window) /\ Since(time, window) \in Nat
  BY <1>1 DEF Since
<1>4. /\ time < window => admitted = 0
      /\ Cardinality(Unmetered) <= unmetered
      /\ admitted + Credit(followed) + Cardinality(Unmetered)
            <= Limit + Since(time, window) + waited + unmetered
  BY DEF QuotaInv
<1>5. time' < window' => admitted' = 0
  BY <1>1, <1>4 DEF Watched
<1>6. Cardinality(Unmetered)' <= unmetered'
  BY <1>1, <1>2, <1>4
<1>7. admitted' + Credit(followed) + Cardinality(Unmetered)'
         <= Limit + Since(time, window) + waited + unmetered'
  <2>1. Credit(followed) \in Nat
    BY <1>1
  <2>2. QED BY <1>1, <1>2, <1>3, <1>4, <2>1
<1>8. QED BY <1>3, <1>5, <1>6, <1>7 DEF QuotaInv

(* Every step keeps the account of the key that is followed. *)
LEMMA QuotaStep ==
    ASSUME GateTypeOK, CallInv, BucketInv, QuotaInv, [GateNext]_gateVars
    PROVE  QuotaInv'
<1>0. GateTypeOK' /\ CallInv' /\ BucketInv'
  BY GateTypeStep
<1>1. /\ time \in Nat /\ window \in Nat /\ admitted \in Nat /\ waited \in Nat
      /\ unmetered \in Nat /\ Limit \in Nat /\ Limit > 0
      /\ Credit(followed) \in 0..Limit /\ Credit(followed) \in Nat
      /\ IsFiniteSet(Unmetered) /\ Cardinality(Unmetered) \in Nat
  <2>1. QED BY QuotaType
<1>2. /\ Since(time, window) \in Nat
      /\ time < window => admitted = 0
      /\ Cardinality(Unmetered) <= unmetered
      /\ admitted + Credit(followed) + Cardinality(Unmetered)
            <= Limit + Since(time, window) + waited + unmetered
  BY <1>1 DEF QuotaInv, Since
<1>3. CASE UNCHANGED gateVars
  BY <1>3 DEF gateVars, QuotaInv, Credit, Unmetered, Since, Less
<1>4. ASSUME NEW k \in Keys, CreateKey(k) \/ RevokeKey(k)
      PROVE  QuotaInv'
  <2>1. /\ UNCHANGED <<time, buckets, call, followed, window, admitted, waited, unmetered>>
        /\ \A j \in Keys : keys'[j] # "revoked" /\ keys[j] # "none" => keys[j] # "revoked"
    BY <1>4 DEF CreateKey, RevokeKey, GateTypeOK
  <2>2. Credit(followed)' = Credit(followed)
    BY <2>1 DEF Credit
  <2>3. Unmetered' \in SUBSET Unmetered
    BY <2>1 DEF Unmetered, CallInv
  <2>4. Cardinality(Unmetered') \in Nat /\ Cardinality(Unmetered') <= Cardinality(Unmetered)
    BY <1>1, <2>3, PartSize
  <2>5. /\ Cardinality(Unmetered)' + admitted' + unmetered
              <= Cardinality(Unmetered) + admitted + unmetered'
        /\ Cardinality(Unmetered)' + unmetered <= Cardinality(Unmetered) + unmetered'
    BY <1>1, <2>1, <2>4
  <2>6. QED BY <1>0, <2>1, <2>2, <2>5, QuotaKept
<1>5. ASSUME NEW h \in Clients,
             UNCHANGED <<time, keys, buckets, followed, window, admitted, waited, unmetered>>,
             \A g \in Clients \ {h} : call'[g] = call[g],
             h \in Unmetered' => h \in Unmetered
      PROVE  QuotaInv'
  <2>1. Credit(followed)' = Credit(followed)
    BY <1>5 DEF Credit
  <2>2. Unmetered' \in SUBSET Unmetered
    BY <1>5, UnmeteredMoves
  <2>3. Cardinality(Unmetered') \in Nat /\ Cardinality(Unmetered') <= Cardinality(Unmetered)
    BY <1>1, <2>2, PartSize
  <2>4. /\ Cardinality(Unmetered)' + admitted' + unmetered
              <= Cardinality(Unmetered) + admitted + unmetered'
        /\ Cardinality(Unmetered)' + unmetered <= Cardinality(Unmetered) + unmetered'
    BY <1>1, <1>5, <2>3
  <2>5. QED BY <1>0, <1>5, <2>1, <2>4, QuotaKept
<1>6. ASSUME NEW h \in Clients, NEW k \in Keys, StartRequest(h, k)
      PROVE  QuotaInv'
  <2>1. /\ UNCHANGED <<time, keys, buckets, followed, window, admitted, waited, unmetered>>
        /\ \A g \in Clients \ {h} : call'[g] = call[g]
        /\ call'[h].at = "resolve"
    BY <1>6 DEF StartRequest, GateTypeOK, Client
  <2>2. h \notin Unmetered'
    BY <2>1 DEF Unmetered
  <2>3. QED BY <1>5, <2>1, <2>2
<1>7. ASSUME NEW h \in Clients, EndRequest(h)
      PROVE  QuotaInv'
  <2>1. /\ UNCHANGED <<time, keys, buckets, followed, window, admitted, waited, unmetered>>
        /\ \A g \in Clients \ {h} : call'[g] = call[g]
        /\ call'[h].at = "idle"
    BY <1>7, HangEffect DEF EndRequest
  <2>2. h \notin Unmetered'
    BY <2>1 DEF Unmetered
  <2>3. QED BY <1>5, <2>1, <2>2
<1>8. ASSUME NEW h \in Clients, ResolveKey(h)
      PROVE  QuotaInv'
  <2>1. /\ UNCHANGED <<time, keys, buckets, followed, window, admitted, waited>>
        /\ call[h].at = "resolve"
    BY <1>8 DEF ResolveKey
  <2>2. ASSUME call' = [call EXCEPT ![h].at = "take", ![h].now = time], UNCHANGED unmetered
        PROVE  QuotaInv'
    <3>1. call'[h].at = "take" /\ \A g \in Clients \ {h} : call'[g] = call[g]
      BY <2>2 DEF GateTypeOK, Client
    <3>2. h \notin Unmetered'
      BY <3>1 DEF Unmetered
    <3>3. QED BY <1>5, <2>1, <2>2, <3>1, <3>2
  <2>3. ASSUME GoTo(h, "extract"), keys[call[h].key] # "active", UNCHANGED unmetered
        PROVE  QuotaInv'
    <3>1. call'[h].key = call[h].key /\ \A g \in Clients \ {h} : call'[g] = call[g]
      BY <2>3, GoToEffect DEF ClientStep
    <3>2. keys[call[h].key] = "revoked"
      BY <2>1, <2>3 DEF CallInv, GateTypeOK
    <3>3. h \notin Unmetered'
      BY <2>1, <3>1, <3>2 DEF Unmetered
    <3>4. QED BY <1>5, <2>1, <2>3, <3>1, <3>3
  <2>4. ASSUME GoTo(h, "extract"), unmetered' = unmetered + 1
        PROVE  QuotaInv'
    <3>1. \A g \in Clients \ {h} : call'[g] = call[g]
      BY <2>4, GoToEffect DEF ClientStep
    <3>2. Credit(followed)' = Credit(followed)
      BY <2>1 DEF Credit
    <3>3. Unmetered' \in SUBSET (Unmetered \cup {h})
      BY <2>1, <3>1, UnmeteredMoves
    <3>4. /\ IsFiniteSet(Unmetered \cup {h}) /\ Cardinality(Unmetered \cup {h}) \in Nat
          /\ Cardinality(Unmetered \cup {h}) <= Cardinality(Unmetered) + 1
      BY <1>1, SizeJoined
    <3>5. /\ Cardinality(Unmetered') \in Nat
          /\ Cardinality(Unmetered') <= Cardinality(Unmetered \cup {h})
      BY <3>3, <3>4, PartSize
    <3>6. /\ Cardinality(Unmetered)' + admitted' + unmetered
                <= Cardinality(Unmetered) + admitted + unmetered'
          /\ Cardinality(Unmetered)' + unmetered <= Cardinality(Unmetered) + unmetered'
      BY <1>1, <2>1, <2>4, <3>4, <3>5
    <3>7. QED BY <1>0, <2>1, <3>2, <3>6, QuotaKept
  <2>5. QED BY <1>8, <2>2, <2>3, <2>4 DEF ResolveKey
<1>9. ASSUME NEW h \in Clients, FindKey(h)
      PROVE  QuotaInv'
  <2>1. /\ UNCHANGED <<time, keys, buckets, followed, window, waited, unmetered>>
        /\ call[h].at = "extract"
    BY <1>9 DEF FindKey
  <2>2. CASE keys[call[h].key] = "active"
    <3>1. GoTo(h, "serve") /\ Admit(call[h].key)
      BY <1>9, <2>2 DEF FindKey
    <3>2. call'[h].at = "serve" /\ \A g \in Clients \ {h} : call'[g] = call[g]
      BY <3>1, GoToEffect DEF ClientStep
    <3>3. h \in Unmetered /\ h \notin Unmetered'
      BY <2>1, <2>2, <3>2 DEF Unmetered
    <3>4. Unmetered' = Unmetered \ {h}
      BY <2>1, <3>2, <3>3, UnmeteredMoves
    <3>5. Cardinality(Unmetered') = Cardinality(Unmetered) - 1
      BY <1>1, <3>3, <3>4, SizeLess
    <3>6. admitted' = admitted \/ (Watched(followed) /\ admitted' = admitted + 1)
      BY <1>1, <3>1 DEF Admit, Watched
    <3>7. Credit(followed)' = Credit(followed)
      BY <2>1 DEF Credit
    <3>8. /\ Cardinality(Unmetered)' + admitted' + unmetered
                <= Cardinality(Unmetered) + admitted + unmetered'
          /\ Cardinality(Unmetered)' + unmetered <= Cardinality(Unmetered) + unmetered'
      BY <1>1, <2>1, <3>5, <3>6
    <3>9. QED BY <1>0, <2>1, <3>6, <3>7, <3>8, QuotaKept
  <2>3. CASE keys[call[h].key] # "active"
    <3>1. Hang(h) /\ UNCHANGED admitted
      BY <1>9, <2>3 DEF FindKey
    <3>2. call'[h].at = "idle" /\ \A g \in Clients \ {h} : call'[g] = call[g]
      BY <3>1, HangEffect
    <3>3. h \notin Unmetered'
      BY <3>2 DEF Unmetered
    <3>4. QED BY <1>5, <2>1, <3>1, <3>2, <3>3
  <2>4. QED BY <2>2, <2>3
<1>10. ASSUME NEW h \in Clients, TakeToken(h)
       PROVE  QuotaInv'
  <2>1. /\ UNCHANGED <<time, keys, followed, window, unmetered>>
        /\ call[h].at = "take"
        /\ waited' = waited + (IF Watched(call[h].key) THEN time - call[h].now ELSE 0)
        /\ GoTo(h, "serve") \/ Hang(h)
        /\ Admit(call[h].key) \/ admitted' = admitted
    BY <1>10 DEF TakeToken
  <2>2. Unmetered' = Unmetered
    <3>1. call'[h].at # "extract" /\ \A g \in Clients \ {h} : call'[g] = call[g]
      BY <2>1, GoToEffect, HangEffect DEF ClientStep
    <3>2. h \notin Unmetered /\ h \notin Unmetered'
      BY <2>1, <3>1 DEF Unmetered
    <3>3. QED BY <2>1, <3>1, <3>2, UnmeteredMoves
  <2>3. call[h].now \in 0..time
    BY <1>10, TakeEffect
  <2>4. Since(time, window)' = Since(time, window)
    BY <2>1 DEF Since
  <2>5. ASSUME call[h].key # followed
        PROVE  QuotaInv'
    <3>1. Credit(followed)' = Credit(followed)
      BY <1>10, <2>5, TakePaid
    <3>2. waited' = waited /\ admitted' = admitted
      BY <1>1, <2>1, <2>5 DEF Watched, Admit
    <3>3. QED BY <1>2, <2>1, <2>2, <2>4, <3>1, <3>2 DEF QuotaInv
  <2>6. ASSUME call[h].key = followed, ~ (time < window)
        PROVE  QuotaInv'
    <3>1. PICK tokens \in 0..Limit :
             /\ tokens <= Credit(followed)
             /\ Credit(followed)' <= (IF tokens > 0 THEN tokens - 1 ELSE 0) + (time - call[h].now)
             /\ tokens > 0 => Admit(followed)
             /\ tokens = 0 => admitted' = admitted
      BY <1>10, <2>6, TakePaid
    <3>2. Watched(followed) /\ waited' = waited + (time - call[h].now)
      BY <1>1, <2>1, <2>6 DEF Watched
    <3>3. admitted' = admitted + (IF tokens > 0 THEN 1 ELSE 0)
      BY <1>1, <3>1, <3>2 DEF Admit
    <3>4. Credit(followed)' \in Nat
      <4>1. Credit(followed)' \in 0..Limit
        BY <1>0, QuotaTypeNext
      <4>2. QED BY <1>1, <4>1
    <3>5. admitted' + Credit(followed)' + Cardinality(Unmetered)
             <= Limit + Since(time, window) + waited' + unmetered
      <4>1. time - call[h].now \in Nat
        BY <1>1, <2>3
      <4>2. QED BY <1>1, <1>2, <3>1, <3>2, <3>3, <3>4, <4>1
    <3>6. QED BY <1>2, <2>1, <2>2, <2>4, <2>6, <3>5 DEF QuotaInv
  <2>7. ASSUME call[h].key = followed, time < window
        PROVE  QuotaInv'
    <3>1. waited' = waited /\ admitted' = admitted
      BY <1>1, <2>1, <2>7 DEF Watched, Admit
    <3>2. Credit(followed)' \in 0..Limit
      BY <1>0, QuotaTypeNext
    <3>3. admitted' + Credit(followed)' + Cardinality(Unmetered)
             <= Limit + Since(time, window) + waited' + unmetered
      BY <1>1, <1>2, <2>7, <3>1, <3>2
    <3>4. QED BY <1>2, <2>1, <2>2, <2>4, <3>1, <3>3 DEF QuotaInv
  <2>8. QED BY <2>5, <2>6, <2>7
<1>11. CASE TickGate
  <2>1. /\ UNCHANGED <<keys, buckets, call, followed, window, admitted, waited, unmetered>>
        /\ time' = time + 1
    BY <1>11 DEF TickGate
  <2>2. Unmetered' = Unmetered
    BY <2>1 DEF Unmetered
  <2>3. Credit(followed)' \in 0..Limit /\ Credit(followed)' <= Credit(followed) + 1
    <3>1. CASE followed \in DOMAIN buckets
      <4>1. PICK tokens \in 0..Limit, last \in 0..MaxClock :
                buckets[followed].tokens = tokens /\ buckets[followed].last = last /\ last <= time
        BY <3>1 DEF GateTypeOK, BucketInv, Bucket
      <4>2. Credit(followed) = Less(tokens + (time - last), Limit)
        BY <3>1, <4>1 DEF Credit
      <4>3. buckets'[followed'].tokens = tokens /\ buckets'[followed'].last = last
            /\ followed' \in DOMAIN buckets'
        BY <2>1, <3>1, <4>1
      <4>4. Credit(followed)' = Less(tokens + (time' - last), Limit)
        BY <4>3 DEF Credit
      <4>5. tokens \in Nat /\ last \in Nat
        BY <1>1, <4>1, GateAssumption
      <4>6. QED BY <1>1, <2>1, <4>1, <4>2, <4>4, <4>5 DEF Less
    <3>2. CASE followed \notin DOMAIN buckets
      BY <1>1, <2>1, <3>2 DEF Credit
    <3>3. QED BY <3>1, <3>2
  <2>4. CASE time < window
    <3>1. admitted = 0 /\ Since(time, window)' \in Nat /\ Since(time, window)' >= 0
      BY <1>1, <1>2, <2>1, <2>4 DEF Since
    <3>2. admitted' + Credit(followed)' + Cardinality(Unmetered)
             <= Limit + Since(time, window)' + waited' + unmetered
      BY <1>1, <1>2, <2>1, <2>3, <3>1
    <3>3. QED BY <1>2, <2>1, <2>2, <3>1, <3>2 DEF QuotaInv
  <2>5. CASE ~ (time < window)
    <3>1. Since(time, window)' = Since(time, window) + 1 /\ ~ (time' < window)
      BY <1>1, <2>1, <2>5 DEF Since
    <3>2. admitted' + Credit(followed)' + Cardinality(Unmetered)
             <= Limit + Since(time, window)' + waited' + unmetered
      BY <1>1, <1>2, <2>1, <2>3, <3>1
    <3>3. QED BY <1>2, <2>1, <2>2, <3>1, <3>2 DEF QuotaInv
  <2>6. QED BY <2>4, <2>5
<1>12. QED
  BY <1>3, <1>4, <1>6, <1>7, <1>8, <1>9, <1>10, <1>11 DEF GateNext

(* The invariant of the gate holds at first. *)
LEMMA GateBegins == GateInit => GateInv
<1> SUFFICES ASSUME GateInit PROVE GateInv
  OBVIOUS
<1>1. GateTypeOK
  <2>1. NoClient \in Client
    BY GateAssumption DEF NoClient, Client, ClientStep
  <2>2. QED BY <2>1, GateAssumption DEF GateInit, GateTypeOK
<1>2. CallInv /\ BucketInv
  BY <1>1, GateAssumption DEF GateInit, CallInv, BucketInv, NoClient
<1>3. QuotaInv
  <2>1. Unmetered = {}
    BY DEF GateInit, Unmetered, NoClient
  <2>2. Cardinality(Unmetered) = 0
    BY <2>1, FS_EmptySet
  <2>3. Credit(followed) = Limit
    BY DEF GateInit, Credit
  <2>4. Since(time, window) \in Nat /\ Limit \in Nat
    BY GateAssumption DEF GateInit, Since
  <2>5. QED BY <2>2, <2>3, <2>4 DEF GateInit, QuotaInv
<1>4. QED BY <1>1, <1>2, <1>3 DEF GateInv

(* One step keeps the invariant of the gate. *)
LEMMA GateStep == GateInv /\ [GateNext]_gateVars => GateInv'
BY GateTypeStep, QuotaStep DEF GateInv

(* Whatever the requests and the owners of the keys do, the account of every  *)
(* key and every window holds.                                               *)
THEOREM GateInvariance == GateSpec => []GateInv
BY GateBegins, GateStep, PTL DEF GateSpec

(* QuotaHolds, for any limit, number of keys and of requests at once, and     *)
(* any cap on the buckets: dropping them when they are idle, as check does,   *)
(* buys no key a request.                                                    *)
THEOREM QuotaHoldsAlways == GateSpec => []QuotaHolds
<1>1. GateInv => QuotaHolds
  <2> SUFFICES ASSUME GateInv PROVE QuotaHolds
    OBVIOUS
  <2>1. /\ time \in Nat /\ window \in Nat /\ admitted \in Nat /\ waited \in Nat
        /\ unmetered \in Nat /\ Limit \in Nat
        /\ Credit(followed) \in 0..Limit /\ Cardinality(Unmetered) \in Nat
    BY QuotaType DEF GateInv
  <2>2. Since(time, window) \in Nat /\ Credit(followed) \in Nat
    BY <2>1 DEF Since
  <2>3. admitted + Credit(followed) + Cardinality(Unmetered)
            <= Limit + Since(time, window) + waited + unmetered
    BY DEF GateInv, QuotaInv
  <2>4. admitted <= Limit + Since(time, window) + waited + unmetered
    BY <2>1, <2>2, <2>3
  <2>5. QED BY <2>4 DEF QuotaHolds
<1>2. QED BY <1>1, GateInvariance, PTL

(* RevokedNotServed, for any keys and requests. *)
THEOREM RevokedNotServedHolds == GateSpec => []RevokedNotServed
<1>1. GateInv => RevokedNotServed
  BY DEF GateInv, CallInv, RevokedNotServed
<1>2. QED BY <1>1, GateInvariance, PTL

-----------------------------------------------------------------------------
(* BridgeOrders: a status the provider gives is written as one of the row's,  *)
(* never as none; an end it comes to is one it stays at.                     *)
LEMMA StatusFacts ==
    /\ \A r \in Remote : MapStatus(r) \in OrderStatus /\ MapStatus(r) # "none"
    /\ \A r \in Remote : Says(MapStatus(r), r)
    /\ \A r \in Remote : Says("none", r) /\ Says("awaiting_deposit", r)
    /\ \A r \in Remote : \A n \in Follows(r) :
          n \in Remote /\ \A row \in OrderStatus : Says(row, r) => Says(row, n)
<1>1. \A r \in Remote : MapStatus(r) \in OrderStatus /\ MapStatus(r) # "none"
  BY DEF Remote, MapStatus, OrderStatus
<1>2. \A r \in Remote : Says(MapStatus(r), r)
  BY DEF Remote, MapStatus, Says
<1>3. \A r \in Remote : Says("none", r) /\ Says("awaiting_deposit", r)
  BY DEF Says
<1>4. ASSUME NEW r \in Remote, NEW n \in Follows(r)
      PROVE  n \in Remote /\ \A row \in OrderStatus : Says(row, r) => Says(row, n)
  <2>1. r \in {"waiting", "processing", "review"}
    BY <1>4 DEF Follows, Remote
  <2>2. n \in Remote
    BY <1>4, <2>1 DEF Follows, Remote
  <2>3. \A row \in OrderStatus : Says(row, r) => row \notin {"completed", "refunded", "expired"}
    BY <2>1 DEF Says
  <2>4. QED BY <2>2, <2>3 DEF Says
<1>5. QED BY <1>1, <1>2, <1>3, <1>4

(* Second asks a bridge that the route allows, or no one more. *)
LEMMA SecondFacts ==
    ASSUME NEW route \in Routes
    PROVE  /\ First(route) \in Quoters
           /\ \A error \in QuoteErrors(First(route)) : \A q \in Second(route, First(route), error) :
                 q \in Quoters /\ Allowed(route) = {First(route), q}
           /\ \A error \in QuoteErrors(First(route)) :
                 Second(route, First(route), error) = {} => Allowed(route) = {First(route)}
           /\ \A p \in Quoters : p # First(route) /\ Allowed(route) = {First(route), p} =>
                 \A error \in QuoteErrors(p) : Second(route, p, error) = {}
<1>1. CASE route = "any"
  BY <1>1 DEF First, QuoteErrors, LifiErrors, SideshiftErrors, BridgeXyzErrors, TransakErrors,
              Second, Allowed, Quoters
<1>2. CASE route = "lifi"
  BY <1>2 DEF First, QuoteErrors, LifiErrors, SideshiftErrors, BridgeXyzErrors, TransakErrors,
              Second, Allowed, Quoters
<1>3. CASE route = "sideshift"
  BY <1>3 DEF First, QuoteErrors, LifiErrors, SideshiftErrors, BridgeXyzErrors, TransakErrors,
              Second, Allowed, Quoters
<1>4. CASE route = "offramp"
  BY <1>4 DEF First, QuoteErrors, LifiErrors, SideshiftErrors, BridgeXyzErrors, TransakErrors,
              Second, Allowed, Quoters
<1>5. QED BY <1>1, <1>2, <1>3, <1>4 DEF Routes

(* The second is another bridge than the first. *)
LEMMA SecondApart ==
    ASSUME NEW route \in Routes, NEW error \in QuoteErrors(First(route)),
           NEW q \in Second(route, First(route), error)
    PROVE  q # First(route)
<1>1. CASE route = "any"
  BY <1>1 DEF First, QuoteErrors, LifiErrors, Second
<1>2. CASE route = "offramp"
  BY <1>2 DEF First, QuoteErrors, BridgeXyzErrors, Second
<1>3. CASE route \in {"lifi", "sideshift"}
  BY <1>3 DEF First, QuoteErrors, Second
<1>4. QED BY <1>1, <1>2, <1>3 DEF Routes

(* What a step makes of the request whose turn it is. *)
LEMMA TradeEffect ==
    ASSUME BridgeTypeOK, NEW h \in Traders, NEW new \in Trade,
           trade' = [trade EXCEPT ![h] = new]
    PROVE  /\ trade' \in [Traders -> Trade]
           /\ trade'[h] = new
           /\ \A g \in Traders \ {h} : trade'[g] = trade[g]
BY DEF BridgeTypeOK

(* A request that ends leaves nothing for the next. *)
LEMMA EndedEffect ==
    ASSUME BridgeTypeOK, NEW h \in Traders, Ended(h)
    PROVE  /\ trade' \in [Traders -> Trade]
           /\ trade'[h].at = "idle" /\ trade'[h].refused = {}
           /\ \A g \in Traders \ {h} : trade'[g] = trade[g]
<1>1. /\ NoTrade \in Trade /\ NoTrade.at = "idle" /\ NoTrade.refused = {}
  BY DEF NoTrade, Trade, TradeStep, Routes, Quoters, OrderStatus, Remote
<1>2. QED BY <1>1, TradeEffect DEF Ended

(* The order that SideShift makes is the next of its orders. *)
LEMMA NextShift ==
    ASSUME BridgeTypeOK, NEW h \in Traders, CreateShift(h)
    PROVE  /\ Len(remote) + 1 \in Shifts
           /\ Len(remote) + 1 \notin DOMAIN remote
           /\ remote' \in Seq(Remote) /\ Len(remote') = Len(remote) + 1
           /\ DOMAIN remote = 1..Len(remote) /\ Len(remote) \in Nat
           /\ DOMAIN remote' = DOMAIN remote \cup {Len(remote) + 1}
           /\ \A s \in DOMAIN remote : remote'[s] = remote[s]
           /\ remote'[Len(remote) + 1] = "waiting"
<1>1. remote \in Seq(Remote) /\ Len(remote) \in Nat /\ DOMAIN remote = 1..Len(remote)
  BY LenProperties DEF BridgeTypeOK
<1>2. remote' = Append(remote, "waiting") /\ "waiting" \in Remote /\ Len(remote) < MaxShifts
  BY DEF CreateShift, Remote
<1>3. /\ remote' \in Seq(Remote) /\ Len(remote') = Len(remote) + 1
      /\ \A s \in 1..Len(remote) : remote'[s] = remote[s]
      /\ remote'[Len(remote) + 1] = "waiting"
  BY <1>1, <1>2
<1>4. DOMAIN remote' = 1..(Len(remote) + 1)
  BY <1>3, LenProperties
<1>5. Len(remote) + 1 \in Shifts
  BY <1>1, <1>2, BridgeAssumption DEF Shifts
<1>6. QED BY <1>1, <1>3, <1>4, <1>5

(* A step at SideShift moves one of its orders. *)
LEMMA ShiftMoves ==
    ASSUME BridgeTypeOK, NEW s \in DOMAIN remote, MoveShift(s)
    PROVE  /\ remote' \in Seq(Remote) /\ Len(remote') = Len(remote)
           /\ DOMAIN remote' = DOMAIN remote
           /\ remote[s] \in Remote /\ remote'[s] \in Follows(remote[s])
           /\ \A r \in DOMAIN remote : r # s => remote'[r] = remote[r]
<1>1. remote \in Seq(Remote) /\ Len(remote) \in Nat /\ DOMAIN remote = 1..Len(remote)
  BY LenProperties DEF BridgeTypeOK
<1>2. remote[s] \in Remote
  BY <1>1, ElementOfSeq
<1>3. PICK status \in Follows(remote[s]) : remote' = [remote EXCEPT ![s] = status]
  BY DEF MoveShift
<1>4. status \in Remote
  BY <1>2, <1>3, StatusFacts
<1>5. /\ remote' \in Seq(Remote) /\ Len(remote') = Len(remote)
      /\ \A r \in 1..Len(remote) : remote'[r] = IF r = s THEN status ELSE remote[r]
  BY <1>1, <1>3, <1>4, ExceptSeq
<1>6. DOMAIN remote' = 1..Len(remote')
  BY <1>5, LenProperties
<1>7. QED BY <1>1, <1>2, <1>3, <1>5, <1>6

(* Steps that touch no row, and no order of SideShift. *)
Quiet(h) ==
    \/ \E route \in Routes : StartQuote(h, route)
    \/ GiveQuote(h) \/ RefuseQuote(h)
    \/ \E p \in DOMAIN quotes : StartExecute(h, p)
    \/ \E id \in OrderIds : StartStatus(h, id)
    \/ \E mine \in BOOLEAN : FindOrder(h, mine)
    \/ FetchStatus(h)
    \/ DropTrade(h) /\ h \notin Inserting

(* They ask the bridges in their order, and what they find is as old as they  *)
(* believe.                                                                  *)
LEMMA QuietEffect ==
    ASSUME BridgeTypeOK, QuoteInv, ShiftInv, ReportInv, NEW h \in Traders, Quiet(h)
    PROVE  /\ UNCHANGED <<orders, stamped, remote, losses>>
           /\ quotes' \in [{"lifi", "sideshift"} -> 0..MaxQuotes]
           /\ trade' \in [Traders -> Trade]
           /\ \A g \in Traders \ {h} : trade'[g] = trade[g]
           /\ Asked(h)' /\ Refreshing(h)'
           /\ h \notin Inserting /\ h \notin Inserting'
<1> DEFINE Goal ==
        /\ UNCHANGED <<orders, stamped, remote, losses>>
        /\ quotes' \in [{"lifi", "sideshift"} -> 0..MaxQuotes]
        /\ trade' \in [Traders -> Trade]
        /\ \A g \in Traders \ {h} : trade'[g] = trade[g]
        /\ Asked(h)' /\ Refreshing(h)'
        /\ h \notin Inserting /\ h \notin Inserting'
<1>0. /\ trade[h] \in Trade /\ Asked(h) /\ Refreshing(h)
      /\ quotes \in [{"lifi", "sideshift"} -> 0..MaxQuotes]
      /\ MaxQuotes \in Nat
  BY BridgeAssumption DEF BridgeTypeOK, QuoteInv, ReportInv
<1>1. ASSUME NEW route \in Routes, StartQuote(h, route)
      PROVE  Goal
  <2>1. First(route) \in Quoters
    BY SecondFacts
  <2>2. /\ trade' \in [Traders -> Trade] /\ \A g \in Traders \ {h} : trade'[g] = trade[g]
        /\ trade'[h].at = "quote" /\ trade'[h].route = route /\ trade'[h].asks = First(route)
        /\ trade'[h].refused = trade[h].refused /\ trade[h].at = "idle"
    BY <1>0, <1>1, <2>1 DEF StartQuote, BridgeTypeOK, Trade, TradeStep
  <2>3. Asked(h)' /\ Refreshing(h)'
    BY <1>0, <2>2 DEF Asked, Refreshing
  <2>4. h \notin Inserting /\ h \notin Inserting'
    BY <2>2 DEF Inserting
  <2>5. QED BY <1>0, <1>1, <2>2, <2>3, <2>4 DEF StartQuote
<1>2. ASSUME Ended(h), h \notin Inserting, UNCHANGED <<orders, stamped, remote, losses>>,
             quotes' \in [{"lifi", "sideshift"} -> 0..MaxQuotes]
      PROVE  Goal
  <2>1. /\ trade' \in [Traders -> Trade] /\ \A g \in Traders \ {h} : trade'[g] = trade[g]
        /\ trade'[h].at = "idle" /\ trade'[h].refused = {}
    BY <1>2, EndedEffect
  <2>2. Asked(h)' /\ Refreshing(h)'
    BY <2>1 DEF Asked, Refreshing
  <2>3. h \notin Inserting'
    BY <2>1 DEF Inserting
  <2>4. QED BY <1>2, <2>1, <2>2, <2>3
<1>3. ASSUME GiveQuote(h)
      PROVE  Goal
  <2>1. /\ UNCHANGED <<orders, stamped, remote, losses>> /\ Ended(h) /\ trade[h].at = "quote"
        /\ \/ quotes' = quotes
           \/ /\ trade[h].asks \in {"lifi", "sideshift"} /\ quotes[trade[h].asks] < MaxQuotes
              /\ quotes' = [quotes EXCEPT ![trade[h].asks] = @ + 1]
    BY <1>0, <1>3 DEF GiveQuote
  <2>2. quotes' \in [{"lifi", "sideshift"} -> 0..MaxQuotes]
    <3>1. \A p \in {"lifi", "sideshift"} : quotes[p] < MaxQuotes => quotes[p] + 1 \in 0..MaxQuotes
      BY <1>0
    <3>2. QED BY <1>0, <2>1, <3>1
  <2>3. h \notin Inserting
    BY <2>1 DEF Inserting
  <2>4. QED BY <1>2, <2>1, <2>2, <2>3
<1>4. ASSUME RefuseQuote(h)
      PROVE  Goal
  <2> DEFINE p == trade[h].asks
             route == trade[h].route
  <2>0. p \in Quoters /\ route \in Routes /\ trade[h].refused \subseteq Quoters /\ trade[h].at = "quote"
    BY <1>0, <1>4 DEF RefuseQuote, Trade
  <2>1. UNCHANGED <<orders, stamped, remote, quotes, losses>>
    BY <1>4 DEF RefuseQuote
  <2>2. PICK error \in QuoteErrors(p) :
            \/ \E q \in Second(route, p, error) :
                  trade' = [trade EXCEPT ![h].asks = q, ![h].refused = @ \cup {p}]
            \/ /\ Second(route, p, error) = {}
               /\ trade' = [trade EXCEPT ![h].at = "refused", ![h].refused = @ \cup {p}]
    BY <1>4 DEF RefuseQuote
  <2>3. \/ p = First(route) /\ trade[h].refused = {}
        \/ /\ trade[h].refused = {First(route)} /\ p # First(route)
           /\ Allowed(route) = {First(route), p}
    BY <1>0, <2>0 DEF Asked
  <2>4. ASSUME NEW q \in Second(route, p, error),
               trade' = [trade EXCEPT ![h].asks = q, ![h].refused = @ \cup {p}]
        PROVE  Goal
    <3>1. p = First(route) /\ trade[h].refused = {} /\ q \in Quoters /\ Allowed(route) = {First(route), q}
      BY <2>0, <2>3, <2>4, SecondFacts
    <3>2. /\ trade' \in [Traders -> Trade] /\ \A g \in Traders \ {h} : trade'[g] = trade[g]
          /\ trade'[h].at = "quote" /\ trade'[h].route = route /\ trade'[h].asks = q
          /\ trade'[h].refused = {First(route)}
      BY <1>0, <2>0, <2>4, <3>1 DEF BridgeTypeOK, Trade
    <3>3. q # First(route)
      BY <2>0, <2>4, <3>1, SecondApart
    <3>4. Asked(h)' /\ Refreshing(h)'
      BY <3>1, <3>2, <3>3 DEF Asked, Refreshing
    <3>5. h \notin Inserting /\ h \notin Inserting'
      BY <2>0, <3>2 DEF Inserting
    <3>6. QED BY <1>0, <2>1, <3>2, <3>4, <3>5
  <2>5. ASSUME Second(route, p, error) = {},
               trade' = [trade EXCEPT ![h].at = "refused", ![h].refused = @ \cup {p}]
        PROVE  Goal
    <3>1. /\ trade' \in [Traders -> Trade] /\ \A g \in Traders \ {h} : trade'[g] = trade[g]
          /\ trade'[h].at = "refused" /\ trade'[h].route = route
          /\ trade'[h].refused = trade[h].refused \cup {p}
      BY <1>0, <2>0, <2>5 DEF BridgeTypeOK, Trade, TradeStep
    <3>2. trade[h].refused \cup {p} = Allowed(route)
      BY <2>0, <2>3, <2>5, SecondFacts
    <3>3. Asked(h)' /\ Refreshing(h)'
      BY <3>1, <3>2 DEF Asked, Refreshing
    <3>4. h \notin Inserting /\ h \notin Inserting'
      BY <2>0, <3>1 DEF Inserting
    <3>5. QED BY <1>0, <2>1, <3>1, <3>3, <3>4
  <2>6. QED BY <2>2, <2>4, <2>5
<1>5. ASSUME NEW p \in DOMAIN quotes, StartExecute(h, p)
      PROVE  Goal
  <2>1. PICK q \in 1..quotes[p] :
            trade' = [trade EXCEPT ![h].at = (IF p = "lifi" THEN "insert" ELSE "create"),
                                   ![h].id = <<p, q>>]
    BY <1>5 DEF StartExecute
  <2>2. p \in {"lifi", "sideshift"} /\ q \in 1..MaxQuotes
    BY <1>0, <2>1
  <2>3. <<p, q>> \in QuoteIds
    BY <2>2 DEF QuoteIds
  <2>4. /\ trade' \in [Traders -> Trade] /\ \A g \in Traders \ {h} : trade'[g] = trade[g]
        /\ trade'[h].at = (IF p = "lifi" THEN "insert" ELSE "create") /\ trade'[h].id = <<p, q>>
    BY <1>0, <2>1, <2>3 DEF BridgeTypeOK, Trade, TradeStep
  <2>5. Asked(h)' /\ Refreshing(h)'
    BY <2>4 DEF Asked, Refreshing
  <2>6. h \notin Inserting /\ h \notin Inserting'
    BY <1>5, <2>2, <2>4 DEF Inserting, StartExecute
  <2>7. QED BY <1>0, <1>5, <2>4, <2>5, <2>6 DEF StartExecute
<1>6. ASSUME NEW id \in OrderIds, StartStatus(h, id)
      PROVE  Goal
  <2>1. /\ trade' \in [Traders -> Trade] /\ \A g \in Traders \ {h} : trade'[g] = trade[g]
        /\ trade'[h].at = "find" /\ trade'[h].id = id /\ trade[h].at = "idle"
    BY <1>0, <1>6 DEF StartStatus, BridgeTypeOK, Trade, TradeStep
  <2>2. Asked(h)' /\ Refreshing(h)'
    BY <2>1 DEF Asked, Refreshing
  <2>3. h \notin Inserting /\ h \notin Inserting'
    BY <2>1 DEF Inserting
  <2>4. QED BY <1>0, <1>6, <2>1, <2>2, <2>3 DEF StartStatus
<1>7. ASSUME NEW mine \in BOOLEAN, FindOrder(h, mine)
      PROVE  Goal
  <2>1. UNCHANGED <<orders, stamped, remote, quotes, losses>> /\ trade[h].at = "find" /\ h \notin Inserting
    BY <1>7 DEF FindOrder, Inserting
  <2>2. CASE Ended(h)
    BY <1>0, <1>2, <2>1, <2>2
  <2>3. ASSUME TradeNext(h, "unreadable")
        PROVE  Goal
    <3>1. /\ trade' \in [Traders -> Trade] /\ \A g \in Traders \ {h} : trade'[g] = trade[g]
          /\ trade'[h].at = "unreadable"
      BY <1>0, <2>3 DEF TradeNext, BridgeTypeOK, Trade, TradeStep
    <3>2. Asked(h)' /\ Refreshing(h)' /\ h \notin Inserting'
      BY <3>1 DEF Asked, Refreshing, Inserting
    <3>3. QED BY <1>0, <2>1, <3>1, <3>2
  <2>4. ASSUME orders[trade[h].id] # "none", trade[h].id[1] = "sideshift", TradeNext(h, "fetch")
        PROVE  Goal
    <3>1. trade[h].id \in OrderIds
      BY <1>0, <2>1 DEF Refreshing
    <3>2. /\ trade' \in [Traders -> Trade] /\ \A g \in Traders \ {h} : trade'[g] = trade[g]
          /\ trade'[h].at = "fetch" /\ trade'[h].id = trade[h].id
      BY <1>0, <2>4 DEF TradeNext, BridgeTypeOK, Trade, TradeStep
    <3>3. PICK s \in Shifts : trade[h].id = ShiftId(s)
      BY <2>4, <3>1 DEF OrderIds, ShiftId
    <3>4. s \in DOMAIN remote
      BY <2>4, <3>3 DEF ShiftInv
    <3>5. Asked(h)'
      BY <3>2 DEF Asked
    <3>6. Refreshing(h)'
      BY <2>1, <2>4, <3>2, <3>3, <3>4 DEF Refreshing
    <3>7. h \notin Inserting'
      BY <3>2 DEF Inserting
    <3>8. QED BY <1>0, <2>1, <3>2, <3>5, <3>6, <3>7
  <2>5. Ended(h) \/ TradeNext(h, "unreadable")
          \/ (orders[trade[h].id] # "none" /\ trade[h].id[1] = "sideshift" /\ TradeNext(h, "fetch"))
    BY <1>7 DEF FindOrder
  <2> HIDE DEF Goal
  <2>6. QED BY <2>2, <2>3, <2>4, <2>5
<1>8. ASSUME FetchStatus(h)
      PROVE  Goal
  <2>1. UNCHANGED <<orders, stamped, remote, quotes, losses>> /\ trade[h].at = "fetch" /\ h \notin Inserting
    BY <1>8 DEF FetchStatus, Inserting
  <2>2. PICK s \in DOMAIN remote : trade[h].id = ShiftId(s)
    BY <1>0, <2>1 DEF Refreshing
  <2>3. orders[trade[h].id] # "none"
    BY <1>0, <2>1 DEF Refreshing
  <2>4. trade[h].id[2] = s
    BY <2>2 DEF ShiftId
  <2>5. remote[s] \in Remote
    BY <2>2, LenProperties, ElementOfSeq DEF BridgeTypeOK
  <2>6. /\ trade' \in [Traders -> Trade] /\ \A g \in Traders \ {h} : trade'[g] = trade[g]
        /\ trade'[h].at = "write" /\ trade'[h].id = trade[h].id
        /\ trade'[h].got = remote[s]
    BY <1>0, <1>8, <2>4, <2>5 DEF FetchStatus, BridgeTypeOK, Trade, TradeStep
  <2>7. Says(MapStatus(remote[s]), remote[s])
    BY <2>5, StatusFacts
  <2>8. Asked(h)'
    BY <2>6 DEF Asked
  <2>9. Refreshing(h)'
    BY <2>1, <2>2, <2>3, <2>6, <2>7 DEF Refreshing
  <2>10. h \notin Inserting'
    BY <2>6 DEF Inserting
  <2>11. QED BY <1>0, <2>1, <2>6, <2>8, <2>9, <2>10
<1>9. ASSUME DropTrade(h), h \notin Inserting
      PROVE  Goal
  <2>1. UNCHANGED <<orders, stamped, remote, quotes, losses>> /\ Ended(h)
    BY <1>9 DEF DropTrade, Inserting
  <2>2. QED BY <1>0, <1>2, <1>9, <2>1
<1>10. Goal
  <2> HIDE DEF Goal
  <2>1. QED BY <1>1, <1>3, <1>4, <1>5, <1>6, <1>7, <1>8, <1>9 DEF Quiet
<1>11. QED BY <1>10

(* The orders that SideShift made and that have no row. *)
Untracked == {s \in DOMAIN remote : orders[ShiftId(s)] = "none"}

(* What is counted is finite, and an order about to be inserted is one of     *)
(* SideShift's.                                                              *)
LEMMA BridgeFinite ==
    ASSUME BridgeTypeOK, ShiftInv
    PROVE  /\ Inserting \in SUBSET Traders /\ IsFiniteSet(Inserting)
           /\ Cardinality(Inserting) \in Nat
           /\ DOMAIN remote \in SUBSET Shifts /\ IsFiniteSet(DOMAIN remote)
           /\ IsFiniteSet(Untracked) /\ Cardinality(Untracked) \in Nat
           /\ Cardinality(Untracked) <= Cardinality(Inserting) + losses
           /\ losses \in Nat
           /\ \A h \in Inserting : \E s \in DOMAIN remote : trade[h].id = ShiftId(s) /\ s \in Untracked
<1>1. Inserting \in SUBSET Traders /\ losses \in Nat
  BY BridgeAssumption DEF Inserting, BridgeTypeOK
<1>2. IsFiniteSet(Inserting) /\ Cardinality(Inserting) \in Nat
  BY <1>1, BridgeAssumption, PartSize
<1>3. DOMAIN remote = 1..Len(remote) /\ Len(remote) \in Nat /\ Len(remote) <= MaxShifts
  BY LenProperties DEF BridgeTypeOK
<1>4. DOMAIN remote \in SUBSET Shifts /\ IsFiniteSet(DOMAIN remote)
  BY <1>3, SizeUpTo, BridgeAssumption DEF Shifts
<1>5. Untracked \in SUBSET DOMAIN remote
  BY DEF Untracked
<1>6. IsFiniteSet(Untracked) /\ Cardinality(Untracked) \in Nat
  BY <1>4, <1>5, PartSize
<1>7. Cardinality(Untracked) <= Cardinality(Inserting) + losses
  BY DEF ShiftInv, ShiftsTracked, Untracked, ShiftId
<1>8. ASSUME NEW h \in Inserting
      PROVE  \E s \in DOMAIN remote : trade[h].id = ShiftId(s) /\ s \in Untracked
  <2>1. trade[h] \in Trade /\ trade[h].id[1] = "sideshift"
    BY <1>8 DEF Inserting, BridgeTypeOK
  <2>2. trade[h].id \in OrderIds \cup QuoteIds \cup {NoId}
    BY <2>1 DEF Trade
  <2>3. trade[h].id = <<trade[h].id[1], trade[h].id[2]>>
    BY <2>2 DEF OrderIds, QuoteIds, NoId
  <2>4. trade[h].id[2] \in DOMAIN remote /\ orders[trade[h].id] = "none"
    BY <1>8 DEF ShiftInv
  <2>5. QED BY <2>1, <2>3, <2>4 DEF ShiftId, Untracked
<1>9. QED BY <1>1, <1>2, <1>4, <1>6, <1>7, <1>8

(* A quiet step leaves the rows and the orders as they are. *)
LEMMA QuietStep ==
    ASSUME BridgeInv, NEW h \in Traders, Quiet(h)
    PROVE  BridgeInv'
<1>0. BridgeTypeOK /\ QuoteInv /\ ShiftInv /\ ReportInv
  BY DEF BridgeInv
<1>1. /\ UNCHANGED <<orders, stamped, remote, losses>>
      /\ quotes' \in [{"lifi", "sideshift"} -> 0..MaxQuotes]
      /\ trade' \in [Traders -> Trade]
      /\ \A g \in Traders \ {h} : trade'[g] = trade[g]
      /\ Asked(h)' /\ Refreshing(h)'
      /\ h \notin Inserting /\ h \notin Inserting'
  BY <1>0, QuietEffect
<1>2. BridgeTypeOK'
  BY <1>0, <1>1 DEF BridgeTypeOK
<1>3. QuoteInv'
  BY <1>0, <1>1 DEF QuoteInv, Asked
<1>4. ReportInv'
  BY <1>0, <1>1 DEF ReportInv, EndsAsReported, Refreshing
<1>5. Inserting' = Inserting
  BY <1>1 DEF Inserting
<1>6. \A g \in Inserting : trade'[g] = trade[g]
  BY <1>1, <1>5 DEF Inserting
<1>7. ShiftInv'
  BY <1>0, <1>1, <1>5, <1>6 DEF ShiftInv, ShiftsTracked
<1>8. QED BY <1>2, <1>3, <1>4, <1>7 DEF BridgeInv

(* The order that SideShift makes has no row, and no other request for one. *)
LEMMA CreateStep ==
    ASSUME BridgeInv, NEW h \in Traders, CreateShift(h)
    PROVE  BridgeInv'
<1> DEFINE s == Len(remote) + 1
<1>0. BridgeTypeOK /\ QuoteInv /\ ShiftInv /\ ReportInv
  BY DEF BridgeInv
<1>1. /\ s \in Shifts /\ s \notin DOMAIN remote
      /\ remote' \in Seq(Remote) /\ Len(remote') = s
      /\ DOMAIN remote = 1..Len(remote) /\ Len(remote) \in Nat
      /\ DOMAIN remote' = DOMAIN remote \cup {s}
      /\ \A r \in DOMAIN remote : remote'[r] = remote[r]
      /\ remote'[s] = "waiting"
  BY <1>0, NextShift
<1>2. UNCHANGED <<orders, stamped, quotes, losses>> /\ trade[h].at = "create"
      /\ trade' = [trade EXCEPT ![h].at = "insert", ![h].id = <<"sideshift", Len(remote')>>]
  BY DEF CreateShift
<1>3. <<"sideshift", s>> \in OrderIds /\ <<"sideshift", s>> = ShiftId(s)
  BY <1>1 DEF OrderIds, ShiftId
<1>4. /\ trade' \in [Traders -> Trade] /\ \A g \in Traders \ {h} : trade'[g] = trade[g]
      /\ trade'[h].at = "insert" /\ trade'[h].id = ShiftId(s)
  <2>1. PICK id \in OrderIds : id = ShiftId(s)
    BY <1>3
  <2>2. trade' = [trade EXCEPT ![h].at = "insert", ![h].id = id]
    BY <1>1, <1>2, <1>3, <2>1
  <2>3. trade \in [Traders -> Trade] /\ trade[h] \in Trade
    BY <1>0 DEF BridgeTypeOK
  <2>4. /\ trade' \in [Traders -> Trade] /\ \A g \in Traders \ {h} : trade'[g] = trade[g]
        /\ trade'[h].at = "insert" /\ trade'[h].id = id
    BY <2>2, <2>3 DEF Trade, TradeStep
  <2>5. QED BY <2>1, <2>4
<1>5. BridgeTypeOK'
  <2>1. s <= MaxShifts
    BY <1>1, BridgeAssumption DEF Shifts
  <2>2. QED BY <1>0, <1>1, <1>2, <1>4, <2>1 DEF BridgeTypeOK
<1>6. QuoteInv'
  BY <1>0, <1>2, <1>4 DEF QuoteInv, Asked
<1>7. orders[ShiftId(s)] = "none"
  BY <1>0, <1>1 DEF ShiftInv
<1>8. h \notin Inserting /\ Inserting' = Inserting \cup {h}
  <2>1. ShiftId(s)[1] = "sideshift"
    BY DEF ShiftId
  <2>2. QED BY <1>2, <1>4, <2>1 DEF Inserting
<1>9. \A g \in Inserting : trade'[g] = trade[g] /\ trade'[g].id # ShiftId(s)
  <2> SUFFICES ASSUME NEW g \in Inserting
               PROVE  trade'[g] = trade[g] /\ trade'[g].id # ShiftId(s)
    OBVIOUS
  <2>1. trade'[g] = trade[g]
    BY <1>4, <1>8 DEF Inserting
  <2>2. trade[g].id[2] \in DOMAIN remote /\ ShiftId(s)[2] = s
    BY <1>0 DEF ShiftInv, ShiftId
  <2>3. QED BY <1>1, <2>1, <2>2
<1>10. ShiftsTracked'
  <2>1. Untracked' = Untracked \cup {s} /\ s \notin Untracked
    BY <1>1, <1>2, <1>7 DEF Untracked
  <2>2. /\ IsFiniteSet(Untracked) /\ Cardinality(Untracked) \in Nat
        /\ IsFiniteSet(Inserting) /\ Cardinality(Inserting) \in Nat
        /\ Cardinality(Untracked) <= Cardinality(Inserting) + losses /\ losses \in Nat
    BY <1>0, BridgeFinite
  <2>3. Cardinality(Untracked') = Cardinality(Untracked) + 1
    BY <2>1, <2>2, SizeWith
  <2>4. Cardinality(Inserting') = Cardinality(Inserting) + 1
    BY <1>8, <2>2, SizeWith
  <2>5. Cardinality(Untracked') <= Cardinality(Inserting') + losses'
    BY <1>2, <2>2, <2>3, <2>4
  <2>6. QED BY <2>5 DEF ShiftsTracked, Untracked, ShiftId
<1>11. ShiftInv'
  <2>1. ShiftId(s)[2] = s
    BY DEF ShiftId
  <2>2. \A r \in Shifts : orders'[ShiftId(r)] # "none" => r \in DOMAIN remote'
    BY <1>0, <1>1, <1>2 DEF ShiftInv
  <2>3. \A g \in Inserting' : trade'[g].id[2] \in DOMAIN remote' /\ orders'[trade'[g].id] = "none"
    <3>1. trade'[h].id[2] \in DOMAIN remote' /\ orders'[trade'[h].id] = "none"
      BY <1>1, <1>2, <1>4, <1>7, <2>1
    <3>2. \A g \in Inserting : trade'[g].id[2] \in DOMAIN remote' /\ orders'[trade'[g].id] = "none"
      BY ZenonT(40), <1>0, <1>1, <1>2, <1>9 DEF ShiftInv
    <3>3. QED BY <1>8, <3>1, <3>2
  <2>4. \A g, f \in Inserting' : trade'[g].id = trade'[f].id => g = f
    BY <1>0, <1>4, <1>8, <1>9 DEF ShiftInv
  <2> HIDE DEF s
  <2>5. QED BY <1>10, <2>2, <2>3, <2>4 DEF ShiftInv
<1>12. ReportInv'
  <2>1. EndsAsReported'
    BY <1>0, <1>1, <1>2, <1>7 DEF ReportInv, EndsAsReported, Says, ShiftId
  <2>2. \A g \in Traders \ {h} : Refreshing(g)'
    BY <1>0, <1>1, <1>2, <1>4 DEF ReportInv, Refreshing
  <2>3. Refreshing(h)'
    BY <1>4 DEF Refreshing
  <2>4. QED BY <2>1, <2>2, <2>3 DEF ReportInv
<1>13. QED BY <1>5, <1>6, <1>11, <1>12 DEF BridgeInv

(* The order that gets its row is one that had none, and only its request was *)
(* to insert it.                                                             *)
LEMMA InsertStep ==
    ASSUME BridgeInv, NEW h \in Traders, InsertOrder(h)
    PROVE  BridgeInv'
<1>0. BridgeTypeOK /\ QuoteInv /\ ShiftInv /\ ReportInv
  BY DEF BridgeInv
<1>1. /\ UNCHANGED <<stamped, remote, quotes, losses>> /\ trade[h].at = "insert" /\ Ended(h)
      /\ \/ orders' = orders /\ orders[trade[h].id] # "none"
         \/ /\ orders' = [orders EXCEPT ![trade[h].id] = "awaiting_deposit"]
            /\ orders[trade[h].id] = "none"
  BY DEF InsertOrder
<1>2. /\ trade' \in [Traders -> Trade] /\ \A g \in Traders \ {h} : trade'[g] = trade[g]
      /\ trade'[h].at = "idle" /\ trade'[h].refused = {}
  BY <1>0, <1>1, EndedEffect
<1>3. BridgeTypeOK'
  <2>1. orders' \in [OrderIds -> OrderStatus]
    BY <1>0, <1>1 DEF BridgeTypeOK, OrderStatus
  <2>2. QED BY <1>0, <1>1, <1>2, <2>1 DEF BridgeTypeOK
<1>4. QuoteInv'
  BY <1>0, <1>2 DEF QuoteInv, Asked
<1>5. /\ Inserting' = Inserting \ {h}
      /\ \A g \in Inserting \ {h} : trade'[g] = trade[g]
  BY <1>2 DEF Inserting
<1>6. /\ IsFiniteSet(Untracked) /\ Cardinality(Untracked) \in Nat
      /\ IsFiniteSet(Inserting) /\ Cardinality(Inserting) \in Nat
      /\ Cardinality(Untracked) <= Cardinality(Inserting) + losses /\ losses \in Nat
      /\ DOMAIN remote \in SUBSET Shifts
      /\ \A g \in Inserting : \E s \in DOMAIN remote : trade[g].id = ShiftId(s) /\ s \in Untracked
  BY <1>0, BridgeFinite
<1>7. \A s \in Shifts : ShiftId(s) \in OrderIds
  BY DEF OrderIds, ShiftId
<1>8. \A s, r \in Shifts : ShiftId(s) = ShiftId(r) => s = r
  BY DEF ShiftId
<1>9. CASE h \in Inserting
  <2>1. PICK s \in DOMAIN remote : trade[h].id = ShiftId(s) /\ s \in Untracked
    BY <1>6, <1>9
  <2>2. s \in Shifts /\ orders[ShiftId(s)] = "none"
    BY <1>6, <2>1 DEF Untracked
  <2>3. orders' = [orders EXCEPT ![ShiftId(s)] = "awaiting_deposit"]
    BY <1>1, <2>1, <2>2
  <2>4. /\ orders'[ShiftId(s)] = "awaiting_deposit"
        /\ \A r \in Shifts : r # s => orders'[ShiftId(r)] = orders[ShiftId(r)]
    BY <1>0, <1>7, <1>8, <2>2, <2>3 DEF BridgeTypeOK
  <2>5. \A g \in Inserting \ {h} : trade[g].id # ShiftId(s)
    BY <1>0, <1>9, <2>1 DEF ShiftInv
  <2>6. ShiftsTracked'
    <3>1. Untracked' = Untracked \ {s}
      BY <1>1, <1>6, <2>1, <2>4 DEF Untracked
    <3>2. Cardinality(Untracked') = Cardinality(Untracked) - 1
      BY <1>6, <2>1, <3>1, SizeLess
    <3>3. Cardinality(Inserting') = Cardinality(Inserting) - 1
      BY <1>5, <1>6, <1>9, SizeLess
    <3>4. Cardinality(Untracked') <= Cardinality(Inserting') + losses'
      BY <1>1, <1>6, <3>2, <3>3
    <3>5. QED BY <3>4 DEF ShiftsTracked, Untracked, ShiftId
  <2>7. ShiftInv'
    <3>1. \A r \in Shifts : orders'[ShiftId(r)] # "none" => r \in DOMAIN remote'
      BY <1>0, <1>1, <2>1, <2>4 DEF ShiftInv
    <3>2. \A g \in Inserting' : trade'[g].id[2] \in DOMAIN remote' /\ orders'[trade'[g].id] = "none"
      <4> SUFFICES ASSUME NEW g \in Inserting'
                   PROVE  trade'[g].id[2] \in DOMAIN remote' /\ orders'[trade'[g].id] = "none"
        OBVIOUS
      <4>1. g \in Inserting \ {h} /\ trade'[g] = trade[g]
        BY <1>5
      <4>2. PICK r \in DOMAIN remote : trade[g].id = ShiftId(r) /\ r \in Untracked
        BY <1>6, <4>1
      <4>3. r # s /\ r \in Shifts /\ orders[ShiftId(r)] = "none"
        BY <1>6, <2>5, <4>1, <4>2 DEF Untracked
      <4>4. trade[g].id[2] \in DOMAIN remote
        BY <1>0, <4>1 DEF ShiftInv
      <4>5. QED BY <1>1, <2>4, <4>1, <4>2, <4>3, <4>4
    <3>3. \A g, f \in Inserting' : trade'[g].id = trade'[f].id => g = f
      BY <1>0, <1>5 DEF ShiftInv
    <3>4. QED BY <2>6, <3>1, <3>2, <3>3 DEF ShiftInv
  <2>8. ReportInv'
    <3>1. EndsAsReported'
      <4> SUFFICES ASSUME NEW r \in DOMAIN remote
                   PROVE  Says(orders'[ShiftId(r)], remote[r])
        BY <1>1 DEF EndsAsReported, ShiftId
      <4>1. CASE r = s
        BY <2>4, <4>1 DEF Says
      <4>2. CASE r # s
        <5>1. orders'[ShiftId(r)] = orders[ShiftId(r)]
          BY <1>6, <2>4, <4>2
        <5>2. QED BY <1>0, <5>1 DEF ReportInv, EndsAsReported, ShiftId
      <4>3. QED BY <4>1, <4>2
    <3>2. ASSUME NEW g \in Traders
          PROVE  Refreshing(g)'
      <4>1. CASE g = h
        BY <1>2, <4>1 DEF Refreshing
      <4>2. CASE g # h
        <5>1. trade'[g] = trade[g] /\ Refreshing(g)
          BY <1>0, <1>2, <4>2 DEF ReportInv
        <5>2. \A r \in DOMAIN remote : orders[ShiftId(r)] # "none" => orders'[ShiftId(r)] # "none"
          BY <1>6, <2>4
        <5>3. QED BY <1>1, <5>1, <5>2 DEF Refreshing
      <4>3. QED BY <4>1, <4>2
    <3>3. QED BY <3>1, <3>2 DEF ReportInv
  <2>9. QED BY <1>3, <1>4, <2>7, <2>8 DEF BridgeInv
<1>10. CASE h \notin Inserting
  <2>1. \A s \in Shifts : orders'[ShiftId(s)] = orders[ShiftId(s)]
    <3>1. trade[h].id[1] # "sideshift"
      BY <1>1, <1>10 DEF Inserting
    <3>2. \A s \in Shifts : ShiftId(s) # trade[h].id
      BY <3>1 DEF ShiftId
    <3>3. QED BY <1>0, <1>1, <1>7, <3>2 DEF BridgeTypeOK
  <2>2. Inserting' = Inserting /\ \A g \in Inserting : trade'[g] = trade[g]
    BY <1>5, <1>10
  <2>3. ShiftInv'
    <3>1. \A r \in Shifts : orders'[ShiftId(r)] # "none" => r \in DOMAIN remote'
      BY <1>0, <1>1, <2>1 DEF ShiftInv
    <3>2. \A g \in Inserting : orders'[trade[g].id] = "none"
      BY <1>6, <2>1 DEF Untracked
    <3>3. Untracked' = Untracked
      BY <1>1, <1>6, <2>1 DEF Untracked
    <3>4. ShiftsTracked'
      BY <1>1, <1>6, <2>2, <3>3 DEF ShiftsTracked, Untracked, ShiftId
    <3>5. QED BY <1>0, <1>1, <2>2, <3>1, <3>2, <3>4 DEF ShiftInv
  <2>4. ReportInv'
    <3>1. EndsAsReported'
      BY <1>0, <1>1, <1>6, <2>1 DEF ReportInv, EndsAsReported, ShiftId
    <3>2. ASSUME NEW g \in Traders
          PROVE  Refreshing(g)'
      <4>1. CASE g = h
        BY <1>2, <4>1 DEF Refreshing
      <4>2. CASE g # h
        <5>1. trade'[g] = trade[g] /\ Refreshing(g)
          BY <1>0, <1>2, <4>2 DEF ReportInv
        <5>2. \A r \in DOMAIN remote : orders'[ShiftId(r)] = orders[ShiftId(r)]
          BY <1>6, <2>1
        <5>3. QED BY <1>1, <5>1, <5>2 DEF Refreshing
      <4>3. QED BY <4>1, <4>2
    <3>3. QED BY <3>1, <3>2 DEF ReportInv
  <2>5. QED BY <1>3, <1>4, <2>3, <2>4 DEF BridgeInv
<1>11. QED BY <1>9, <1>10

(* A row takes what the provider said of its order, and stays a row. *)
LEMMA WriteStep ==
    ASSUME BridgeInv, NEW h \in Traders, WriteStatus(h)
    PROVE  BridgeInv'
<1>0. BridgeTypeOK /\ QuoteInv /\ ShiftInv /\ ReportInv
  BY DEF BridgeInv
<1>1. /\ UNCHANGED <<remote, quotes, losses>> /\ trade[h].at = "write" /\ Ended(h)
      /\ orders' = [orders EXCEPT ![trade[h].id] = MapStatus(trade[h].got)]
      /\ stamped' = stamped \cup {trade[h].id}
  BY DEF WriteStatus
<1>2. /\ trade' \in [Traders -> Trade] /\ \A g \in Traders \ {h} : trade'[g] = trade[g]
      /\ trade'[h].at = "idle" /\ trade'[h].refused = {}
  BY <1>0, <1>1, EndedEffect
<1>3. /\ MapStatus(trade[h].got) \in OrderStatus /\ MapStatus(trade[h].got) # "none"
  <2>1. trade[h].got \in Remote
    BY <1>0 DEF BridgeTypeOK, Trade
  <2>2. QED BY <2>1, StatusFacts
<1>4. QuoteInv'
  BY <1>0, <1>2 DEF QuoteInv, Asked
<1>5. Inserting' = Inserting /\ \A g \in Inserting : trade'[g] = trade[g]
  BY <1>1, <1>2 DEF Inserting
<1>6. /\ IsFiniteSet(Untracked) /\ Cardinality(Untracked) \in Nat
      /\ IsFiniteSet(Inserting) /\ Cardinality(Inserting) \in Nat
      /\ Cardinality(Untracked) <= Cardinality(Inserting) + losses /\ losses \in Nat
      /\ DOMAIN remote \in SUBSET Shifts
      /\ \A g \in Inserting : \E s \in DOMAIN remote : trade[g].id = ShiftId(s) /\ s \in Untracked
  BY <1>0, BridgeFinite
<1>7. Refreshing(h) /\ orders[trade[h].id] # "none"
  BY <1>0, <1>1 DEF ReportInv, Refreshing
<1>8. PICK s \in DOMAIN remote :
         trade[h].id = ShiftId(s) /\ Says(MapStatus(trade[h].got), remote[s])
  BY <1>1, <1>7 DEF Refreshing
<1>9. s \in Shifts /\ orders[ShiftId(s)] # "none"
  BY <1>6, <1>7, <1>8
<1>10. /\ \A r \in Shifts : ShiftId(r) \in OrderIds
       /\ \A r \in Shifts : ShiftId(r) = ShiftId(s) => r = s
  BY DEF OrderIds, ShiftId
<1>11. BridgeTypeOK'
  <2>1. orders' \in [OrderIds -> OrderStatus] /\ stamped' \in SUBSET OrderIds
    BY <1>0, <1>1, <1>3, <1>8, <1>9, <1>10 DEF BridgeTypeOK
  <2>2. QED BY <1>0, <1>1, <1>2, <2>1 DEF BridgeTypeOK
<1>12. /\ orders'[ShiftId(s)] = MapStatus(trade[h].got)
       /\ \A r \in Shifts : r # s => orders'[ShiftId(r)] = orders[ShiftId(r)]
  BY <1>0, <1>1, <1>8, <1>9, <1>10 DEF BridgeTypeOK
<1>13. Untracked' = Untracked
  BY <1>1, <1>3, <1>6, <1>9, <1>12 DEF Untracked
<1>14. ShiftInv'
  <2>1. \A r \in Shifts : orders'[ShiftId(r)] # "none" => r \in DOMAIN remote'
    BY <1>0, <1>1, <1>8, <1>12 DEF ShiftInv
  <2>2. \A g \in Inserting : orders'[trade[g].id] = "none"
    <3> SUFFICES ASSUME NEW g \in Inserting
                 PROVE  orders'[trade[g].id] = "none"
      OBVIOUS
    <3>1. PICK r \in DOMAIN remote : trade[g].id = ShiftId(r) /\ r \in Untracked
      BY <1>6
    <3>2. r \in Shifts /\ orders[ShiftId(r)] = "none"
      BY <1>6, <3>1 DEF Untracked
    <3>3. r # s
      BY <1>9, <3>2
    <3>4. QED BY <1>12, <3>1, <3>2, <3>3
  <2>3. ShiftsTracked'
    BY <1>1, <1>5, <1>6, <1>13 DEF ShiftsTracked, Untracked, ShiftId
  <2>4. QED BY <1>0, <1>1, <1>5, <2>1, <2>2, <2>3 DEF ShiftInv
<1>15. ReportInv'
  <2>1. EndsAsReported'
    <3> SUFFICES ASSUME NEW r \in DOMAIN remote
                 PROVE  Says(orders'[ShiftId(r)], remote[r])
      BY <1>1 DEF EndsAsReported, ShiftId
    <3>1. CASE r = s
      BY <1>8, <1>12, <3>1
    <3>2. CASE r # s
      <4>1. orders'[ShiftId(r)] = orders[ShiftId(r)]
        BY <1>6, <1>12, <3>2
      <4>2. QED BY <1>0, <4>1 DEF ReportInv, EndsAsReported, ShiftId
    <3>3. QED BY <3>1, <3>2
  <2>2. ASSUME NEW g \in Traders
        PROVE  Refreshing(g)'
    <3>1. CASE g = h
      BY <1>2, <3>1 DEF Refreshing
    <3>2. CASE g # h
      <4>1. trade'[g] = trade[g] /\ Refreshing(g)
        BY <1>0, <1>2, <3>2 DEF ReportInv
      <4>2. \A r \in DOMAIN remote : orders[ShiftId(r)] # "none" => orders'[ShiftId(r)] # "none"
        BY <1>3, <1>6, <1>12
      <4>3. QED BY <1>1, <4>1, <4>2 DEF Refreshing
    <3>3. QED BY <3>1, <3>2
  <2>3. QED BY <2>1, <2>2 DEF ReportInv
<1>16. QED BY <1>4, <1>11, <1>14, <1>15 DEF BridgeInv

(* A request that is cut off loses the order it was to insert. *)
LEMMA LossStep ==
    ASSUME BridgeInv, NEW h \in Traders, DropTrade(h), h \in Inserting
    PROVE  BridgeInv'
<1>0. BridgeTypeOK /\ QuoteInv /\ ShiftInv /\ ReportInv
  BY DEF BridgeInv
<1>1. /\ UNCHANGED <<orders, stamped, remote, quotes>> /\ Ended(h)
      /\ losses < MaxLosses /\ losses' = losses + 1
  BY DEF DropTrade, Inserting
<1>2. /\ trade' \in [Traders -> Trade] /\ \A g \in Traders \ {h} : trade'[g] = trade[g]
      /\ trade'[h].at = "idle" /\ trade'[h].refused = {}
  BY <1>0, <1>1, EndedEffect
<1>3. losses' \in 0..MaxLosses
  BY <1>0, <1>1, BridgeAssumption DEF BridgeTypeOK
<1>4. BridgeTypeOK'
  BY <1>0, <1>1, <1>2, <1>3 DEF BridgeTypeOK
<1>5. QuoteInv'
  BY <1>0, <1>2 DEF QuoteInv, Asked
<1>6. Inserting' = Inserting \ {h} /\ \A g \in Inserting \ {h} : trade'[g] = trade[g]
  BY <1>2 DEF Inserting
<1>7. /\ IsFiniteSet(Untracked) /\ Cardinality(Untracked) \in Nat
      /\ IsFiniteSet(Inserting) /\ Cardinality(Inserting) \in Nat
      /\ Cardinality(Untracked) <= Cardinality(Inserting) + losses /\ losses \in Nat
  BY <1>0, BridgeFinite
<1>8. ShiftsTracked'
  <2>1. Cardinality(Inserting') = Cardinality(Inserting) - 1
    BY <1>6, <1>7, SizeLess
  <2>2. Untracked' = Untracked
    BY <1>1 DEF Untracked
  <2>3. Cardinality(Untracked') <= Cardinality(Inserting') + losses'
    BY <1>1, <1>7, <2>1, <2>2
  <2>4. QED BY <2>3 DEF ShiftsTracked, Untracked, ShiftId
<1>9. ShiftInv'
  BY <1>0, <1>1, <1>6, <1>8 DEF ShiftInv
<1>10. ReportInv'
  <2>1. Refreshing(h)'
    BY <1>2 DEF Refreshing
  <2>2. \A g \in Traders \ {h} : Refreshing(g)'
    BY <1>0, <1>1, <1>2 DEF ReportInv, Refreshing
  <2>3. QED BY <1>0, <1>1, <2>1, <2>2 DEF ReportInv, EndsAsReported
<1>11. QED BY <1>4, <1>5, <1>9, <1>10 DEF BridgeInv

(* The provider moves an order on, but never from an end.  *)
LEMMA MoveStep ==
    ASSUME BridgeInv, NEW s \in DOMAIN remote, MoveShift(s)
    PROVE  BridgeInv'
<1>0. BridgeTypeOK /\ QuoteInv /\ ShiftInv /\ ReportInv
  BY DEF BridgeInv
<1>1. /\ remote' \in Seq(Remote) /\ Len(remote') = Len(remote)
      /\ DOMAIN remote' = DOMAIN remote
      /\ remote[s] \in Remote /\ remote'[s] \in Follows(remote[s])
      /\ \A r \in DOMAIN remote : r # s => remote'[r] = remote[r]
  BY <1>0, ShiftMoves
<1>2. UNCHANGED <<orders, stamped, quotes, trade, losses>>
  BY DEF MoveShift
<1>3. \A r \in DOMAIN remote : \A row \in OrderStatus : Says(row, remote[r]) => Says(row, remote'[r])
  BY <1>1, StatusFacts
<1>4. BridgeTypeOK'
  BY <1>0, <1>1, <1>2 DEF BridgeTypeOK
<1>5. QuoteInv'
  BY <1>0, <1>2 DEF QuoteInv, Asked
<1>6. ShiftInv'
  <2>1. Inserting' = Inserting
    BY <1>2 DEF Inserting
  <2>2. ShiftsTracked'
    BY <1>0, <1>1, <1>2, <2>1 DEF ShiftInv, ShiftsTracked
  <2>3. QED BY <1>0, <1>1, <1>2, <2>1, <2>2 DEF ShiftInv
<1>7. ReportInv'
  <2>1. EndsAsReported'
    <3> SUFFICES ASSUME NEW r \in DOMAIN remote
                 PROVE  Says(orders[ShiftId(r)], remote'[r])
      BY <1>1, <1>2 DEF EndsAsReported, ShiftId
    <3>1. ShiftId(r) \in OrderIds
      BY <1>0, BridgeFinite DEF OrderIds, ShiftId
    <3>2. orders[ShiftId(r)] \in OrderStatus
      BY <1>0, <3>1 DEF BridgeTypeOK
    <3>3. Says(orders[ShiftId(r)], remote[r])
      BY <1>0 DEF ReportInv, EndsAsReported, ShiftId
    <3>4. QED BY <1>3, <3>2, <3>3
  <2>2. ASSUME NEW h \in Traders
        PROVE  Refreshing(h)'
    <3>1. Refreshing(h) /\ MapStatus(trade[h].got) \in OrderStatus
      BY <1>0, StatusFacts DEF ReportInv, BridgeTypeOK, Trade
    <3>2. CASE trade[h].at \in {"fetch", "write"}
      <4>1. PICK r \in DOMAIN remote :
                /\ trade[h].id = ShiftId(r)
                /\ trade[h].at = "write" => Says(MapStatus(trade[h].got), remote[r])
        BY <3>1, <3>2 DEF Refreshing
      <4>2. trade[h].at = "write" => Says(MapStatus(trade[h].got), remote'[r])
        BY <1>3, <3>1, <4>1
      <4>3. QED BY <1>1, <1>2, <3>1, <3>2, <4>1, <4>2 DEF Refreshing
    <3>3. CASE trade[h].at \notin {"fetch", "write"}
      BY <1>2, <3>1, <3>3 DEF Refreshing
    <3>4. QED BY <3>2, <3>3
  <2>3. QED BY <2>1, <2>2 DEF ReportInv
<1>8. QED BY <1>4, <1>5, <1>6, <1>7 DEF BridgeInv

(* The invariant of the orders holds at first. *)
LEMMA BridgeBegins == BridgeInit => BridgeInv
<1> SUFFICES ASSUME BridgeInit PROVE BridgeInv
  OBVIOUS
<1>1. /\ NoTrade \in Trade /\ NoTrade.at = "idle" /\ NoTrade.refused = {}
  BY DEF NoTrade, Trade, TradeStep, Routes, Quoters, OrderStatus, Remote
<1>2. /\ orders = [id \in OrderIds |-> "none"] /\ stamped = {} /\ remote = <<>> /\ losses = 0
      /\ quotes = [p \in {"lifi", "sideshift"} |-> 0] /\ trade = [h \in Traders |-> NoTrade]
  BY DEF BridgeInit
<1>3. remote \in Seq(Remote) /\ Len(remote) = 0 /\ DOMAIN remote = {}
  BY <1>2, EmptySeq
<1>4. BridgeTypeOK
  <2>1. 0 \in 0..MaxQuotes /\ 0 \in 0..MaxLosses /\ 0 <= MaxShifts
    BY BridgeAssumption
  <2>2. QED BY <1>1, <1>2, <1>3, <2>1 DEF BridgeTypeOK, OrderStatus
<1>5. QuoteInv /\ ReportInv /\ Inserting = {}
  BY <1>1, <1>2, <1>3 DEF QuoteInv, Asked, ReportInv, EndsAsReported, Refreshing, Inserting
<1>6. ShiftInv
  <2>1. \A s \in Shifts : orders[ShiftId(s)] = "none"
    BY <1>2 DEF ShiftId, OrderIds
  <2>2. {s \in DOMAIN remote : orders[<<"sideshift", s>>] = "none"} = {}
    BY <1>3
  <2>3. ShiftsTracked
    BY <1>2, <1>5, <2>2, FS_EmptySet DEF ShiftsTracked
  <2>4. QED BY <1>5, <2>1, <2>3 DEF ShiftInv
<1>7. QED BY <1>4, <1>5, <1>6 DEF BridgeInv

(* One step keeps the invariant of the orders. *)
LEMMA BridgeStep == BridgeInv /\ [BridgeNext]_bridgeVars => BridgeInv'
<1> SUFFICES ASSUME BridgeInv, [BridgeNext]_bridgeVars PROVE BridgeInv'
  OBVIOUS
<1>1. CASE UNCHANGED bridgeVars
  BY ZenonT(40), <1>1 DEF bridgeVars, BridgeInv, BridgeTypeOK, QuoteInv, Asked, ShiftInv, ShiftsTracked,
              Inserting, ReportInv, EndsAsReported, Refreshing
<1>2. ASSUME NEW h \in Traders, DropTrade(h)
      PROVE  BridgeInv'
  <2>1. CASE h \in Inserting
    BY <1>2, <2>1, LossStep
  <2>2. CASE h \notin Inserting
    BY <1>2, <2>2, QuietStep DEF Quiet
  <2>3. QED BY <2>1, <2>2
<1>3. CASE BridgeNext
  <2>1. ASSUME NEW s \in DOMAIN remote, MoveShift(s)
        PROVE  BridgeInv'
    BY <2>1, MoveStep
  <2>2. ASSUME NEW h \in Traders, CreateShift(h) \/ InsertOrder(h) \/ WriteStatus(h) \/ DropTrade(h)
        PROVE  BridgeInv'
    BY <1>2, <2>2, CreateStep, InsertStep, WriteStep
  <2>3. ASSUME NEW h \in Traders, Quiet(h)
        PROVE  BridgeInv'
    BY <2>3, QuietStep
  <2>4. QED BY <1>3, <2>1, <2>2, <2>3 DEF BridgeNext, Quiet
<1>4. QED BY <1>1, <1>3

(* Whatever the requests and SideShift do, quotes, rows and orders agree. *)
THEOREM BridgeInvariance == BridgeSpec => []BridgeInv
BY BridgeBegins, BridgeStep, PTL DEF BridgeSpec

(* QuoteRefusedByAll, for any number of requests. *)
THEOREM QuoteRefusedByAllHolds == BridgeSpec => []QuoteRefusedByAll
<1>1. BridgeInv => QuoteRefusedByAll
  BY DEF BridgeInv, QuoteInv, Asked, QuoteRefusedByAll
<1>2. QED BY <1>1, BridgeInvariance, PTL

(* ShiftsTracked, for any number of requests and orders. *)
THEOREM ShiftsTrackedHolds == BridgeSpec => []ShiftsTracked
<1>1. BridgeInv => ShiftsTracked
  BY DEF BridgeInv, ShiftInv
<1>2. QED BY <1>1, BridgeInvariance, PTL

(* EndsAsReported, for any number of requests and orders: a refresh writes an *)
(* end only after SideShift came to it, and SideShift comes back from none.  *)
THEOREM EndsAsReportedHolds == BridgeSpec => []EndsAsReported
<1>1. BridgeInv => EndsAsReported
  BY DEF BridgeInv, ReportInv
<1>2. QED BY <1>1, BridgeInvariance, PTL

-----------------------------------------------------------------------------
(* The composition that TLC runs.                                            *)

(* A behaviour of the run is one of each component, which moves or stands      *)
(* still.                                                                    *)
THEOREM PartsFollowed == Spec => HistorySpec /\ BridgeSpec /\ GateSpec
<1>1. Init => HistoryInit /\ BridgeInit /\ GateInit
  BY DEF Init
<1>2. [Next]_<<historyVars, bridgeVars, gateVars, part>>
         => /\ [HistoryNext]_historyVars /\ [BridgeNext]_bridgeVars /\ [GateNext]_gateVars
  BY DEF Next
<1>3. QED BY <1>1, <1>2, PTL DEF Spec, HistorySpec, BridgeSpec, GateSpec

(* TypeOK holds in every reachable state of the three.                       *)
THEOREM TypeCorrect == Spec => []TypeOK
<1>1. HistoryTypeOK /\ BridgeInv /\ GateInv => TypeOK
  BY DEF TypeOK, BridgeInv, GateInv
<1>2. QED BY <1>1, PartsFollowed, HistoryInvariance, BridgeInvariance, GateInvariance, PTL
=============================================================================
