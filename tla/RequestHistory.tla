---------------------------- MODULE RequestHistory ----------------------------
(***************************************************************************)
(* The request history of one user, kept to the newest entries by a prune   *)
(* that follows each insert: the entries beyond the cap are read, and then  *)
(* deleted by _id.  An entry is dated before it is inserted, requests       *)
(* interleave, and one that is cut off leaves its prune to the others.      *)
(*                                                                         *)
(* An entry is the place of its executed_at in the order of all of them.    *)
(***************************************************************************)
EXTENDS Naturals, FiniteSets

CONSTANTS
    Recorders,     \* requests about the history at a time
    MaxEntries,    \* MAX_ENTRIES_PER_USER
    MaxDated,      \* bound on the entries ever dated
    MaxCuts        \* bound on the prunes cut off

ASSUME HistoryAssumption ==
    /\ IsFiniteSet(Recorders)
    /\ MaxEntries \in Nat \ {0}
    /\ MaxDated \in Nat
    /\ MaxCuts \in Nat

VARIABLES
    history,   \* the entries in the database
    dated,     \* entries dated so far; the newest one
    shared,    \* those recorded in a workspace
    record,    \* the call each request is about to make
    recorded,  \* history: the entries ever inserted
    cutOff     \* history: entries whose prune was cut off, and that no prune
               \* begun since has finished

historyVars == <<history, dated, shared, record, recorded, cutOff>>

-----------------------------------------------------------------------------
Entries == 1..MaxDated
RecordStep == {"idle", "insert", "find", "delete"}
Record == [at : RecordStep, entry : 0..MaxDated, stale : SUBSET Entries,
           seen : SUBSET Entries]

NoRecord == [at |-> "idle", entry |-> 0, stale |-> {}, seen |-> {}]

Done(h) == record' = [record EXCEPT ![h] = NoRecord]

(* Mutation of Stale: the entries are sorted the other way. *)
StaleAscending == {e \in history : Cardinality({f \in history : f < e}) >= MaxEntries}

(* Mutation of Stale: one entry too many is skipped. *)
StaleBeyondOneMore == {e \in history : Cardinality({f \in history : f > e}) > MaxEntries}

(* What a find sorted by executed_at, newest first, skips to. *)
Stale == {e \in history : Cardinality({f \in history : f > e}) >= MaxEntries}

HistoryInit ==
    /\ history = {}
    /\ dated = 0
    /\ shared = {}
    /\ record = [h \in Recorders |-> NoRecord]
    /\ recorded = {}
    /\ cutOff = {}

-----------------------------------------------------------------------------
(* HistoryEntry::new reads the clock, once the workspace was checked. *)
DateEntry(h, inWorkspace) ==
    /\ record[h].at = "idle"
    /\ dated < MaxDated
    /\ dated' = dated + 1
    /\ shared' = IF inWorkspace THEN shared \cup {dated'} ELSE shared
    /\ record' = [record EXCEPT ![h].at = "insert", ![h].entry = dated']
    /\ UNCHANGED <<history, recorded, cutOff>>

InsertEntry(h) ==
    /\ record[h].at = "insert"
    /\ history' = history \cup {record[h].entry}
    /\ recorded' = recorded \cup {record[h].entry}
    /\ record' = [record EXCEPT ![h].at = "find"]
    /\ UNCHANGED <<dated, shared, cutOff>>

FindStale(h) ==
    /\ record[h].at = "find"
    /\ record' = [record EXCEPT ![h].at = "delete", ![h].stale = Stale, ![h].seen = cutOff]
    /\ UNCHANGED <<history, dated, shared, recorded, cutOff>>

(* delete_many, unless nothing is stale. *)
DeleteStale(h) ==
    /\ record[h].at = "delete"
    /\ history' = history \ record[h].stale
    /\ cutOff' = cutOff \ record[h].seen
    /\ Done(h)
    /\ UNCHANGED <<dated, shared, recorded>>

(* A call fails, or the request is cut off. *)
CutOff(h) ==
    /\ record[h].at # "idle"
    /\ IF record[h].at = "insert" THEN UNCHANGED cutOff
       ELSE /\ Cardinality(cutOff) < MaxCuts
            /\ cutOff' = cutOff \cup {record[h].entry}
    /\ Done(h)
    /\ UNCHANGED <<history, dated, shared, recorded>>

DeleteEntry(e) ==
    /\ history' = history \ {e}
    /\ UNCHANGED <<dated, shared, record, recorded, cutOff>>

(* clear: everything, or what was recorded in one workspace. *)
ClearHistory(ofWorkspace) ==
    /\ history' = IF ofWorkspace THEN history \ shared ELSE {}
    /\ UNCHANGED <<dated, shared, record, recorded, cutOff>>

HistoryNext ==
    \/ \E h \in Recorders :
          \/ \E inWorkspace \in BOOLEAN : DateEntry(h, inWorkspace)
          \/ InsertEntry(h) \/ FindStale(h) \/ DeleteStale(h) \/ CutOff(h)
    \/ \E e \in history : DeleteEntry(e)
    \/ \E ofWorkspace \in BOOLEAN : ClearHistory(ofWorkspace)

HistorySpec == HistoryInit /\ [][HistoryNext]_historyVars

-----------------------------------------------------------------------------
HistoryTypeOK ==
    /\ history \subseteq recorded
    /\ dated \in 0..MaxDated
    /\ shared \subseteq 1..dated
    /\ record \in [Recorders -> Record]
    /\ recorded \subseteq 1..dated
    /\ cutOff \subseteq recorded

Pruning == {h \in Recorders : record[h].at \in {"find", "delete"}}

(* "pruned ... rather than left to grow forever": however the prunes          *)
(* interleave, the entries exceed the cap by one for each prune that has not *)
(* ended or was cut off at most, and the next one repairs what those left.   *)
HistoryBounded ==
    Cardinality(history) <= MaxEntries + Cardinality(Pruning) + Cardinality(cutOff)

(* "Keeps only the most recent": a prune, on what it read before the entries  *)
(* that others insert and delete, removes no entry unless as many as the cap *)
(* that are newer were recorded.                                             *)
PrunesOldest ==
    [][\A h \in Recorders : (record[h].at = "delete" /\ record'[h].at = "idle") =>
          \A e \in history \ history' :
             Cardinality({f \in recorded : f > e}) >= MaxEntries]_historyVars
===============================================================================
