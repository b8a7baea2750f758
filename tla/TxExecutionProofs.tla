-------------------------- MODULE TxExecutionProofs --------------------------
(***************************************************************************)
(* Theorems about TxExecution, for every set of handlers, bodies, tasks,    *)
(* keys and wallets, every cap, and every choice of the calls that fail.    *)
(*                                                                         *)
(* The inductive invariant is in four parts, one for each safety property   *)
(* and one for the executions themselves: what a process knows at a step    *)
(* (RunInv), who holds an idempotency key (KeyInv) and what it has sent     *)
(* (OnceInv), which task is run (TaskInv), and how many executions have     *)
(* passed the gate of a wallet (CapInv).                                    *)
(***************************************************************************)
EXTENDS TxExecution, Counting

-----------------------------------------------------------------------------
(* A process that is in an execution has a template of its own kind, and the *)
(* limit it compares with; one that is in none holds no key.                 *)
RunInv ==
    /\ \A h \in Handlers : run[h].at # "idle" => run[h].tpl \in Bodies
    /\ run[Scheduler].at # "idle" => run[Scheduler].tpl \in Tasks
    /\ run[Scheduler].idem = None
    /\ \A p \in Procs :
          /\ run[p].at = "idle" => run[p].idem = None
          /\ run[p].at = "usage" => run[p].cap # None

(* A handler that claimed a key holds it alone: its record is the claim still. *)
Claimed(h) == idem[run[h].idem] = [body |-> run[h].tpl, result |-> 0]

(* What a handler is about to answer was broadcast under its key. *)
Sent(h) ==
    /\ run[h].hash # 0
    /\ <<run[h].tpl, run[h].hash>> \in sent[run[h].idem]

(* What a record says is what was broadcast, and what was answered from it.  *)
Stored(k) ==
    IF idem[k].result = 0 THEN answered[k] = {}
    ELSE /\ <<idem[k].body, idem[k].result>> \in sent[k]
         /\ answered[k] \subseteq {<<idem[k].body, idem[k].result>>}

(* A key has one holder, and its record says what was sent. *)
KeyInv ==
    /\ \A h, g \in Handlers : run[h].idem # None /\ run[h].idem = run[g].idem => h = g
    /\ \A h \in Handlers :
          run[h].idem # None =>
              /\ Claimed(h)
              /\ run[h].at \in {"record", "done"} => Sent(h)
    /\ \A k \in IdemKeys : Stored(k)

(* A key that was released, or whose holder has not broadcast, has sent nothing. *)
Unsent == {"authorize", "policy", "usage", "broadcast", "failed"}

(* A key of which no execution failed after its broadcast sends one transaction. *)
OnceInv ==
    /\ \A k \in IdemKeys \ unsure :
          /\ \A x, y \in sent[k] : x = y
          /\ idem[k] = NoRecord => sent[k] = {}
    /\ \A h \in Handlers :
          run[h].idem \notin unsure \cup {None} /\ run[h].at \in Unsent =>
              sent[run[h].idem] = {}

(* A task the scheduler has broadcast, in the run under way or earlier in the tick. *)
Sending(t) == run[Scheduler].tpl = t /\ run[Scheduler].at \in {"record", "done", "failed"}
Over(t) == t \in OneShot \ batch /\ (run[Scheduler].at = "idle" \/ run[Scheduler].tpl # t)

(* A task runs once for each time its batch holds it, and is due until the   *)
(* run is marked.  One that was broadcast is in the run under way, past its  *)
(* broadcast, or it is a TimeOnce task this tick is done with.               *)
TaskInv ==
    /\ batch \subseteq due
    /\ run[Scheduler].at # "idle" => run[Scheduler].tpl \in due \ batch
    /\ \A t \in ran : Sending(t) \/ Over(t)

(* Executions that passed the gate of a wallet and are not in its usage.     *)
At(w, steps) == {p \in Procs : run[p].at \in steps /\ WalletUsed(p) = w}
Recording(w) == At(w, {"record"})
Passed(w) == At(w, {"broadcast", "record"})

(* Every broadcast of the day is in the usage, about to be, or was lost. *)
Counted(w) == today[w] <= usage[w] + unrecorded[w] + Cardinality(Recording(w))

(* What passed the gate was compared with a cap no higher than the ceiling.  *)
Gated(w) ==
    ceiling[w] # None =>
        /\ cap[w] # None /\ cap[w] <= ceiling[w]
        /\ \A p \in At(w, {"usage", "broadcast"}) : run[p].cap # None /\ run[p].cap <= ceiling[w]
        /\ usage[w] + Cardinality(Passed(w)) < ceiling[w] + Cardinality(Procs)
        /\ Passed(w) # {} => ceiling[w] > 0

(* So it is for every wallet. *)
CapInv == \A w \in Wallets : Counted(w) /\ Gated(w)

(* The inductive invariant. *)
IInv == TypeOK /\ RunInv /\ KeyInv /\ OnceInv /\ TaskInv /\ CapInv

-----------------------------------------------------------------------------
(* Type correctness, together with what RunInv says of each execution. *)

(* An execution that moves to another step changes nothing else. *)
LEMMA AdvanceEffect ==
    ASSUME TypeOK, NEW p \in Procs, NEW step \in Step, Advance(p, step)
    PROVE  /\ run' \in [Procs -> Run]
           /\ run'[p] = [run[p] EXCEPT !.at = step]
           /\ run'[p].at = step
           /\ run'[p].tpl = run[p].tpl
           /\ run'[p].idem = run[p].idem
           /\ run'[p].cap = run[p].cap
           /\ run'[p].hash = run[p].hash
           /\ \A q \in Procs \ {p} : run'[q] = run[q]
BY DEF Advance, TypeOK, Run

(* The record of no execution, field by field. *)
LEMMA NoRunFields ==
    /\ NoRun \in Run
    /\ NoRun.at = "idle" /\ NoRun.tpl = None /\ NoRun.idem = None
    /\ NoRun.cap = None /\ NoRun.hash = 0
BY DEF NoRun, Run, Step, Limit

(* An execution that ends leaves its process with none. *)
LEMMA FinishEffect ==
    ASSUME TypeOK, NEW p \in Procs, Finish(p)
    PROVE  /\ run' \in [Procs -> Run]
           /\ run'[p] = NoRun
           /\ \A q \in Procs \ {p} : run'[q] = run[q]
BY NoRunFields DEF Finish, TypeOK

(* The wallet of an execution is one of the wallets. *)
LEMMA WalletUsedType ==
    ASSUME TypeOK, RunInv, NEW p \in Procs, run[p].at # "idle"
    PROVE  /\ run[p].tpl \in Template
           /\ WalletUsed(p) \in Wallets
<1>1. run[p].tpl \in Template
  BY DEF RunInv, Procs, Template
<1>2. QED BY <1>1, TxAssumption DEF WalletUsed

(* What RunInv says of one process. *)
RunOf(p) ==
    /\ run[p].at # "idle" => run[p].tpl \in IF p \in Handlers THEN Bodies ELSE Tasks
    /\ p \notin Handlers \/ run[p].at = "idle" => run[p].idem = None
    /\ run[p].at = "usage" => run[p].cap # None

(* RunInv speaks of each process on its own. *)
LEMMA RunInvLocal == RunInv <=> \A p \in Procs : RunOf(p)
BY TxAssumption DEF RunInv, RunOf, Procs

(* A step of one process has to keep RunInv of that process only. *)
LEMMA RunInvStep ==
    ASSUME RunInv, NEW p \in Procs, RunOf(p)', \A q \in Procs \ {p} : run'[q] = run[q]
    PROVE  RunInv'
<1>1. \A q \in Procs : RunOf(q)'
  BY RunInvLocal DEF RunOf
<1>2. QED BY <1>1, TxAssumption DEF RunInv, RunOf, Procs

(* No execution keeps RunInv trivially. *)
LEMMA IdleRunOf ==
    ASSUME NEW p \in Procs, run'[p] = NoRun
    PROVE  RunOf(p)'
BY NoRunFields DEF RunOf

(* The initial states satisfy the types. *)
LEMMA InitType == Init => TypeOK /\ RunInv
<1> SUFFICES ASSUME Init PROVE TypeOK /\ RunInv
  OBVIOUS
<1>1. run \in [Procs -> Run] /\ \A p \in Procs : run[p] = NoRun
  BY NoRunFields DEF Init
<1>2. RunInv
  BY <1>1, NoRunFields, RunInvLocal DEF RunOf
<1>3. TypeOK
  <2>1. NoRecord \in IdemDoc
    BY DEF NoRecord, IdemDoc
  <2>2. cap \in [Wallets -> Limit] /\ ceiling \in [Wallets -> Limit]
    BY TxAssumption DEF Init, Limit
  <2>3. QED BY <1>1, <2>1, <2>2, TxAssumption DEF Init, TypeOK, TaskStatus, KeyStatus
<1>4. QED BY <1>2, <1>3

(* What users, the calendar and the chain do to documents keeps them typed.  *)
LEMMA OutsideType ==
    ASSUME TypeOK, RunInv,
           \/ \E k \in SessionKeys : CreateKey(k) \/ Revoke(k)
           \/ \E w \in Wallets : DeletePolicy(w) \/ (\E c \in 0..MaxCap : UpsertPolicy(w, c))
           \/ NewDay
           \/ \E t \in Tasks : CreateTask(t) \/ ComesDue(t)
           \/ \E t \in Tasks, s \in TaskStatus \ {"absent"} : SetStatus(t, s)
           \/ \E k \in IdemKeys : ForgetKey(k)
           \/ Poll
    PROVE  TypeOK' /\ RunInv'
<1>1. RunInv'
  <2>1. run' = run
    BY DEF CreateKey, Revoke, DeletePolicy, UpsertPolicy, NewDay, CreateTask, ComesDue, SetStatus,
           ForgetKey, Poll
  <2>2. QED BY <2>1 DEF RunInv
<1>2. TypeOK'
  <2>1. CASE \E k \in SessionKeys : CreateKey(k) \/ Revoke(k)
    BY <2>1 DEF CreateKey, Revoke, TypeOK, ledger, KeyStatus
  <2>2. CASE \E w \in Wallets : DeletePolicy(w)
    BY <2>2 DEF DeletePolicy, TypeOK, ledger, Limit
  <2>3. ASSUME NEW w \in Wallets, NEW c \in 0..MaxCap, UpsertPolicy(w, c)
        PROVE  TypeOK'
    <3>1. c \in Limit /\ ceiling[w] \in Limit
      BY TxAssumption DEF Limit, TypeOK
    <3>2. cap' \in [Wallets -> Limit] /\ ceiling' \in [Wallets -> Limit]
      BY <2>3, <3>1 DEF UpsertPolicy, TypeOK
    <3>3. QED BY <2>3, <3>2 DEF UpsertPolicy, TypeOK
  <2>4. CASE NewDay
    BY <2>4 DEF NewDay, TypeOK
  <2>5. CASE \E t \in Tasks : CreateTask(t)
    BY <2>5 DEF CreateTask, TypeOK, ledger, TaskStatus
  <2>6. CASE \E t \in Tasks : ComesDue(t)
    BY <2>6 DEF ComesDue, TypeOK, ledger
  <2>7. CASE \E t \in Tasks, s \in TaskStatus \ {"absent"} : SetStatus(t, s)
    BY <2>7 DEF SetStatus, TypeOK, ledger
  <2>8. CASE \E k \in IdemKeys : ForgetKey(k)
    BY <2>8 DEF ForgetKey, TypeOK, NoRecord, IdemDoc
  <2>9. CASE Poll
    BY <2>9 DEF Poll, TypeOK, ledger
  <2>10. QED BY <2>1, <2>2, <2>3, <2>4, <2>5, <2>6, <2>7, <2>8, <2>9
<1>3. QED BY <1>1, <1>2

(* The pipeline of an execution keeps the types. *)
LEMMA PipelineType ==
    ASSUME TypeOK, RunInv, NEW p \in Procs, Pipeline(p)
    PROVE  TypeOK' /\ RunInv'
<1>1. run[p].at # "idle" /\ run[p] \in Run
  BY DEF Pipeline, Fail, Authorize, FindPolicy, CheckUsage, Broadcast, RecordUsage, TypeOK
<1>2. RunOf(p) /\ run[p].tpl \in Template /\ WalletUsed(p) \in Wallets
  BY <1>1, RunInvLocal, WalletUsedType
<1>3. ASSUME NEW step \in Step \ {"idle", "usage"}, Advance(p, step)
      PROVE  run' \in [Procs -> Run] /\ RunInv'
  <2>1. RunOf(p)'
    BY <1>1, <1>2, <1>3, AdvanceEffect DEF RunOf
  <2>2. QED BY <1>3, <2>1, AdvanceEffect, RunInvStep
<1>4. CASE Fail(p)
  BY <1>3, <1>4 DEF Fail, TypeOK, ledger, Step
<1>5. CASE Authorize(p)
  BY <1>3, <1>5 DEF Authorize, TypeOK, ledger, Step
<1>6. CASE FindPolicy(p)
  <2>1. cap[WalletUsed(p)] \in Limit
    BY <1>2 DEF TypeOK
  <2>2. run' \in [Procs -> Run] /\ \A q \in Procs \ {p} : run'[q] = run[q]
    BY <1>6, <2>1 DEF FindPolicy, TypeOK, Run, Step
  <2>3. /\ run'[p].at = (IF cap[WalletUsed(p)] = None THEN "broadcast" ELSE "usage")
        /\ run'[p].tpl = run[p].tpl /\ run'[p].idem = run[p].idem
        /\ run'[p].cap = cap[WalletUsed(p)]
    BY <1>1, <1>6 DEF FindPolicy, TypeOK, Run
  <2>4. RunOf(p)'
    BY <1>2, <1>1, <2>3 DEF RunOf
  <2>5. QED BY <1>6, <2>2, <2>4, RunInvStep DEF FindPolicy, TypeOK, ledger
<1>7. CASE CheckUsage(p)
  BY <1>3, <1>7 DEF CheckUsage, TypeOK, ledger, Step
<1>8. CASE Broadcast(p)
  <2>1. /\ run' \in [Procs -> Run] /\ \A q \in Procs \ {p} : run'[q] = run[q]
        /\ run'[p].at \in {"record", "failed"}
        /\ run'[p].tpl = run[p].tpl /\ run'[p].idem = run[p].idem
    <3>1. txs + 1 \in Nat
      BY TxAssumption DEF TypeOK
    <3>2. CASE run' = [run EXCEPT ![p].at = "record", ![p].hash = txs + 1]
      BY <1>1, <3>1, <3>2 DEF TypeOK, Run, Step
    <3>3. CASE run' = [run EXCEPT ![p].at = "failed", ![p].hash = txs + 1]
      BY <1>1, <3>1, <3>3 DEF TypeOK, Run, Step
    <3>4. QED BY <1>8, <3>2, <3>3 DEF Broadcast
  <2>2. RunOf(p)'
    BY <1>1, <1>2, <2>1 DEF RunOf
  <2>3. txs' \in 0..MaxTx /\ txs + 1 \in Nat
    BY <1>8, TxAssumption DEF Broadcast, TypeOK
  <2>4. sent' \in [IdemKeys -> SUBSET (Template \X Nat)]
    BY <1>1, <1>2, <1>8, <2>3 DEF Broadcast, TypeOK, Run
  <2>5. today' \in [Wallets -> Nat] /\ unrecorded' \in [Wallets -> Nat]
    BY <1>2, <1>8 DEF Broadcast, TypeOK
  <2>. KeyUsed(p) \in SUBSET IdemKeys
    BY <1>1 DEF KeyUsed, Run
  <2>6. unsure' \in SUBSET IdemKeys
    BY <1>8 DEF Broadcast, TypeOK
  <2>7. ran' \in SUBSET Tasks
    BY <1>8 DEF Broadcast, TypeOK
  <2>8. QED
    BY <1>8, <2>1, <2>2, <2>3, <2>4, <2>5, <2>6, <2>7, RunInvStep DEF Broadcast, TypeOK
<1>9. CASE RecordUsage(p)
  <2>1. usage' \in [Wallets -> Nat] /\ unrecorded' \in [Wallets -> Nat]
    BY <1>2, <1>9 DEF RecordUsage, TypeOK
  <2>2. run' \in [Procs -> Run] /\ RunInv'
    BY <1>3, <1>9 DEF RecordUsage, Step
  <2>3. unsure' \in SUBSET IdemKeys
    BY <1>1, <1>9 DEF RecordUsage, KeyUsed, Run, TypeOK
  <2>4. QED BY <1>9, <2>1, <2>2, <2>3 DEF RecordUsage, TypeOK
<1>10. QED
  BY <1>4, <1>5, <1>6, <1>7, <1>8, <1>9 DEF Pipeline

(* Claiming a key, answering from its record, and ending keep the types. *)
LEMMA HandlerType ==
    ASSUME TypeOK, RunInv, NEW h \in Handlers,
           \/ \E k \in IdemKeys \cup {None}, b \in Bodies : Begin(h, k, b)
           \/ Complete(h) \/ Abort(h) \/ Drop(h)
    PROVE  TypeOK' /\ RunInv'
<1>1. h \in Procs /\ run[h] \in Run /\ RunOf(h)
  BY RunInvLocal DEF Procs, TypeOK
<1>2. ASSUME NEW k \in IdemKeys \cup {None}, NEW b \in Bodies, Begin(h, k, b)
      PROVE  TypeOK' /\ RunInv'
  <2>1. CASE /\ run' = [run EXCEPT ![h] = [NoRun EXCEPT !.at = "authorize", !.tpl = b, !.idem = k]]
             /\ idem' = IF k = None THEN idem ELSE [idem EXCEPT ![k] = [body |-> b, result |-> 0]]
             /\ UNCHANGED answered
    <3>1. /\ run' \in [Procs -> Run] /\ \A q \in Procs \ {h} : run'[q] = run[q]
          /\ run'[h].at = "authorize" /\ run'[h].tpl = b
      BY <1>1, <2>1, NoRunFields DEF TypeOK, NoRun, Run, Step, Template
    <3>2. RunOf(h)'
      BY <1>1, <3>1 DEF RunOf
    <3>3. idem' \in [IdemKeys -> IdemDoc]
      <4>1. [body |-> b, result |-> 0] \in IdemDoc
        BY DEF IdemDoc
      <4>2. QED BY <2>1, <4>1 DEF TypeOK
    <3>4. QED BY <1>1, <1>2, <2>1, <3>1, <3>2, <3>3, RunInvStep DEF Begin, TypeOK
  <2>2. CASE /\ k # None
             /\ answered' = [answered EXCEPT ![k] = @ \cup {<<b, idem[k].result>>}]
             /\ UNCHANGED <<run, idem>>
    <3>1. idem[k].result \in Nat /\ b \in Template
      BY <2>2 DEF TypeOK, IdemDoc, Template
    <3>2. answered' \in [IdemKeys -> SUBSET (Template \X Nat)]
      BY <2>2, <3>1 DEF TypeOK
    <3>3. QED BY <1>2, <2>2, <3>2 DEF Begin, TypeOK, RunInv
  <2>3. QED BY <1>2, <2>1, <2>2 DEF Begin
<1>3. ASSUME Finish(h)
      PROVE  run' \in [Procs -> Run] /\ RunInv'
  BY <1>1, <1>3, FinishEffect, IdleRunOf, RunInvStep
<1>4. CASE Complete(h)
  <2>1. run[h].tpl \in Template /\ run[h].hash \in Nat /\ run[h].idem \in IdemKeys \cup {None}
    BY <1>1, <1>4 DEF Complete, RunOf, Template, Run
  <2>2. idem' \in [IdemKeys -> IdemDoc] /\ answered' \in [IdemKeys -> SUBSET (Template \X Nat)]
    <3>1. CASE run[h].idem \in IdemKeys
      <4>1. <<run[h].tpl, run[h].hash>> \in Template \X Nat
        BY <2>1
      <4>2. answered' \in [IdemKeys -> SUBSET (Template \X Nat)]
        BY <1>4, <3>1, <4>1 DEF Complete, TypeOK
      <4>3. [idem[run[h].idem] EXCEPT !.result = run[h].hash] \in IdemDoc
        BY SMTT(40), <2>1, <3>1 DEF TypeOK, IdemDoc
      <4>4. idem' \in [IdemKeys -> IdemDoc]
        BY <1>4, <4>3 DEF Complete, TypeOK
      <4>5. QED BY <4>2, <4>4
    <3>2. CASE run[h].idem = None
      BY <1>4, <3>2 DEF Complete, TypeOK
    <3>3. QED BY <2>1, <3>1, <3>2
  <2>3. QED BY <1>3, <1>4, <2>2 DEF Complete, TypeOK
<1>5. CASE Abort(h)
  <2>1. idem' \in [IdemKeys -> IdemDoc]
    BY <1>5 DEF Abort, TypeOK, IdemDoc, NoRecord
  <2>2. QED BY <1>3, <1>5, <2>1 DEF Abort, TypeOK, ledger
<1>6. CASE Drop(h)
  <2>1. unrecorded' \in [Wallets -> Nat]
    <3>1. WalletUsed(h) \in Wallets
      BY <1>1, <1>6, WalletUsedType DEF Drop
    <3>2. QED BY <1>6, <3>1 DEF Drop, TypeOK
  <2>2. QED BY <1>3, <1>6, <2>1 DEF Drop, TypeOK
<1>7. QED BY <1>2, <1>4, <1>5, <1>6

(* The scheduler's loop and a crash keep the types. *)
LEMMA SchedulerType ==
    ASSUME TypeOK, RunInv,
           (\E t \in Tasks : StartTask(t)) \/ MarkRan \/ Crash
    PROVE  TypeOK' /\ RunInv'
<1>1. Scheduler \in Procs /\ Scheduler \notin Handlers
  BY TxAssumption DEF Procs
<1>2. ASSUME NEW t \in Tasks, StartTask(t)
      PROVE  TypeOK' /\ RunInv'
  <2>1. /\ run' \in [Procs -> Run] /\ \A q \in Procs \ {Scheduler} : run'[q] = run[q]
        /\ run'[Scheduler].at = "authorize" /\ run'[Scheduler].tpl = t
        /\ run'[Scheduler].idem = None
    BY <1>1, <1>2, NoRunFields DEF StartTask, TypeOK, NoRun, Run, Step, Template
  <2>2. RunOf(Scheduler)'
    BY <1>1, <2>1 DEF RunOf
  <2>3. QED BY <1>1, <1>2, <2>1, <2>2, RunInvStep DEF StartTask, TypeOK, ledger
<1>3. CASE MarkRan
  <2>1. run' \in [Procs -> Run] /\ RunInv'
    BY <1>1, <1>3, FinishEffect, IdleRunOf, RunInvStep DEF MarkRan
  <2>2. due' \in SUBSET Tasks /\ ran' \in SUBSET Tasks
    BY <1>3 DEF MarkRan, TypeOK
  <2>3. QED BY <1>3, <2>1, <2>2 DEF MarkRan, TypeOK
<1>4. CASE Crash
  <2>1. run' \in [Procs -> Run] /\ \A p \in Procs : run'[p] = NoRun
    BY <1>4, NoRunFields DEF Crash
  <2>2. \A p \in Procs : RunOf(p)'
    BY <2>1, IdleRunOf
  <2>3. RunInv'
    BY <2>2, TxAssumption DEF RunInv, RunOf, Procs
  <2>4. \A w \in Wallets : Cardinality(Recording(w)) \in Nat
    <3>1. IsFiniteSet(Procs) /\ \A w \in Wallets : Recording(w) \in SUBSET Procs
      BY TxAssumption, FS_AddElement DEF Procs, Recording, At
    <3>2. QED BY <3>1, PartSize
  <2>5. unrecorded' \in [Wallets -> Nat]
    BY <1>4, <2>4 DEF Crash, TypeOK, Recording, At
  <2>6. QED BY <1>4, <2>1, <2>3, <2>5 DEF Crash, TypeOK
<1>5. QED BY <1>2, <1>3, <1>4

(* Every step keeps the types. *)
LEMMA TypeStep ==
    ASSUME TypeOK, RunInv, [Next]_vars
    PROVE  TypeOK' /\ RunInv'
<1>1. CASE UNCHANGED vars
  BY <1>1 DEF vars, ledger, TypeOK, RunInv
<1>2. QED BY <1>1, OutsideType, PipelineType, HandlerType, SchedulerType DEF Next

-----------------------------------------------------------------------------
(* Idempotency keys. *)

(* The key of an execution is one of the keys. *)
LEMMA KeyType ==
    ASSUME TypeOK, NEW h \in Handlers
    PROVE  /\ run[h].idem # None => run[h].idem \in IdemKeys
           /\ h \in Procs
BY DEF TypeOK, Run, Procs

(* KeyInv survives a step that leaves records and answers alone, takes no    *)
(* broadcast back, and gives no process a key.                               *)
LEMMA KeyFrame ==
    ASSUME TypeOK, KeyInv, idem' = idem, answered' = answered,
           \A k \in IdemKeys : sent[k] \subseteq sent'[k],
           \A h \in Handlers :
               run'[h].idem # None =>
                   /\ run'[h].idem = run[h].idem
                   /\ run'[h].tpl = run[h].tpl
                   /\ run'[h].at \in {"record", "done"} => Sent(h)'
    PROVE  KeyInv'
<1>1. \A h, g \in Handlers : run'[h].idem # None /\ run'[h].idem = run'[g].idem => h = g
  BY DEF KeyInv
<1>2. \A h \in Handlers :
          run'[h].idem # None =>
              Claimed(h)' /\ (run'[h].at \in {"record", "done"} => Sent(h)')
  BY DEF KeyInv, Claimed
<1>3. \A k \in IdemKeys : Stored(k)'
  BY DEF KeyInv, Stored
<1>4. QED BY <1>1, <1>2, <1>3 DEF KeyInv

(* So does OnceInv, when nobody who has broadcast moves back.  *)
LEMMA OnceFrame ==
    ASSUME OnceInv, idem' = idem, sent' = sent, unsure \subseteq unsure',
           \A h \in Handlers :
               run'[h].idem \notin unsure' \cup {None} /\ run'[h].at \in Unsent =>
                   run'[h].idem = run[h].idem /\ run[h].at \in Unsent
    PROVE  OnceInv'
BY DEF OnceInv

(* The steps that concern no key. *)
LEMMA KeyOutside ==
    ASSUME TypeOK, RunInv, KeyInv, OnceInv,
           UNCHANGED <<idem, sent, unsure, answered>>,
           \A h \in Handlers : run'[h] = run[h] \/ run'[h] = NoRun
    PROVE  KeyInv' /\ OnceInv'
<1>1. \A h \in Handlers : run'[h].idem # None => run'[h] = run[h]
  BY NoRunFields
<1>2. KeyInv'
  <2>1. \A h \in Handlers :
            run'[h].idem # None =>
                /\ run'[h].idem = run[h].idem
                /\ run'[h].tpl = run[h].tpl
                /\ run'[h].at \in {"record", "done"} => Sent(h)'
    BY <1>1 DEF KeyInv, Sent
  <2>2. QED BY <2>1, KeyFrame
<1>3. OnceInv'
  BY <1>1, OnceFrame
<1>4. QED BY <1>2, <1>3

(* A record that expires is nobody's claim, and takes its history along. *)
LEMMA KeyForget ==
    ASSUME TypeOK, RunInv, KeyInv, OnceInv, NEW k \in IdemKeys, ForgetKey(k)
    PROVE  KeyInv' /\ OnceInv'
<1>1. /\ idem' = [idem EXCEPT ![k] = NoRecord] /\ sent' = [sent EXCEPT ![k] = {}]
      /\ answered' = [answered EXCEPT ![k] = {}] /\ run' = run /\ unsure' = unsure \ {k}
      /\ \A h \in Handlers : run[h].idem # k
  BY DEF ForgetKey, Busy
<1>2. /\ idem'[k] = NoRecord /\ sent'[k] = {} /\ answered'[k] = {}
      /\ \A j \in IdemKeys \ {k} :
            idem'[j] = idem[j] /\ sent'[j] = sent[j] /\ answered'[j] = answered[j]
  BY <1>1 DEF TypeOK
<1>3. \A h \in Handlers : run[h].idem # None => run[h].idem \in IdemKeys \ {k}
  BY <1>1, KeyType
<1>4. KeyInv'
  <2>1. \A h, g \in Handlers : run'[h].idem # None /\ run'[h].idem = run'[g].idem => h = g
    BY <1>1 DEF KeyInv
  <2>2. \A h \in Handlers :
            run'[h].idem # None =>
                Claimed(h)' /\ (run'[h].at \in {"record", "done"} => Sent(h)')
    BY <1>1, <1>2, <1>3 DEF KeyInv, Claimed, Sent
  <2>3. \A j \in IdemKeys : Stored(j)'
    BY <1>2 DEF KeyInv, Stored, NoRecord
  <2>4. QED BY <2>1, <2>2, <2>3 DEF KeyInv
<1>5. OnceInv'
  BY <1>1, <1>2, <1>3 DEF OnceInv
<1>6. QED BY <1>4, <1>5

(* The pipeline keeps both: only Broadcast adds to what a key has sent, and    *)
(* it is of the one handler that holds the key.                              *)
LEMMA KeyPipeline ==
    ASSUME TypeOK, RunInv, KeyInv, OnceInv, NEW p \in Procs, Pipeline(p)
    PROVE  KeyInv' /\ OnceInv'
<1>1. idem' = idem /\ answered' = answered
  BY DEF Pipeline, Fail, Authorize, FindPolicy, CheckUsage, Broadcast, RecordUsage, ledger
<1>2. p \notin Handlers => run[p].idem = None
  BY RunInvLocal DEF RunOf
<1>3. \A q \in Procs \ {p} : run'[q] = run[q]
  BY DEF Pipeline, Fail, Authorize, FindPolicy, CheckUsage, Broadcast, RecordUsage, Advance,
         TypeOK
<1>4. run'[p].idem = run[p].idem /\ run'[p].tpl = run[p].tpl
  BY DEF Pipeline, Fail, Authorize, FindPolicy, CheckUsage, Broadcast, RecordUsage, Advance,
         TypeOK, Run
<1>5. CASE ~ Broadcast(p)
  <2>1. sent' = sent /\ unsure \subseteq unsure'
    BY <1>5 DEF Pipeline, Fail, Authorize, FindPolicy, CheckUsage, RecordUsage, ledger
  <2>2. /\ run'[p].at \in {"record", "done"} => run[p].at = "record" /\ run'[p].hash = run[p].hash
        /\ run'[p].at \in Unsent =>
              run[p].at \in Unsent \/ run[p].idem \in unsure' \cup {None}
    BY <1>5 DEF Pipeline, Fail, Authorize, FindPolicy, CheckUsage, RecordUsage, Advance,
                TypeOK, Run, Unsent, KeyUsed
  <2>3. KeyInv'
    <3>1. \A h \in Handlers :
              run'[h].idem # None =>
                  /\ run'[h].idem = run[h].idem
                  /\ run'[h].tpl = run[h].tpl
                  /\ run'[h].at \in {"record", "done"} => Sent(h)'
      BY <1>3, <1>4, <2>1, <2>2, KeyType DEF KeyInv, Sent
    <3>2. QED BY <1>1, <2>1, <3>1, KeyFrame
  <2>4. OnceInv'
    <3>1. \A h \in Handlers :
              run'[h].idem \notin unsure' \cup {None} /\ run'[h].at \in Unsent =>
                  run'[h].idem = run[h].idem /\ run[h].at \in Unsent
      BY <1>3, <1>4, <2>2, KeyType
    <3>2. QED BY <1>1, <2>1, <3>1, OnceFrame
  <2>5. QED BY <2>3, <2>4
<1>6. CASE Broadcast(p)
  <2>1. /\ run[p].at = "broadcast"
        /\ run'[p].hash = txs + 1
        /\ \/ run'[p].at = "record" /\ unsure' = unsure
           \/ run'[p].at = "failed" /\ unsure' = unsure \cup ({run[p].idem} \ {None})
        /\ run'[p].hash # 0
    <3>1. txs + 1 \in Nat /\ txs + 1 # 0
      BY TxAssumption DEF TypeOK
    <3>. run[p].at = "broadcast"
      BY <1>6 DEF Broadcast
    <3>2. CASE run' = [run EXCEPT ![p].at = "record", ![p].hash = txs + 1]
      BY <1>6, <3>1, <3>2 DEF Broadcast, TypeOK, Run
    <3>3. CASE run' = [run EXCEPT ![p].at = "failed", ![p].hash = txs + 1]
      BY <1>6, <3>1, <3>3 DEF Broadcast, KeyUsed, TypeOK, Run
    <3>4. QED BY <1>6, <3>2, <3>3 DEF Broadcast
  <2>2. CASE run[p].idem = None
    <3>1. sent' = sent
      BY <1>6, <2>2 DEF Broadcast
    <3>2. \A h \in Handlers : run'[h].idem # None => h # p /\ run'[h] = run[h]
      BY <1>3, <1>4, <2>2, KeyType
    <3>3. KeyInv'
      BY <1>1, <3>1, <3>2, KeyFrame DEF KeyInv, Sent
    <3>4. OnceInv'
      BY <1>1, <2>1, <2>2, <3>1, <3>2, OnceFrame
    <3>5. QED BY <3>3, <3>4
  <2>3. CASE run[p].idem # None
    <3>. DEFINE k == run[p].idem
    <3>1. p \in Handlers /\ k \in IdemKeys
      BY <1>2, <2>3, KeyType
    <3>2. /\ sent'[k] = sent[k] \cup {<<run[p].tpl, txs + 1>>}
          /\ \A j \in IdemKeys \ {k} : sent'[j] = sent[j]
      BY <1>6, <2>3, <3>1 DEF Broadcast, TypeOK
    <3>3. \A h \in Handlers \ {p} : run'[h].idem # None =>
              run'[h] = run[h] /\ run[h].idem \in IdemKeys \ {k}
      BY <1>3, <3>1, KeyType DEF KeyInv
    <3>4. Sent(p)'
      BY <1>4, <2>1, <3>2 DEF Sent
    <3>5. KeyInv'
      <4>1. \A h \in Handlers \ {p} :
                run'[h].idem # None /\ run'[h].at \in {"record", "done"} => Sent(h)'
        BY <3>2, <3>3 DEF KeyInv, Sent
      <4>2. QED BY <1>1, <1>4, <3>2, <3>3, <3>4, <4>1, KeyFrame
    <3>6. OnceInv'
      <4>1. idem[k] # NoRecord
        <5>1. Claimed(p)
          BY <2>3, <3>1 DEF KeyInv
        <5>2. run[p].tpl # None
          BY <2>1, WalletUsedType, TxAssumption
        <5>3. QED BY <5>1, <5>2 DEF Claimed, NoRecord
      <4>2. k \notin unsure' => sent[k] = {} /\ run'[p].at = "record"
        BY <2>1, <2>3, <3>1 DEF OnceInv, Unsent
      <4>3. unsure \subseteq unsure'
        BY <2>1
      <4>4. ASSUME NEW j \in IdemKeys \ unsure'
            PROVE  /\ \A x, y \in sent'[j] : x = y
                   /\ idem'[j] = NoRecord => sent'[j] = {}
        BY <1>1, <3>2, <4>1, <4>2, <4>3 DEF OnceInv
      <4>5. ASSUME NEW h \in Handlers, run'[h].idem \notin unsure' \cup {None},
                   run'[h].at \in Unsent
            PROVE  sent'[run'[h].idem] = {}
        <5>1. CASE h = p
          BY <1>4, <4>2, <4>5, <5>1 DEF Unsent
        <5>2. CASE h # p
          BY <3>2, <3>3, <4>3, <4>5, <5>2 DEF OnceInv
        <5>3. QED BY <5>1, <5>2
      <4>6. QED BY <4>4, <4>5 DEF OnceInv, NoRecord
    <3>7. QED BY <3>5, <3>6
  <2>4. QED BY <2>2, <2>3
<1>7. QED BY <1>5, <1>6

(* A claim is of a key without a record, and nobody else holds it. *)
LEMMA KeyBegin ==
    ASSUME TypeOK, RunInv, KeyInv, OnceInv,
           NEW h \in Handlers, NEW k \in IdemKeys \cup {None}, NEW b \in Bodies, Begin(h, k, b)
    PROVE  KeyInv' /\ OnceInv'
<1>1. h \in Procs /\ run[h].idem = None /\ sent' = sent /\ unsure' = unsure
  BY RunInvLocal DEF Begin, RunOf, Procs
<1>2. CASE /\ k # None => idem[k] = NoRecord
           /\ run' = [run EXCEPT ![h] = [NoRun EXCEPT !.at = "authorize", !.tpl = b, !.idem = k]]
           /\ idem' = IF k = None THEN idem ELSE [idem EXCEPT ![k] = [body |-> b, result |-> 0]]
           /\ UNCHANGED answered
  <2>1. /\ run'[h].at = "authorize" /\ run'[h].tpl = b /\ run'[h].idem = k
        /\ \A g \in Handlers \ {h} : run'[g] = run[g]
    BY <1>1, <1>2 DEF TypeOK, NoRun, Procs
  <2>2. CASE k = None
    <3>1. \A g \in Handlers : run'[g].idem # None => run'[g] = run[g]
      BY <2>1, <2>2
    <3>2. idem' = idem
      BY <1>2, <2>2
    <3>3. KeyInv'
      BY <1>1, <1>2, <3>1, <3>2, KeyFrame DEF KeyInv, Sent
    <3>4. OnceInv'
      BY <1>1, <3>1, <3>2, OnceFrame
    <3>5. QED BY <3>3, <3>4
  <2>3. CASE k # None
    <3>1. k \in IdemKeys /\ idem[k] = NoRecord
      BY <1>2, <2>3
    <3>2. /\ idem'[k] = [body |-> b, result |-> 0]
          /\ \A j \in IdemKeys \ {k} : idem'[j] = idem[j]
      BY <1>2, <2>3, <3>1 DEF TypeOK
    <3>3. \A g \in Handlers : run[g].idem # k
      <4>1. ASSUME NEW g \in Handlers, run[g].idem = k
            PROVE  FALSE
        <5>1. Claimed(g) /\ run[g].idem = k
          BY <2>3, <4>1 DEF KeyInv
        <5>2. run[g].tpl \in Bodies
          BY <2>3, <4>1, RunInvLocal DEF RunOf, Procs
        <5>3. QED BY <3>1, <5>1, <5>2, TxAssumption DEF Claimed, NoRecord, Template
      <4>2. QED BY <4>1
    <3>4. \A g \in Handlers \ {h} : run[g].idem # None => run[g].idem \in IdemKeys \ {k}
      BY <3>3, KeyType
    <3>5. KeyInv'
      <4>1. \A f, g \in Handlers :
                run'[f].idem # None /\ run'[f].idem = run'[g].idem => f = g
        BY <2>1, <3>3 DEF KeyInv
      <4>2. Claimed(h)'
        BY <2>1, <3>2 DEF Claimed
      <4>3. \A g \in Handlers \ {h} : run'[g].idem # None =>
                Claimed(g)' /\ (run'[g].at \in {"record", "done"} => Sent(g)')
        BY <1>1, <2>1, <3>2, <3>4 DEF KeyInv, Claimed, Sent
      <4>4. \A j \in IdemKeys \ {k} : Stored(j)'
        BY <1>1, <1>2, <3>2 DEF KeyInv, Stored
      <4>5. Stored(k)'
        <5>1. answered[k] = {}
          <6>1. Stored(k) /\ idem[k].result = 0
            BY <3>1 DEF KeyInv, NoRecord
          <6>2. QED BY <6>1 DEF Stored
        <5>2. QED BY <1>2, <3>2, <5>1 DEF Stored
      <4>6. QED BY <2>1, <4>1, <4>2, <4>3, <4>4, <4>5 DEF KeyInv
    <3>6. OnceInv'
      <4>1. idem'[k] # NoRecord
        BY <3>2, TxAssumption DEF NoRecord, Template
      <4>2. k \notin unsure => sent[k] = {}
        BY <3>1 DEF OnceInv
      <4>3. \A j \in IdemKeys : idem'[j] = NoRecord => idem[j] = NoRecord
        BY <3>2, <4>1
      <4>4. QED BY <1>1, <2>1, <3>1, <3>2, <3>4, <4>2, <4>3 DEF OnceInv, NoRecord
    <3>7. QED BY <3>5, <3>6
  <2>4. QED BY <2>2, <2>3
<1>3. CASE /\ k # None
           /\ idem[k].body = b
           /\ idem[k].result # 0
           /\ answered' = [answered EXCEPT ![k] = @ \cup {<<b, idem[k].result>>}]
           /\ UNCHANGED <<run, idem>>
  <2>1. k \in IdemKeys
    BY <1>3
  <2>2. /\ answered'[k] = answered[k] \cup {<<idem[k].body, idem[k].result>>}
        /\ \A j \in IdemKeys \ {k} : answered'[j] = answered[j]
    BY <1>3, <2>1 DEF TypeOK
  <2>3. \A j \in IdemKeys : Stored(j)'
    BY <1>1, <1>3, <2>1, <2>2 DEF KeyInv, Stored
  <2>4. KeyInv'
    BY <1>1, <1>3, <2>3 DEF KeyInv, Claimed, Sent
  <2>5. OnceInv'
    BY <1>1, <1>3, OnceFrame
  <2>6. QED BY <2>4, <2>5
<1>4. QED BY <1>2, <1>3 DEF Begin

(* A result is stored, and answered, by the holder of the key.  *)
LEMMA KeyComplete ==
    ASSUME TypeOK, RunInv, KeyInv, OnceInv, NEW h \in Handlers, Complete(h)
    PROVE  KeyInv' /\ OnceInv'
<1>1. /\ h \in Procs /\ run[h].at = "done" /\ run'[h] = NoRun
      /\ \A g \in Handlers \ {h} : run'[g] = run[g]
      /\ sent' = sent /\ unsure' = unsure
  BY FinishEffect DEF Complete, Procs
<1>2. CASE UNCHANGED <<idem, answered>>
  <2>1. \A g \in Handlers : run'[g] = run[g] \/ run'[g] = NoRun
    BY <1>1
  <2>2. QED BY <1>1, <1>2, <2>1, KeyOutside
<1>3. CASE /\ run[h].idem # None
           /\ idem' = IF idem[run[h].idem] = NoRecord THEN idem
                      ELSE [idem EXCEPT ![run[h].idem].result = run[h].hash]
           /\ answered' = [answered EXCEPT ![run[h].idem] = @ \cup {<<run[h].tpl, run[h].hash>>}]
  <2>. PICK k \in IdemKeys : k = run[h].idem
    BY <1>3, KeyType
  <2>1. Claimed(h) /\ Sent(h) /\ Stored(k)
    BY <1>1, <1>3 DEF KeyInv
  <2>2. idem[k] # NoRecord
    BY <1>1, <2>1, WalletUsedType, TxAssumption DEF Claimed, NoRecord
  <2>3. /\ idem'[k] = [body |-> run[h].tpl, result |-> run[h].hash]
        /\ \A j \in IdemKeys \ {k} : idem'[j] = idem[j]
    BY <1>3, <2>1, <2>2 DEF Claimed, TypeOK
  <2>4. /\ answered'[k] = {<<run[h].tpl, run[h].hash>>}
        /\ \A j \in IdemKeys \ {k} : answered'[j] = answered[j]
    <3>1. answered[k] = {}
      BY <2>1 DEF Claimed, Stored
    <3>2. QED BY <1>3, <2>1, <3>1 DEF TypeOK
  <2>5. \A g \in Handlers : run'[g].idem # None =>
            g # h /\ run'[g] = run[g] /\ run[g].idem \in IdemKeys \ {k}
    BY <1>1, <1>3, NoRunFields, KeyType DEF KeyInv
  <2>6. KeyInv'
    <3>1. \A f, g \in Handlers :
              run'[f].idem # None /\ run'[f].idem = run'[g].idem => f = g
      BY <2>5 DEF KeyInv
    <3>2. \A g \in Handlers : run'[g].idem # None =>
              Claimed(g)' /\ (run'[g].at \in {"record", "done"} => Sent(g)')
      BY <1>1, <2>3, <2>5 DEF KeyInv, Claimed, Sent
    <3>3. Stored(k)'
      BY <1>1, <2>1, <2>3, <2>4 DEF Stored, Sent
    <3>4. \A j \in IdemKeys \ {k} : Stored(j)'
      BY <1>1, <2>3, <2>4 DEF KeyInv, Stored
    <3>5. QED BY <3>1, <3>2, <3>3, <3>4 DEF KeyInv
  <2>7. OnceInv'
    <3>1. \A j \in IdemKeys : idem'[j] = NoRecord => idem[j] = NoRecord
      <4>1. idem'[k] # NoRecord
        BY <1>1, <2>3, WalletUsedType, TxAssumption DEF NoRecord
      <4>2. QED BY <2>3, <4>1
    <3>2. QED BY <1>1, <2>5, <3>1 DEF OnceInv, NoRecord
  <2>8. QED BY <2>6, <2>7
<1>4. QED BY <1>2, <1>3 DEF Complete

(* A key that is released has sent nothing, or its execution failed after a broadcast. *)
LEMMA KeyAbort ==
    ASSUME TypeOK, RunInv, KeyInv, OnceInv, NEW h \in Handlers, Abort(h)
    PROVE  KeyInv' /\ OnceInv'
<1>1. /\ h \in Procs /\ run[h].at = "failed" /\ run'[h] = NoRun
      /\ \A g \in Handlers \ {h} : run'[g] = run[g]
      /\ sent' = sent /\ unsure' = unsure /\ answered' = answered
  BY FinishEffect DEF Abort, Procs, ledger
<1>2. CASE UNCHANGED idem
  <2>1. \A g \in Handlers : run'[g] = run[g] \/ run'[g] = NoRun
    BY <1>1
  <2>2. QED BY <1>1, <1>2, <2>1, KeyOutside
<1>3. CASE /\ run[h].idem # None
           /\ idem' = IF idem[run[h].idem].result = 0
                      THEN [idem EXCEPT ![run[h].idem] = NoRecord] ELSE idem
  <2>. PICK k \in IdemKeys : k = run[h].idem
    BY <1>3, KeyType
  <2>1. Claimed(h) /\ Stored(k)
    BY <1>1, <1>3 DEF KeyInv
  <2>2. idem'[k] = NoRecord /\ \A j \in IdemKeys \ {k} : idem'[j] = idem[j]
    BY <1>3, <2>1 DEF Claimed, TypeOK
  <2>3. \A g \in Handlers : run'[g].idem # None =>
            g # h /\ run'[g] = run[g] /\ run[g].idem \in IdemKeys \ {k}
    BY <1>1, <1>3, NoRunFields, KeyType DEF KeyInv
  <2>4. KeyInv'
    <3>1. \A f, g \in Handlers :
              run'[f].idem # None /\ run'[f].idem = run'[g].idem => f = g
      BY <2>3 DEF KeyInv
    <3>2. \A g \in Handlers : run'[g].idem # None =>
              Claimed(g)' /\ (run'[g].at \in {"record", "done"} => Sent(g)')
      BY <1>1, <2>2, <2>3 DEF KeyInv, Claimed, Sent
    <3>3. Stored(k)'
      BY <1>1, <2>1, <2>2 DEF Stored, Claimed, NoRecord
    <3>4. \A j \in IdemKeys \ {k} : Stored(j)'
      BY <1>1, <2>2 DEF KeyInv, Stored
    <3>5. QED BY <3>1, <3>2, <3>3, <3>4 DEF KeyInv
  <2>5. OnceInv'
    <3>1. k \notin unsure => sent[k] = {}
      BY <1>1, <1>3 DEF OnceInv, Unsent
    <3>2. QED BY <1>1, <2>2, <2>3, <3>1 DEF OnceInv, NoRecord
  <2>6. QED BY <2>4, <2>5
<1>4. QED BY <1>2, <1>3 DEF Abort

(* Every step keeps the keys. *)
LEMMA KeyStep ==
    ASSUME TypeOK, RunInv, KeyInv, OnceInv, [Next]_vars
    PROVE  KeyInv' /\ OnceInv'
<1>1. ASSUME UNCHANGED <<idem, run, sent, unsure, answered>>
      PROVE  KeyInv' /\ OnceInv'
  BY <1>1, KeyOutside
<1>2. CASE \/ UNCHANGED vars
           \/ \E k \in SessionKeys : CreateKey(k) \/ Revoke(k)
           \/ \E w \in Wallets : DeletePolicy(w) \/ (\E c \in 0..MaxCap : UpsertPolicy(w, c))
           \/ NewDay
           \/ \E t \in Tasks : CreateTask(t) \/ ComesDue(t)
           \/ \E t \in Tasks, s \in TaskStatus \ {"absent"} : SetStatus(t, s)
           \/ Poll
  BY <1>1, <1>2 DEF vars, ledger, CreateKey, Revoke, DeletePolicy, UpsertPolicy, NewDay, CreateTask,
                    ComesDue, SetStatus, Poll
<1>3. CASE (\E t \in Tasks : StartTask(t)) \/ MarkRan
  <2>1. UNCHANGED <<idem, sent, unsure, answered>> /\ \A h \in Handlers : run'[h] = run[h]
    BY <1>3, TxAssumption DEF StartTask, MarkRan, Finish, TypeOK, Procs, ledger
  <2>2. QED BY <2>1, KeyOutside
<1>4. CASE Crash
  <2>1. UNCHANGED <<idem, sent, unsure, answered>> /\ \A h \in Handlers : run'[h] = NoRun
    BY <1>4 DEF Crash, Procs
  <2>2. QED BY <2>1, KeyOutside
<1>5. ASSUME NEW h \in Handlers, Drop(h)
      PROVE  KeyInv' /\ OnceInv'
  <2>1. UNCHANGED <<idem, sent, unsure, answered>> /\ \A g \in Handlers : run'[g] = run[g] \/ run'[g] = NoRun
    BY <1>5, FinishEffect DEF Drop, Procs
  <2>2. QED BY <2>1, KeyOutside
<1>6. QED
  BY <1>2, <1>3, <1>4, <1>5, KeyForget, KeyPipeline, KeyBegin, KeyComplete, KeyAbort DEF Next

-----------------------------------------------------------------------------
(* Scheduled tasks. *)

(* Every step keeps the scheduler's batch, its run and what it broadcast apart. *)
LEMMA TaskStep ==
    ASSUME TypeOK, RunInv, TaskInv, [Next]_vars
    PROVE  TaskInv'
<1>0. Scheduler \in Procs /\ \A h \in Handlers : h # Scheduler /\ h \in Procs
  BY TxAssumption DEF Procs
<1>1. ASSUME run'[Scheduler] = run[Scheduler], UNCHANGED <<batch, ran>>, due \subseteq due'
      PROVE  TaskInv'
  BY <1>1 DEF TaskInv, Sending, Over
<1>2. CASE \/ UNCHANGED vars
           \/ \E k \in SessionKeys : CreateKey(k) \/ Revoke(k)
           \/ \E w \in Wallets : DeletePolicy(w) \/ (\E c \in 0..MaxCap : UpsertPolicy(w, c))
           \/ NewDay
           \/ \E t \in Tasks : CreateTask(t) \/ ComesDue(t)
           \/ \E t \in Tasks, s \in TaskStatus \ {"absent"} : SetStatus(t, s)
           \/ \E k \in IdemKeys : ForgetKey(k)
  BY <1>1, <1>2 DEF vars, ledger, CreateKey, Revoke, DeletePolicy, UpsertPolicy, NewDay, CreateTask,
                    ComesDue, SetStatus, ForgetKey
<1>3. ASSUME NEW h \in Handlers,
             \/ \E k \in IdemKeys \cup {None}, b \in Bodies : Begin(h, k, b)
             \/ Complete(h) \/ Abort(h) \/ Drop(h)
      PROVE  TaskInv'
  <2>1. run'[Scheduler] = run[Scheduler]
    BY <1>0, <1>3 DEF Begin, Complete, Abort, Drop, Finish, TypeOK
  <2>2. UNCHANGED <<batch, ran, due>>
    BY <1>3 DEF Begin, Complete, Abort, Drop, ledger
  <2>3. QED BY <1>1, <2>1, <2>2
<1>4. ASSUME NEW h \in Handlers, Pipeline(h)
      PROVE  TaskInv'
  <2>1. run'[Scheduler] = run[Scheduler] /\ UNCHANGED <<batch, due>>
    BY <1>0, <1>4 DEF Pipeline, Fail, Authorize, FindPolicy, CheckUsage, Broadcast,
                      RecordUsage, Advance, TypeOK
  <2>2. ran' = ran
    <3>1. CASE Broadcast(h)
      <4>1. run[h].tpl \in Bodies
        BY <3>1 DEF Broadcast, RunInv
      <4>2. Tasks \cap {run[h].tpl} = {}
        BY <4>1, TxAssumption
      <4>3. QED BY <3>1, <4>2 DEF Broadcast
    <3>2. CASE ~ Broadcast(h)
      BY <1>4, <3>2 DEF Pipeline, Fail, Authorize, FindPolicy, CheckUsage, RecordUsage, ledger
    <3>3. QED BY <3>1, <3>2
  <2>3. QED BY <1>1, <2>1, <2>2
<1>5. CASE Pipeline(Scheduler)
  <2>1. /\ UNCHANGED <<batch, due>>
        /\ run[Scheduler].at \notin {"idle", "done", "failed"}
        /\ run'[Scheduler].tpl = run[Scheduler].tpl
        /\ run[Scheduler].at \in {"record"} => run'[Scheduler].at \in {"done", "failed"}
    BY <1>0, <1>5 DEF Pipeline, Fail, Authorize, FindPolicy, CheckUsage, Broadcast,
                      RecordUsage, Advance, TypeOK, Run
  <2>2. \/ ran' = ran
        \/ ran' \subseteq ran \cup {run[Scheduler].tpl} /\ run'[Scheduler].at \in {"record", "failed"}
    BY <1>0, <1>5 DEF Pipeline, Fail, Authorize, FindPolicy, CheckUsage, Broadcast,
                      RecordUsage, TypeOK, Run, ledger
  <2>3. ASSUME NEW t \in ran'
        PROVE  (Sending(t) \/ Over(t))'
    <3>1. CASE t = run[Scheduler].tpl
      <4>1. run'[Scheduler].at \in {"record", "done", "failed"}
        BY <2>1, <2>2, <2>3, <3>1 DEF TaskInv, Sending, Over
      <4>2. QED BY <2>1, <3>1, <4>1 DEF Sending
    <3>2. CASE t # run[Scheduler].tpl
      BY <2>1, <2>2, <2>3, <3>2 DEF TaskInv, Sending, Over
    <3>3. QED BY <3>1, <3>2
  <2>4. QED BY <2>1, <2>3 DEF TaskInv
<1>6. CASE Poll
  <2>1. ran' = {} /\ run' = run /\ run[Scheduler].at = "idle"
    BY <1>6 DEF Poll, TaskInv, Sending, Over
  <2>2. batch' \subseteq due'
    BY <1>6 DEF Poll
  <2>3. QED BY <2>1, <2>2 DEF TaskInv
<1>7. ASSUME NEW t \in Tasks, StartTask(t)
      PROVE  TaskInv'
  <2>1. /\ run'[Scheduler].tpl = t /\ t \in batch /\ batch' = batch \ {t}
        /\ UNCHANGED <<due, ran>>
    BY <1>0, <1>7 DEF StartTask, TypeOK, NoRun, ledger
  <2>2. \A u \in ran : u \in OneShot \ batch
    BY <1>7 DEF StartTask, TaskInv, Sending, Over
  <2>3. \A u \in ran' : Over(u)'
    BY <2>1, <2>2 DEF Over
  <2>4. QED BY <2>1, <2>3 DEF TaskInv
<1>8. CASE MarkRan
  <2>1. run'[Scheduler].at = "idle"
    BY <1>0, <1>8, FinishEffect, NoRunFields DEF MarkRan
  <2>2. run[Scheduler].tpl \in due \ batch /\ batch' = batch
    BY <1>8 DEF MarkRan, TaskInv
  <2>3. due \ {run[Scheduler].tpl} \subseteq due'
    BY <1>8 DEF MarkRan
  <2>4. \A t \in ran' : t \in OneShot \ batch
    BY <1>8, <2>2 DEF MarkRan, TaskInv, Sending, Over
  <2>5. QED BY <2>1, <2>2, <2>3, <2>4 DEF TaskInv, Over
<1>9. CASE Crash
  <2>1. run'[Scheduler].at = "idle" /\ batch' = {} /\ due' = due
    BY <1>0, <1>9, NoRunFields DEF Crash
  <2>2. \A t \in ran' : t \in OneShot
    BY <1>9 DEF Crash, TaskInv, Sending, Over
  <2>3. QED BY <2>1, <2>2 DEF TaskInv, Over
<1>10. QED
  BY <1>2, <1>3, <1>4, <1>5, <1>6, <1>7, <1>8, <1>9 DEF Next, Procs

-----------------------------------------------------------------------------
(* The gate of a wallet. *)

(* There are finitely many executions at a time, one at least. *)
LEMMA ProcsFinite ==
    /\ IsFiniteSet(Procs)
    /\ Cardinality(Procs) \in Nat
    /\ Cardinality(Procs) > 0
<1>1. IsFiniteSet(Handlers) /\ Scheduler \notin Handlers /\ Cardinality(Handlers) \in Nat
  BY TxAssumption, FS_CardinalityType
<1>2. QED BY <1>1, FS_AddElement DEF Procs

(* The executions of a wallet at some steps are a part of them. *)
LEMMA AtType ==
    ASSUME NEW w, NEW steps
    PROVE  /\ At(w, steps) \in SUBSET Procs
           /\ IsFiniteSet(At(w, steps))
           /\ Cardinality(At(w, steps)) \in Nat
           /\ Cardinality(At(w, steps)) <= Cardinality(Procs)
<1>1. At(w, steps) \in SUBSET Procs
  BY DEF At
<1>2. QED BY <1>1, ProcsFinite, PartSize

(* A step of one process changes whether that process is among them, no more. *)
LEMMA AtStep ==
    ASSUME NEW p \in Procs, \A q \in Procs \ {p} : run'[q] = run[q], NEW w, NEW steps
    PROVE  /\ At(w, steps) \ {p} = At(w, steps)' \ {p}
           /\ Cardinality(At(w, steps)') \in Nat
           /\ Cardinality(At(w, steps)') - One(p, At(w, steps)')
                  = Cardinality(At(w, steps)) - One(p, At(w, steps))
<1>1. At(w, steps) \ {p} = At(w, steps)' \ {p}
  BY DEF At, WalletUsed
<1>2. QED BY <1>1, AtType, OneApart

(* Whether a process is among them is read off its own execution. *)
LEMMA OneAt ==
    ASSUME NEW p \in Procs, NEW w, NEW steps
    PROVE  /\ One(p, At(w, steps)) =
                  IF run[p].at \in steps /\ WalletUsed(p) = w THEN 1 ELSE 0
           /\ One(p, At(w, steps)') =
                  IF run'[p].at \in steps /\ WalletUsed(p)' = w THEN 1 ELSE 0
           /\ p \in At(w, steps) <=> run[p].at \in steps /\ WalletUsed(p) = w
           /\ p \in At(w, steps)' <=> run'[p].at \in steps /\ WalletUsed(p)' = w
BY DEF One, At

(* Broadcasts stay counted when the step of a process balances the account. *)
LEMMA CountedStep ==
    ASSUME TypeOK, TypeOK', NEW p \in Procs, \A q \in Procs \ {p} : run'[q] = run[q],
           NEW w \in Wallets, Counted(w),
           today'[w] + usage[w] + unrecorded[w] + One(p, Recording(w))
               <= today[w] + usage'[w] + unrecorded'[w] + One(p, Recording(w)')
    PROVE  Counted(w)'
<1>1. /\ Cardinality(Recording(w)) \in Nat /\ Cardinality(Recording(w)') \in Nat
      /\ Cardinality(Recording(w)') - One(p, Recording(w)')
             = Cardinality(Recording(w)) - One(p, Recording(w))
  BY AtStep, AtType DEF Recording
<1>2. One(p, Recording(w)) \in Nat /\ One(p, Recording(w)') \in Nat
  BY DEF One
<1>3. /\ today[w] \in Nat /\ usage[w] \in Nat /\ unrecorded[w] \in Nat
      /\ today'[w] \in Nat /\ usage'[w] \in Nat /\ unrecorded'[w] \in Nat
  BY DEF TypeOK
<1>4. QED BY <1>1, <1>2, <1>3 DEF Counted

(* The gate holds when a process passes it no further than it had. *)
LEMMA GatedStep ==
    ASSUME TypeOK, TypeOK', NEW p \in Procs, \A q \in Procs \ {p} : run'[q] = run[q],
           UNCHANGED <<cap, ceiling>>,
           NEW w \in Wallets, Gated(w),
           ceiling[w] # None /\ p \in At(w, {"usage", "broadcast"})' =>
               run'[p].cap # None /\ run'[p].cap <= ceiling[w],
           ceiling[w] # None =>
               /\ p \in Passed(w)' => p \in Passed(w)
               /\ usage'[w] + One(p, Passed(w)') <= usage[w] + One(p, Passed(w))
    PROVE  Gated(w)'
<1> SUFFICES ASSUME ceiling[w] # None
             PROVE  /\ \A q \in At(w, {"usage", "broadcast"})' :
                           run'[q].cap # None /\ run'[q].cap <= ceiling[w]
                    /\ usage'[w] + Cardinality(Passed(w)') < ceiling[w] + Cardinality(Procs)
                    /\ Passed(w)' # {} => ceiling[w] > 0
  BY DEF Gated
<1>1. \A q \in At(w, {"usage", "broadcast"})' :
          run'[q].cap # None /\ run'[q].cap <= ceiling[w]
  <2>1. \A q \in At(w, {"usage", "broadcast"})' \ {p} :
            q \in At(w, {"usage", "broadcast"}) /\ run'[q] = run[q]
    BY DEF At, WalletUsed
  <2>2. QED BY <2>1 DEF Gated
<1>2. usage'[w] + Cardinality(Passed(w)') < ceiling[w] + Cardinality(Procs)
  <2>1. /\ Cardinality(Passed(w)) \in Nat /\ Cardinality(Passed(w)') \in Nat
        /\ Cardinality(Passed(w)') - One(p, Passed(w)')
               = Cardinality(Passed(w)) - One(p, Passed(w))
    BY AtStep, AtType DEF Passed
  <2>2. One(p, Passed(w)) \in Nat /\ One(p, Passed(w)') \in Nat
    BY DEF One
  <2>3. usage[w] \in Nat /\ usage'[w] \in Nat /\ ceiling[w] \in Nat
    BY DEF TypeOK, Limit
  <2>4. usage[w] + Cardinality(Passed(w)) < ceiling[w] + Cardinality(Procs)
    BY DEF Gated
  <2>5. QED BY <2>1, <2>2, <2>3, <2>4, ProcsFinite
<1>3. Passed(w)' # {} => ceiling[w] > 0
  <2>1. Passed(w)' \ {p} = Passed(w) \ {p}
    BY AtStep DEF Passed
  <2>2. Passed(w)' # {} => Passed(w) # {}
    BY <2>1
  <2>3. QED BY <2>2 DEF Gated
<1>4. QED BY <1>1, <1>2, <1>3

(* What users and the calendar do to a policy, and midnight, keep the gate. *)
LEMMA CapOutside ==
    ASSUME TypeOK, TypeOK', CapInv, run' = run,
           \/ \E w \in Wallets : DeletePolicy(w) \/ (\E c \in 0..MaxCap : UpsertPolicy(w, c))
           \/ NewDay
           \/ UNCHANGED <<cap, usage, today, unrecorded, ceiling>>
    PROVE  CapInv'
<1>0. \A w, steps : At(w, steps)' = At(w, steps)
  BY DEF At, WalletUsed
<1>1. CASE UNCHANGED <<cap, usage, today, unrecorded, ceiling>>
  BY <1>0, <1>1 DEF CapInv, Counted, Gated, Recording, Passed
<1>2. ASSUME UNCHANGED <<usage, today, unrecorded>>, NEW w \in Wallets,
             \A v \in Wallets \ {w} : cap'[v] = cap[v] /\ ceiling'[v] = ceiling[v],
             ceiling'[w] # None =>
                 /\ ceiling[w] # None /\ ceiling[w] <= ceiling'[w]
                 /\ cap'[w] # None /\ cap'[w] <= ceiling'[w]
      PROVE  CapInv'
  <2>1. \A v \in Wallets : Counted(v)'
    BY <1>0, <1>2 DEF CapInv, Counted, Recording
  <2>2. \A v \in Wallets \ {w} : Gated(v)'
    BY <1>0, <1>2 DEF CapInv, Gated, Passed
  <2>3. Gated(w)'
    <3> SUFFICES ASSUME ceiling'[w] # None PROVE Gated(w)'
      BY DEF Gated
    <3>1. /\ ceiling[w] \in Nat /\ ceiling'[w] \in Nat /\ usage[w] \in Nat
          /\ Cardinality(Passed(w)) \in Nat
      BY <1>2, AtType DEF TypeOK, Limit, Passed
    <3>2. \A p \in At(w, {"usage", "broadcast"}) :
              run[p].cap # None /\ run[p].cap <= ceiling'[w]
      <4>1. \A p \in At(w, {"usage", "broadcast"}) :
                run[p].cap \in Nat /\ run[p].cap <= ceiling[w]
        BY <1>2 DEF CapInv, Gated, At, TypeOK, Run, Limit
      <4>2. QED BY <1>2, <3>1, <4>1, TxAssumption
    <3>3. usage'[w] + Cardinality(Passed(w)') < ceiling'[w] + Cardinality(Procs)
      <4>1. Passed(w)' = Passed(w)
        BY <1>0 DEF Passed
      <4>2. usage[w] + Cardinality(Passed(w)) < ceiling[w] + Cardinality(Procs)
        BY <1>2 DEF CapInv, Gated
      <4>3. QED BY <1>2, <3>1, <4>1, <4>2, ProcsFinite
    <3>4. Passed(w)' # {} => ceiling'[w] > 0
      <4>1. Passed(w)' # {} => ceiling[w] > 0
        BY <1>0, <1>2 DEF CapInv, Gated, Passed
      <4>2. QED BY <1>2, <3>1, <4>1
    <3>5. QED BY <1>0, <1>2, <3>2, <3>3, <3>4 DEF Gated
  <2>4. QED BY <2>1, <2>2, <2>3 DEF CapInv
<1>3. ASSUME NEW w \in Wallets, DeletePolicy(w)
      PROVE  CapInv'
  BY <1>2, <1>3 DEF DeletePolicy, TypeOK
<1>4. ASSUME NEW w \in Wallets, NEW c \in 0..MaxCap, UpsertPolicy(w, c)
      PROVE  CapInv'
  <2>1. /\ cap'[w] = c
        /\ ceiling'[w] = IF ceiling[w] # None /\ ceiling[w] < c THEN c ELSE ceiling[w]
        /\ \A v \in Wallets \ {w} : cap'[v] = cap[v] /\ ceiling'[v] = ceiling[v]
    BY <1>4 DEF UpsertPolicy, TypeOK
  <2>2. c \in Nat /\ c # None /\ (ceiling[w] # None => ceiling[w] \in Nat)
    BY TxAssumption DEF TypeOK, Limit
  <2>3. QED BY <1>2, <1>4, <2>1, <2>2 DEF UpsertPolicy
<1>5. CASE NewDay
  <2>1. \A w \in Wallets : usage'[w] = 0 /\ today'[w] = 0 /\ unrecorded'[w] = 0
    BY <1>5 DEF NewDay
  <2>2. UNCHANGED <<cap, ceiling>>
    BY <1>5 DEF NewDay
  <2>3. ASSUME NEW w \in Wallets
        PROVE  Counted(w)'
    <3>1. Cardinality(Recording(w)) \in Nat /\ Recording(w)' = Recording(w)
      BY <1>0, AtType DEF Recording
    <3>2. QED BY <2>1, <3>1 DEF Counted
  <2>4. ASSUME NEW w \in Wallets, ceiling[w] # None
        PROVE  usage'[w] + Cardinality(Passed(w)') < ceiling[w] + Cardinality(Procs)
    <3>1. /\ Passed(w)' = Passed(w) /\ ceiling[w] \in Nat /\ Cardinality(Passed(w)) \in Nat
          /\ Cardinality(Passed(w)) <= Cardinality(Procs)
      BY <1>0, <2>4, AtType DEF Passed, TypeOK, Limit
    <3>2. CASE Passed(w) = {}
      BY <2>1, <3>1, <3>2, ProcsFinite, FS_EmptySet
    <3>3. CASE Passed(w) # {}
      BY <2>1, <2>4, <3>1, <3>3, ProcsFinite DEF CapInv, Gated
    <3>4. QED BY <3>2, <3>3
  <2>5. \A w \in Wallets : Gated(w)'
    BY <1>0, <2>2, <2>4 DEF CapInv, Gated, Passed
  <2>6. QED BY <2>3, <2>5 DEF CapInv
<1>6. QED BY <1>1, <1>3, <1>4, <1>5

(* A process that leaves the gate, nothing left to record, keeps it. *)
LEMMA CapLeave ==
    ASSUME TypeOK, TypeOK', CapInv, NEW p \in Procs, \A q \in Procs \ {p} : run'[q] = run[q],
           run[p].at # "record", run'[p].at \notin {"usage", "broadcast", "record"},
           UNCHANGED <<cap, usage, today, unrecorded, ceiling>>
    PROVE  CapInv'
<1> SUFFICES ASSUME NEW w \in Wallets PROVE Counted(w)' /\ Gated(w)'
  BY DEF CapInv
<1>1. /\ One(p, Recording(w)) = 0 /\ One(p, Recording(w)') = 0
      /\ One(p, Passed(w)') = 0 /\ One(p, Passed(w)) \in {0, 1}
      /\ p \notin At(w, {"usage", "broadcast"})' /\ p \notin Passed(w)'
  BY OneAt DEF Recording, Passed, One, At
<1>2. /\ usage[w] \in Nat /\ usage'[w] = usage[w] /\ today[w] \in Nat /\ today'[w] = today[w]
      /\ unrecorded[w] \in Nat /\ unrecorded'[w] = unrecorded[w]
  BY DEF TypeOK
<1>3. Counted(w) /\ Gated(w)
  BY DEF CapInv
<1>4. Counted(w)'
  BY <1>1, <1>2, <1>3, CountedStep
<1>5. Gated(w)'
  BY <1>1, <1>2, <1>3, GatedStep
<1>6. QED BY <1>4, <1>5

(* The checks, the broadcast and the record keep the gate: a broadcast is    *)
(* let through below the cap only, and is recorded or known to be lost.      *)
LEMMA CapPipeline ==
    ASSUME TypeOK, TypeOK', RunInv, RunInv', CapInv, NEW p \in Procs, Pipeline(p)
    PROVE  CapInv'
<1>1. /\ run[p].at # "idle" /\ WalletUsed(p) \in Wallets
      /\ \A q \in Procs \ {p} : run'[q] = run[q]
      /\ UNCHANGED <<cap, ceiling>>
  BY WalletUsedType DEF Pipeline, Fail, Authorize, FindPolicy, CheckUsage, Broadcast, RecordUsage,
     Advance, TypeOK, ledger
<1>2. WalletUsed(p)' = WalletUsed(p)
  <2>1. run'[p].tpl = run[p].tpl
    BY DEF Pipeline, Fail, Authorize, FindPolicy, CheckUsage, Broadcast, RecordUsage,
       Advance, TypeOK, Run
  <2>2. QED BY <2>1 DEF WalletUsed
<1>3. CASE Fail(p) \/ Authorize(p)
  <2>1. /\ run[p].at # "record" /\ run'[p].at \in {"failed", "policy"}
        /\ UNCHANGED <<cap, usage, today, unrecorded, ceiling>>
    BY <1>3 DEF Fail, Authorize, Advance, TypeOK, Run, ledger
  <2>2. QED BY <1>1, <2>1, CapLeave
<1> SUFFICES ASSUME NEW w \in Wallets, ~ (Fail(p) \/ Authorize(p))
             PROVE  Counted(w)' /\ Gated(w)'
  BY <1>3 DEF CapInv
<1>4. /\ Counted(w) /\ Gated(w)
      /\ usage[w] \in Nat /\ today[w] \in Nat /\ unrecorded[w] \in Nat
      /\ usage'[w] \in Nat /\ today'[w] \in Nat /\ unrecorded'[w] \in Nat
      /\ ceiling[w] # None => ceiling[w] \in Nat
  BY DEF CapInv, TypeOK, Limit
<1>5. CASE FindPolicy(p)
  <2>1. /\ run[p].at = "policy"
        /\ run'[p].cap = cap[WalletUsed(p)]
        /\ run'[p].at = (IF cap[WalletUsed(p)] = None THEN "broadcast" ELSE "usage")
        /\ UNCHANGED <<usage, today, unrecorded>>
    BY <1>1, <1>5 DEF FindPolicy, TypeOK, Run, ledger
  <2>2. /\ One(p, Recording(w)) = 0 /\ One(p, Recording(w)') = 0 /\ One(p, Passed(w)) = 0
    BY <2>1, OneAt DEF Recording, Passed
  <2>3. ASSUME ceiling[w] # None, WalletUsed(p) = w
        PROVE  run'[p].cap # None /\ run'[p].cap <= ceiling[w] /\ run'[p].at = "usage"
    BY <2>1, <2>3 DEF CapInv, Gated
  <2>4. ceiling[w] # None => One(p, Passed(w)') = 0 /\ p \notin Passed(w)'
    BY <1>2, <2>3, OneAt DEF Passed
  <2>5. Counted(w)'
    BY <1>1, <1>4, <2>1, <2>2, CountedStep
  <2>6. Gated(w)'
    BY <1>1, <1>2, <1>4, <2>1, <2>2, <2>3, <2>4, GatedStep DEF At
  <2>7. QED BY <2>5, <2>6
<1>6. CASE CheckUsage(p)
  <2>1. /\ run[p].at = "usage" /\ run'[p].at = "broadcast" /\ run'[p].cap = run[p].cap
        /\ usage[WalletUsed(p)] < run[p].cap
        /\ run[p].cap # None /\ run[p].cap \in Limit
        /\ UNCHANGED <<usage, today, unrecorded>>
    BY <1>1, <1>6 DEF CheckUsage, Advance, TypeOK, RunInv, Run, ledger
  <2>2. /\ One(p, Recording(w)) = 0 /\ One(p, Recording(w)') = 0
    BY <2>1, OneAt DEF Recording
  <2>3. Counted(w)'
    BY <1>1, <1>4, <2>1, <2>2, CountedStep
  <2>4. CASE WalletUsed(p) # w
    <3>1. /\ One(p, Passed(w)) = 0 /\ One(p, Passed(w)') = 0
          /\ p \notin At(w, {"usage", "broadcast"})' /\ p \notin Passed(w)'
      BY <1>2, <2>4, OneAt DEF Passed
    <3>2. QED BY <1>1, <1>4, <2>1, <2>3, <3>1, GatedStep
  <2>5. CASE WalletUsed(p) = w
    <3> SUFFICES ASSUME ceiling[w] # None
                 PROVE  Gated(w)'
      BY <1>1, <2>3 DEF Gated
    <3>1. p \in At(w, {"usage", "broadcast"})
      BY <2>1, <2>5 DEF At
    <3>2. run[p].cap \in Nat /\ run[p].cap <= ceiling[w] /\ usage[w] < run[p].cap
      BY <1>4, <2>1, <2>5, <3>1 DEF Gated, Limit
    <3>3. \A q \in At(w, {"usage", "broadcast"})' :
              run'[q].cap # None /\ run'[q].cap <= ceiling[w]
      <4>1. \A q \in At(w, {"usage", "broadcast"})' \ {p} :
                q \in At(w, {"usage", "broadcast"}) /\ run'[q] = run[q]
        BY <1>1 DEF At, WalletUsed
      <4>2. QED BY <1>4, <2>1, <3>2, <4>1 DEF Gated
    <3>4. usage'[w] + Cardinality(Passed(w)') < ceiling[w] + Cardinality(Procs)
      <4>1. Cardinality(Passed(w)') \in Nat /\ Cardinality(Passed(w)') <= Cardinality(Procs)
        <5>1. Passed(w)' \in SUBSET Procs
          BY DEF Passed, At
        <5>2. QED BY <5>1, ProcsFinite, PartSize
      <4>2. QED BY <1>4, <2>1, <3>2, <4>1, ProcsFinite
    <3>5. ceiling[w] > 0
      BY <1>4, <3>2
    <3>6. QED BY <1>1, <1>4, <3>3, <3>4, <3>5 DEF Gated
  <2>6. QED BY <2>3, <2>4, <2>5
<1>7. CASE Broadcast(p)
  <2>1. /\ run[p].at = "broadcast" /\ usage' = usage
        /\ run'[p].at \in {"record", "failed"}
        /\ today'[w] = today[w] + (IF WalletUsed(p) = w THEN 1 ELSE 0)
        /\ unrecorded'[w] = unrecorded[w] +
               (IF WalletUsed(p) = w /\ run'[p].at = "failed" THEN 1 ELSE 0)
    BY <1>1, <1>7 DEF Broadcast, TypeOK, Run
  <2>2. /\ One(p, Recording(w)) = 0
        /\ One(p, Recording(w)') = IF run'[p].at = "record" /\ WalletUsed(p) = w THEN 1 ELSE 0
        /\ One(p, Passed(w)) = IF WalletUsed(p) = w THEN 1 ELSE 0
        /\ One(p, Passed(w)') = IF run'[p].at = "record" /\ WalletUsed(p) = w THEN 1 ELSE 0
    BY <1>2, <2>1, OneAt DEF Recording, Passed
  <2>3. Counted(w)'
    BY <1>1, <1>4, <2>1, <2>2, CountedStep
  <2>4. p \notin At(w, {"usage", "broadcast"})' /\ (p \in Passed(w)' => p \in Passed(w))
    BY <1>2, <2>1 DEF At, Passed
  <2>5. Gated(w)'
    BY <1>1, <1>4, <2>1, <2>2, <2>4, GatedStep
  <2>6. QED BY <2>3, <2>5
<1>8. CASE RecordUsage(p)
  <2>1. /\ run[p].at = "record" /\ today' = today
        /\ run'[p].at \in {"done", "failed"}
        /\ usage'[w] = usage[w] + (IF WalletUsed(p) = w /\ run'[p].at = "done" THEN 1 ELSE 0)
        /\ unrecorded'[w] = unrecorded[w] +
               (IF WalletUsed(p) = w /\ run'[p].at = "failed" THEN 1 ELSE 0)
    BY <1>1, <1>8 DEF RecordUsage, Advance, TypeOK, Run
  <2>2. /\ One(p, Recording(w)) = IF WalletUsed(p) = w THEN 1 ELSE 0
        /\ One(p, Recording(w)') = 0
        /\ One(p, Passed(w)) = IF WalletUsed(p) = w THEN 1 ELSE 0
        /\ One(p, Passed(w)') = 0
        /\ p \notin At(w, {"usage", "broadcast"})' /\ p \notin Passed(w)'
    BY <1>2, <2>1, OneAt DEF Recording, Passed
  <2>3. Counted(w)'
    BY <1>1, <1>4, <2>1, <2>2, CountedStep
  <2>4. Gated(w)'
    BY <1>1, <1>4, <2>1, <2>2, GatedStep
  <2>5. QED BY <2>3, <2>4
<1>9. QED
  BY <1>5, <1>6, <1>7, <1>8 DEF Pipeline

(* A request dropped between its broadcast and the record of it is known to be lost. *)
LEMMA CapDrop ==
    ASSUME TypeOK, TypeOK', RunInv, CapInv, NEW h \in Handlers, Drop(h)
    PROVE  CapInv'
<1>1. /\ h \in Procs /\ run'[h] = NoRun /\ run[h].at # "idle"
      /\ \A q \in Procs \ {h} : run'[q] = run[q]
      /\ UNCHANGED <<cap, usage, today, ceiling>>
  BY FinishEffect DEF Drop, Procs
<1>2. CASE run[h].at # "record"
  <2>1. unrecorded' = unrecorded
    BY <1>2 DEF Drop
  <2>2. QED BY <1>1, <1>2, <2>1, NoRunFields, CapLeave
<1>3. CASE run[h].at = "record"
  <2> SUFFICES ASSUME NEW w \in Wallets PROVE Counted(w)' /\ Gated(w)'
    BY DEF CapInv
  <2>1. unrecorded'[w] = unrecorded[w] + (IF WalletUsed(h) = w THEN 1 ELSE 0)
    BY <1>3, WalletUsedType DEF Drop, TypeOK
  <2>2. /\ One(h, Recording(w)) = IF WalletUsed(h) = w THEN 1 ELSE 0
        /\ One(h, Passed(w)) = IF WalletUsed(h) = w THEN 1 ELSE 0
    BY <1>1, <1>3, OneAt DEF Recording, Passed
  <2>3. /\ One(h, Recording(w)') = 0
        /\ One(h, Passed(w)') = 0
        /\ h \notin At(w, {"usage", "broadcast"})' /\ h \notin Passed(w)'
    BY <1>1, NoRunFields, OneAt DEF Recording, Passed
  <2>4. /\ Counted(w) /\ Gated(w)
        /\ usage[w] \in Nat /\ today[w] \in Nat /\ unrecorded[w] \in Nat
        /\ usage'[w] = usage[w] /\ today'[w] = today[w] /\ unrecorded'[w] \in Nat
    BY <1>1 DEF CapInv, TypeOK
  <2>5. Counted(w)'
    BY <1>1, <2>1, <2>2, <2>3, <2>4, CountedStep
  <2>6. Gated(w)'
    BY <1>1, <2>2, <2>3, <2>4, GatedStep
  <2>7. QED BY <2>5, <2>6
<1>4. QED BY <1>2, <1>3

(* A crash loses the record of every broadcast that had still to be written. *)
LEMMA CapCrash ==
    ASSUME TypeOK, TypeOK', CapInv, Crash
    PROVE  CapInv'
<1> SUFFICES ASSUME NEW w \in Wallets PROVE Counted(w)' /\ Gated(w)'
  BY DEF CapInv
<1>1. \A p \in Procs : run'[p].at = "idle"
  BY NoRunFields DEF Crash
<1>2. /\ Recording(w)' = {} /\ Passed(w)' = {} /\ At(w, {"usage", "broadcast"})' = {}
  BY <1>1 DEF Recording, Passed, At
<1>3. unrecorded'[w] = unrecorded[w] + Cardinality(Recording(w))
  <2>1. Recording(w) = {p \in Procs : run[p].at = "record" /\ WalletUsed(p) = w}
    BY DEF Recording, At
  <2>2. QED BY <2>1 DEF Crash
<1>4. /\ usage[w] \in Nat /\ today[w] \in Nat /\ unrecorded[w] \in Nat
      /\ UNCHANGED <<cap, usage, today, ceiling>>
      /\ Cardinality(Recording(w)) \in Nat /\ Cardinality(Passed(w)) \in Nat
      /\ Cardinality(Recording(w)') = 0 /\ Cardinality(Passed(w)') = 0
  BY <1>2, AtType, FS_EmptySet DEF Crash, TypeOK, Recording, Passed
<1>5. Counted(w)'
  BY <1>3, <1>4 DEF CapInv, Counted
<1>6. Gated(w)'
  <2> SUFFICES ASSUME ceiling[w] # None
               PROVE  usage[w] + Cardinality(Passed(w)') < ceiling[w] + Cardinality(Procs)
    BY <1>2, <1>4 DEF CapInv, Gated
  <2>1. ceiling[w] \in Nat /\ usage[w] + Cardinality(Passed(w)) < ceiling[w] + Cardinality(Procs)
    BY DEF CapInv, Gated, TypeOK, Limit
  <2>2. QED BY <1>4, <2>1, ProcsFinite
<1>7. QED BY <1>5, <1>6

(* Every step keeps the account of every wallet. *)
LEMMA CapStep ==
    ASSUME TypeOK, TypeOK', RunInv, RunInv', CapInv, [Next]_vars
    PROVE  CapInv'
<1>1. CASE \/ UNCHANGED vars
           \/ \E k \in SessionKeys : CreateKey(k) \/ Revoke(k)
           \/ \E w \in Wallets : DeletePolicy(w) \/ (\E c \in 0..MaxCap : UpsertPolicy(w, c))
           \/ NewDay
           \/ \E t \in Tasks : CreateTask(t) \/ ComesDue(t)
           \/ \E t \in Tasks, s \in TaskStatus \ {"absent"} : SetStatus(t, s)
           \/ \E k \in IdemKeys : ForgetKey(k)
           \/ Poll
  <2>1. run' = run
    BY <1>1 DEF vars, CreateKey, Revoke, DeletePolicy, UpsertPolicy, NewDay, CreateTask, ComesDue,
       SetStatus, ForgetKey, Poll
  <2>2. \/ \E w \in Wallets : DeletePolicy(w) \/ (\E c \in 0..MaxCap : UpsertPolicy(w, c))
        \/ NewDay
        \/ UNCHANGED <<cap, usage, today, unrecorded, ceiling>>
    BY <1>1 DEF vars, ledger, CreateKey, Revoke, CreateTask, ComesDue, SetStatus, ForgetKey, Poll
  <2>3. QED BY <2>1, <2>2, CapOutside
<1>2. ASSUME NEW h \in Handlers, NEW k \in IdemKeys \cup {None}, NEW b \in Bodies, Begin(h, k, b)
      PROVE  CapInv'
  <2>1. UNCHANGED <<cap, usage, today, unrecorded, ceiling>> /\ h \in Procs
    BY <1>2 DEF Begin, Procs
  <2>2. CASE run' = run
    BY <2>1, <2>2, CapOutside
  <2>3. CASE run' = [run EXCEPT ![h] = [NoRun EXCEPT !.at = "authorize", !.tpl = b, !.idem = k]]
    <3>1. /\ run[h].at = "idle" /\ run'[h].at = "authorize"
          /\ \A q \in Procs \ {h} : run'[q] = run[q]
      BY <1>2, <2>1, <2>3 DEF Begin, TypeOK, NoRun
    <3>2. QED BY <2>1, <3>1, CapLeave
  <2>4. QED BY <1>2, <2>2, <2>3 DEF Begin
<1>3. ASSUME NEW h \in Handlers, Complete(h) \/ Abort(h)
      PROVE  CapInv'
  <2>1. /\ h \in Procs /\ run'[h] = NoRun /\ run[h].at \in {"done", "failed"}
        /\ \A q \in Procs \ {h} : run'[q] = run[q]
        /\ UNCHANGED <<cap, usage, today, unrecorded, ceiling>>
    BY <1>3, FinishEffect DEF Complete, Abort, Procs, ledger
  <2>2. QED BY <2>1, NoRunFields, CapLeave
<1>4. ASSUME NEW t \in Tasks, StartTask(t)
      PROVE  CapInv'
  <2>1. /\ Scheduler \in Procs
        /\ run[Scheduler].at = "idle" /\ run'[Scheduler].at = "authorize"
        /\ \A q \in Procs \ {Scheduler} : run'[q] = run[q]
        /\ UNCHANGED <<cap, usage, today, unrecorded, ceiling>>
    BY <1>4 DEF StartTask, TypeOK, NoRun, Procs, ledger
  <2>2. QED BY <2>1, CapLeave
<1>5. CASE MarkRan
  <2>1. /\ Scheduler \in Procs /\ run'[Scheduler] = NoRun
        /\ run[Scheduler].at \in {"done", "failed"}
        /\ \A q \in Procs \ {Scheduler} : run'[q] = run[q]
        /\ UNCHANGED <<cap, usage, today, unrecorded, ceiling>>
    BY <1>5, FinishEffect DEF MarkRan, Procs
  <2>2. QED BY <2>1, NoRunFields, CapLeave
<1>6. QED
  BY <1>1, <1>2, <1>3, <1>4, <1>5, CapPipeline, CapDrop, CapCrash DEF Next

-----------------------------------------------------------------------------
(* The theorems. *)

(* The invariant holds of the initial states. *)
LEMMA InitIInv == Init => IInv
<1> SUFFICES ASSUME Init PROVE IInv
  OBVIOUS
<1>1. TypeOK /\ RunInv
  BY InitType
<1>2. \A p \in Procs : run[p].at = "idle" /\ run[p].idem = None
  BY NoRunFields DEF Init
<1>3. Scheduler \in Procs /\ \A h \in Handlers : h \in Procs
  BY DEF Procs
<1>4. KeyInv
  BY <1>2, <1>3 DEF Init, KeyInv, Stored, NoRecord
<1>5. OnceInv
  BY <1>2, <1>3 DEF Init, OnceInv
<1>6. TaskInv
  BY <1>2, <1>3 DEF Init, TaskInv
<1>7. CapInv
  <2> SUFFICES ASSUME NEW w \in Wallets PROVE Counted(w) /\ Gated(w)
    BY DEF CapInv
  <2>1. /\ Recording(w) = {} /\ Passed(w) = {} /\ At(w, {"usage", "broadcast"}) = {}
    BY <1>2 DEF Recording, Passed, At
  <2>2. usage[w] = 0 /\ today[w] = 0 /\ unrecorded[w] = 0 /\ ceiling[w] = cap[w]
    BY DEF Init
  <2>3. Cardinality(Recording(w)) = 0 /\ Cardinality(Passed(w)) = 0
    BY <2>1, FS_EmptySet
  <2>4. ceiling[w] # None => ceiling[w] \in Nat
    BY <1>1 DEF TypeOK, Limit
  <2>5. QED BY <2>1, <2>2, <2>3, <2>4, ProcsFinite DEF Counted, Gated
<1>8. QED BY <1>1, <1>4, <1>5, <1>6, <1>7 DEF IInv

(* Every step keeps it. *)
LEMMA StepIInv == IInv /\ [Next]_vars => IInv'
<1> SUFFICES ASSUME IInv, [Next]_vars PROVE IInv'
  OBVIOUS
<1>1. TypeOK' /\ RunInv'
  BY TypeStep DEF IInv
<1>2. KeyInv' /\ OnceInv'
  BY KeyStep DEF IInv
<1>3. TaskInv'
  BY TaskStep DEF IInv
<1>4. CapInv'
  BY <1>1, CapStep DEF IInv
<1>5. QED BY <1>1, <1>2, <1>3, <1>4 DEF IInv

(* The invariant that the safety properties follow from. *)
THEOREM Invariance == Spec => []IInv
BY InitIInv, StepIInv, PTL DEF Spec

(* Every document and every execution stays what its type says. *)
THEOREM TypeCorrect == Spec => []TypeOK
<1>1. IInv => TypeOK
  BY DEF IInv
<1>2. QED BY <1>1, Invariance, PTL

(* While its record lives, a key broadcasts one transaction at most, unless   *)
(* an execution under it failed after the node had taken its transaction.    *)
THEOREM AtMostOncePerKeyHolds == Spec => []AtMostOncePerKey
<1>1. IInv => AtMostOncePerKey
  BY DEF IInv, OnceInv, AtMostOncePerKey
<1>2. QED BY <1>1, Invariance, PTL

(* Every answer under a key is one transaction, broadcast for the body that   *)
(* is answered, whatever fails, crashes, is dropped or is retried.           *)
THEOREM OneAnswerPerKeyHolds == Spec => []OneAnswerPerKey
<1>1. IInv => OneAnswerPerKey
  BY DEF IInv, KeyInv, Stored, OneAnswerPerKey
<1>2. QED BY <1>1, Invariance, PTL

(* A wallet overruns the highest cap it had by one broadcast less than there  *)
(* are processes, and by those whose usage record was lost.                  *)
THEOREM CapOvershootHolds == Spec => []CapOvershoot
<1>1. IInv => CapOvershoot
  <2> SUFFICES ASSUME IInv, NEW w \in Wallets, ceiling[w] # None
               PROVE  today[w] < ceiling[w] + Cardinality(Procs) + unrecorded[w]
    BY DEF CapOvershoot
  <2>1. Counted(w) /\ Gated(w) /\ TypeOK
    BY DEF IInv, CapInv
  <2>2. /\ today[w] \in Nat /\ usage[w] \in Nat /\ unrecorded[w] \in Nat /\ ceiling[w] \in Nat
        /\ Cardinality(Recording(w)) \in Nat /\ Cardinality(Passed(w)) \in Nat
    BY <2>1, AtType DEF TypeOK, Limit, Recording, Passed
  <2>3. Cardinality(Recording(w)) <= Cardinality(Passed(w))
    <3>1. Recording(w) \in SUBSET Passed(w) /\ IsFiniteSet(Passed(w))
      BY AtType DEF Recording, Passed, At
    <3>2. QED BY <3>1, PartSize
  <2>4. QED BY <2>1, <2>2, <2>3, ProcsFinite DEF Counted, Gated
<1>2. QED BY <1>1, Invariance, PTL

(* The scheduler broadcasts a task once for each time it comes due, TimeOnce  *)
(* tasks, which come due with every poll, and Recurring ones side by side.   *)
THEOREM OnceForEachDueHolds == Spec => []OnceForEachDue
<1>1. IInv => OnceForEachDue
  BY DEF IInv, TaskInv, Sending, Over, OnceForEachDue
<1>2. QED BY <1>1, Invariance, PTL
==============================================================================
