--------------------------- MODULE TerminalProofs ---------------------------
(***************************************************************************)
(* Theorems about TerminalExecutions, for every capacity of the map and any *)
(* number of commands.  They need no fairness.                             *)
(***************************************************************************)
EXTENDS TerminalExecutions, Counting

(* The steps of a task whose command has not ended. *)
Underway == {"launch", "wait", "join", "complete"}

(* A task belongs to a command that was executed, and is under way exactly    *)
(* while the map has its record as running.                                  *)
TaskInv ==
    /\ \A i \in Executions : i > started <=> task[i] = "none"
    /\ \A i \in Records : Registered(i)
    /\ \A i \in Executions : task[i] \in Underway <=> i \in Running

(* No more commands run than ever ran at a time, and the records are those or *)
(* few.                                                                      *)
MapInv ==
    /\ Cardinality(Running) <= peak
    /\ Cardinality(Records) <= Larger(Capacity, peak)

(* The inductive invariant. *)
IInv == TypeOK /\ TaskInv /\ MapInv

-----------------------------------------------------------------------------
(* The records are finitely many, and number no more than the executions. *)
LEMMA RecordsFinite ==
    ASSUME TypeOK
    PROVE  /\ Records \in SUBSET Nat /\ Running \in SUBSET Records
           /\ IsFiniteSet(Records) /\ IsFiniteSet(Running)
           /\ Cardinality(Records) \in 0..started
           /\ Cardinality(Running) \in 0..started
           /\ started \in Nat /\ Records \subseteq Executions
<1>1. started \in Nat /\ Records \in SUBSET (1..started) /\ Running \in SUBSET Records
  BY TerminalAssumption DEF TypeOK, Running, RunningIn, Records
<1>2. 1..started \subseteq Executions /\ 1..started \subseteq Nat
  BY TerminalAssumption DEF TypeOK, Executions
<1>3. IsFiniteSet(Records) /\ Cardinality(Records) \in 0..started
  BY <1>1, SizeUpTo
<1>4. IsFiniteSet(Running) /\ Cardinality(Running) \in 0..started
  BY <1>1, SizeUpTo
<1>5. QED BY <1>1, <1>2, <1>3, <1>4

(* What an eviction takes ran no longer, and it takes one record if it can. *)
LEMMA EvictedOne ==
    ASSUME TypeOK
    PROVE  /\ Evicted \subseteq Records \ Running
           /\ Cardinality(Records) < Capacity => Evicted = {}
           /\ Cardinality(Records) >= Capacity /\ Running # Records =>
                 \E i \in Records \ Running : Evicted = {i}
<1>1. Cardinality(Records) \in Nat /\ Capacity \in Nat /\ Evictable \in SUBSET Nat
      /\ Evictable = Records \ Running /\ Running \subseteq Records
  BY RecordsFinite, TerminalAssumption DEF Evictable
<1>2. ASSUME Cardinality(Records) >= Capacity, Running # Records
      PROVE  \E i \in Evictable : Evicted = {i}
  <2>1. PICK i \in Evictable : \A j \in Evictable : i <= j
    BY <1>1, <1>2, LeastMember
  <2>2. Evicted = {k \in Evictable : \A j \in Evictable : k <= j}
    BY <1>1, <1>2 DEF Evicted
  <2>3. \A k \in Evictable : (\A j \in Evictable : k <= j) <=> k = i
    BY <1>1, <2>1
  <2>4. QED BY <2>2, <2>3
<1>3. QED BY <1>1, <1>2 DEF Evicted

-----------------------------------------------------------------------------
(* A record that is made has a task, and nothing else. *)
LEMMA CreateStep ==
    ASSUME IInv, Create
    PROVE  IInv' /\ executions' = executions
<1>1. TypeOK /\ TaskInv /\ MapInv
  BY DEF IInv
<1> DEFINE i == started + 1
<1>2. /\ i \in Executions /\ started' = i /\ started \in Nat
      /\ UNCHANGED <<executions, outcome, signal, child, pipes, peak>>
  BY <1>1, RecordsFinite, TerminalAssumption DEF Create, Executions
<1>3. \A j \in Executions : task'[j] = IF j = i THEN "created" ELSE task[j]
  BY <1>1 DEF Create, TaskNext, TypeOK
<1>4. Records' = Records /\ Running' = Running
  BY <1>2 DEF Records, Running, RunningIn
<1>5. TypeOK'
  <2>1. Records' \subseteq 1..started' /\ started' \in 0..MaxExecutions
    BY <1>1, <1>2, <1>4, TerminalAssumption DEF TypeOK, Executions
  <2>2. task' \in [Executions -> TaskStep]
    BY <1>1 DEF Create, TaskNext, TypeOK, TaskStep
  <2>3. QED BY <1>1, <1>2, <1>4, <2>1, <2>2 DEF TypeOK
<1>6. task[i] = "none"
  BY <1>1, <1>2 DEF TaskInv
<1>7. i \notin Running /\ i \notin Records
  BY <1>1, <1>2, <1>6 DEF TaskInv, Underway, Registered
<1>8. TaskInv'
  <2>1. \A j \in Executions : j > started' <=> j > started /\ j # i
    BY <1>2 DEF Executions
  <2> HIDE DEF i
  <2>2. \A j \in Executions : j > started' <=> task'[j] = "none"
    BY <1>1, <1>3, <2>1 DEF TaskInv
  <2>3. \A j \in Records' : Registered(j)'
    BY <1>1, <1>3, <1>4, <1>7, RecordsFinite DEF TaskInv, Registered
  <2>4. \A j \in Executions : task'[j] \in Underway <=> j \in Running'
    BY <1>1, <1>3, <1>4, <1>7 DEF TaskInv, Underway
  <2>5. QED BY <2>2, <2>3, <2>4 DEF TaskInv
<1>9. MapInv'
  BY <1>1, <1>2, <1>4 DEF MapInv
<1>10. QED BY <1>2, <1>5, <1>8, <1>9 DEF IInv

(* What Register does to the map and the tasks. *)
LEMMA RegisterEffect ==
    ASSUME TypeOK, TaskInv, NEW i \in Executions, Register(i)
    PROVE  /\ i \notin Records /\ i \in 1..started
           /\ Records' = (Records \ Evicted) \cup {i}
           /\ executions'[i] = "running"
           /\ \A j \in Records \ Evicted : executions'[j] = executions[j]
           /\ Running' = Running \cup {i}
<1>1. i \notin Records /\ i \in 1..started
  BY RecordsFinite DEF Register, Executions, TaskInv, Registered
<1>2. executions' = [j \in (Records \ Evicted) \cup {i} |->
                        IF j = i THEN "running" ELSE executions[j]]
  BY DEF Register
<1>3. /\ Records' = (Records \ Evicted) \cup {i}
      /\ executions'[i] = "running"
      /\ \A j \in Records \ Evicted : executions'[j] = executions[j]
  BY <1>1, <1>2 DEF Records
<1>4. Running' = {j \in Records' : executions'[j] = "running"}
  BY DEF Running, RunningIn, Records
<1>5. Running = {j \in Records : executions[j] = "running"} /\ Evicted \cap Running = {}
  BY EvictedOne DEF Running, RunningIn, Records
<1>6. QED BY <1>1, <1>3, <1>4, <1>5

(* A new command is typed, runs, and finds room by eviction or grows the map  *)
(* with none but running ones.                                               *)
LEMMA RegisterStep ==
    ASSUME IInv, NEW i \in Executions, Register(i)
    PROVE  IInv'
<1>1. TypeOK /\ TaskInv /\ MapInv
  BY DEF IInv
<1>2. /\ i \notin Records /\ i \in 1..started /\ started' = started
      /\ Records' = (Records \ Evicted) \cup {i}
      /\ executions'[i] = "running"
      /\ \A j \in Records \ Evicted : executions'[j] = executions[j]
      /\ Running' = Running \cup {i}
  BY <1>1, RegisterEffect DEF Register
<1>3. /\ IsFiniteSet(Records) /\ IsFiniteSet(Running) /\ Running \subseteq Records
      /\ Cardinality(Records) \in Nat /\ Cardinality(Running) \in Nat
      /\ started \in Nat
  BY <1>1, RecordsFinite
<1>4. /\ task[i] = "created" /\ task' = [task EXCEPT ![i] = "launch"]
      /\ peak' = Larger(peak, Cardinality(Running'))
  BY DEF Register, TaskNext, Running
<1>5. Cardinality(Running') = Cardinality(Running) + 1 /\ Cardinality(Running) + 1 <= started
  <2>1. Cardinality(Running \cup {i}) = Cardinality(Running) + 1
    BY <1>2, <1>3, SizeWith
  <2>2. Running \cup {i} \in SUBSET (1..started)
    BY <1>1, <1>2, <1>3 DEF TypeOK
  <2>3. Cardinality(Running \cup {i}) <= started
    BY <1>3, <2>2, SizeUpTo
  <2>4. QED BY <1>2, <2>1, <2>3
<1>6. TypeOK'
  <2>1. Records' \subseteq 1..started'
    BY <1>1, <1>2 DEF TypeOK
  <2>2. executions' \in [Records' -> State]
    <3>1. executions' = [j \in Records' |-> executions'[j]]
      BY DEF Register, Records
    <3>2. \A j \in Records' : executions'[j] \in State
      BY <1>1, <1>2 DEF TypeOK, State
    <3>3. QED BY <3>1, <3>2
  <2>3. started' \in 0..MaxExecutions /\ peak' \in 0..MaxExecutions
    BY <1>1, <1>2, <1>3, <1>4, <1>5, TerminalAssumption DEF TypeOK, Larger
  <2>4. /\ task' \in [Executions -> TaskStep]
        /\ signal' \in [Executions -> {"open", "sent", "closed"}]
    BY <1>1, <1>4 DEF Register, TypeOK, TaskStep
  <2>5. QED BY <1>1, <2>1, <2>2, <2>3, <2>4 DEF Register, TypeOK
<1>7. TaskInv'
  <2>1. \A j \in Executions : task'[j] = IF j = i THEN "launch" ELSE task[j]
    BY <1>1, <1>4 DEF TypeOK
  <2>2. \A j \in Executions : j > started' <=> task'[j] = "none"
    BY <1>1, <1>2, <1>4, <2>1 DEF TaskInv
  <2>3. \A j \in Records' : Registered(j)'
    BY <1>1, <1>2, <2>1, RecordsFinite DEF TaskInv, Registered
  <2>4. \A j \in Executions : task'[j] \in Underway <=> j \in Running'
    BY <1>1, <1>2, <2>1 DEF TaskInv, Underway
  <2>5. QED BY <2>2, <2>3, <2>4 DEF TaskInv
<1>8. MapInv'
  <2>1. peak \in Nat /\ peak' \in Nat /\ Cardinality(Running) \in Nat /\ Capacity \in Nat \ {0}
    BY <1>1, <1>3, <1>6, TerminalAssumption DEF TypeOK
  <2>2. Cardinality(Running') <= peak' /\ peak <= peak'
    BY <1>4, <1>5, <2>1 DEF Larger
  <2>3. Cardinality(Records') <= Larger(Capacity, peak')
    <3>1. CASE Cardinality(Records) < Capacity
      <4>1. Records' = Records \cup {i}
        BY <1>1, <1>2, <3>1, EvictedOne
      <4>2. Cardinality(Records') = Cardinality(Records) + 1
        BY <1>2, <1>3, <4>1, SizeWith
      <4>3. QED BY <1>3, <2>1, <3>1, <4>2 DEF Larger
    <3>2. CASE Cardinality(Records) >= Capacity /\ Running # Records
      <4>1. PICK k \in Records \ Running : Evicted = {k}
        BY <1>1, <3>2, EvictedOne
      <4>2. IsFiniteSet(Records \ {k}) /\ Cardinality(Records \ {k}) = Cardinality(Records) - 1
        BY <1>3, SizeLess
      <4>3. Cardinality(Records') = Cardinality(Records \ {k}) + 1
        <5>1. i \notin Records \ {k} /\ Records' = (Records \ {k}) \cup {i}
          BY <1>2, <1>3, <4>1
        <5>2. QED BY <4>2, <5>1, SizeWith
      <4>4. Cardinality(Records') = Cardinality(Records)
        BY <1>3, <4>2, <4>3
      <4>5. QED BY <1>1, <1>3, <2>1, <2>2, <4>4 DEF MapInv, Larger
    <3>3. CASE Running = Records
      <4>1. Records' = Running'
        BY <1>1, <1>2, <3>3, EvictedOne
      <4>2. QED BY <1>3, <1>5, <2>1, <2>2, <4>1 DEF Larger
    <3>4. QED BY <1>3, <2>1, <3>1, <3>2, <3>3
  <2>4. QED BY <2>2, <2>3 DEF MapInv
<1>9. QED BY <1>6, <1>7, <1>8 DEF IInv

(* A step that leaves the map alone keeps all but what it says of the tasks. *)
LEMMA MapFrame ==
    ASSUME TypeOK, UNCHANGED <<executions, started, peak>>
    PROVE  /\ Records' = Records /\ Running' = Running
           /\ MapInv => MapInv'
<1>1. Records' = Records /\ Running' = Running
  BY DEF Records, Running, RunningIn
<1>2. QED BY <1>1 DEF MapInv

(* A task that goes on within its command keeps the invariant. *)
LEMMA TaskStepKept ==
    ASSUME IInv, NEW i \in Executions, NEW step \in Underway, task[i] \in Underway,
           TaskNext(i, step), UNCHANGED <<executions, started, peak>>
    PROVE  /\ TaskInv' /\ MapInv'
           /\ task' \in [Executions -> TaskStep]
<1>1. TypeOK /\ TaskInv /\ MapInv
  BY DEF IInv
<1>2. \A j \in Executions : task'[j] = IF j = i THEN step ELSE task[j]
  BY <1>1 DEF TypeOK, TaskNext
<1>3. ~ (i > started)
  BY <1>1 DEF TaskInv, Underway
<1>4. TaskInv'
  <2>1. \A j \in Executions : j > started' <=> task'[j] = "none"
    BY <1>1, <1>2, <1>3 DEF TaskInv, Underway
  <2>2. \A j \in Records' : Registered(j)'
    BY <1>1, <1>2, MapFrame, RecordsFinite DEF TaskInv, Registered, Underway
  <2>3. QED BY <1>1, <1>2, <2>1, <2>2, MapFrame DEF TaskInv, Underway
<1>5. task' \in [Executions -> TaskStep]
  BY <1>1 DEF TypeOK, TaskNext, TaskStep, Underway
<1>6. QED BY <1>1, <1>4, <1>5, MapFrame

(* A command that is completed ends in its record, and nowhere else. *)
LEMMA CompleteStep ==
    ASSUME IInv, NEW i \in Executions, Complete(i)
    PROVE  /\ IInv'
           /\ Records' = Records /\ i \in Running
           /\ \A j \in Records \ {i} : executions'[j] = executions[j]
<1>1. TypeOK /\ TaskInv /\ MapInv
  BY DEF IInv
<1>2. /\ Records' = Records
      /\ \A j \in Records : executions'[j] = IF j = i THEN outcome[i] ELSE executions[j]
      /\ executions' = [j \in Records' |-> executions'[j]]
      /\ UNCHANGED <<started, peak>>
  BY DEF Complete, Records
<1>3. task[i] = "complete" /\ \A j \in Executions : task'[j] = IF j = i THEN "done" ELSE task[j]
  BY <1>1 DEF Complete, TaskNext, TypeOK
<1>4. i \in Running /\ i \in Records
  BY <1>1, <1>3 DEF TaskInv, Underway, Running, RunningIn, Records
<1>5. outcome[i] \in Ended /\ outcome[i] # "running"
  BY <1>1 DEF TypeOK, Ended
<1>6. Running' = Running \ {i}
  BY <1>2, <1>4, <1>5 DEF Running, RunningIn, Records
<1>7. TypeOK'
  <2>1. executions' \in [Records' -> State]
    <3>1. \A j \in Records' : executions'[j] \in State
      BY <1>1, <1>2, <1>5 DEF TypeOK, State
    <3>2. QED BY <1>2, <3>1
  <2>2. task' \in [Executions -> TaskStep]
    BY <1>1 DEF Complete, TypeOK, TaskNext, TaskStep
  <2>3. QED BY <1>1, <1>2, <2>1, <2>2 DEF Complete, TypeOK
<1>8. TaskInv'
  <2>1. \A j \in Executions : j > started' <=> task'[j] = "none"
    BY <1>1, <1>2, <1>3 DEF TaskInv
  <2>2. \A j \in Records' : Registered(j)'
    BY <1>1, <1>2, <1>3, RecordsFinite DEF TaskInv, Registered
  <2>3. \A j \in Executions : task'[j] \in Underway <=> j \in Running'
    BY <1>1, <1>3, <1>6 DEF TaskInv, Underway
  <2>4. QED BY <2>1, <2>2, <2>3 DEF TaskInv
<1>9. MapInv'
  <2>1. Cardinality(Running') = Cardinality(Running) - 1 /\ Cardinality(Running) \in Nat
    BY <1>1, <1>4, <1>6, RecordsFinite, SizeLess
  <2>2. QED BY <1>1, <1>2, <2>1 DEF MapInv, TypeOK
<1>10. QED BY <1>2, <1>4, <1>7, <1>8, <1>9 DEF IInv

(* The steps that neither insert a record nor complete one. *)
LEMMA QuietStep ==
    ASSUME IInv, NEW i \in Executions,
           \/ Cancel(i) \/ Refuse(i) \/ Spawn(i) \/ Finished(i) \/ Cancelled(i) \/ TimedOut(i)
           \/ JoinOutput(i) \/ Exit(i) \/ LeaveBehind(i) \/ LetGo(i)
    PROVE  IInv' /\ executions' = executions
<1>1. TypeOK /\ TaskInv /\ MapInv
  BY DEF IInv
<1>2. UNCHANGED <<executions, started, peak>> /\ Records' = Records
  BY DEF Cancel, Refuse, Spawn, Finished, Cancelled, TimedOut, JoinOutput, Exit, LeaveBehind,
         LetGo, Records
<1>3. /\ signal' \in [Executions -> {"open", "sent", "closed"}]
      /\ child' \in [Executions -> {"none", "running", "exited"}]
      /\ pipes' \in [Executions -> BOOLEAN]
      /\ outcome' \in [Executions -> Ended]
  BY ZenonT(40), <1>1 DEF Cancel, Refuse, Spawn, Finished, Cancelled, TimedOut, JoinOutput, Exit, LeaveBehind,
         LetGo, TypeOK, Ended
<1>4. TaskInv' /\ MapInv' /\ task' \in [Executions -> TaskStep]
  <2>1. CASE task' = task
    BY <1>1, <1>2, <2>1, MapFrame DEF TaskInv, TypeOK, Registered
  <2>2. CASE \/ Refuse(i) \/ Spawn(i) \/ Finished(i) \/ Cancelled(i) \/ TimedOut(i)
             \/ JoinOutput(i)
    <3>1. /\ task[i] \in Underway
          /\ \E step \in Underway : TaskNext(i, step)
      BY <2>2 DEF Refuse, Spawn, Finished, Cancelled, TimedOut, JoinOutput, Underway
    <3>2. QED BY <1>2, <3>1, TaskStepKept
  <2>3. QED BY <2>1, <2>2 DEF Cancel, Exit, LeaveBehind, LetGo
<1>5. TypeOK'
  BY <1>1, <1>2, <1>3, <1>4 DEF TypeOK
<1>6. QED BY <1>2, <1>4, <1>5 DEF IInv

-----------------------------------------------------------------------------
(* The invariant holds of the initial states. *)
LEMMA InitIInv == Init => IInv
<1> SUFFICES ASSUME Init PROVE IInv
  OBVIOUS
<1>1. Records = {} /\ Running = {}
  BY DEF Init, Records, Running, RunningIn
<1>2. TypeOK
  BY <1>1, TerminalAssumption DEF Init, TypeOK, TaskStep, Ended, Records
<1>3. TaskInv
  BY <1>1, TerminalAssumption DEF Init, TaskInv, Underway, Executions
<1>4. MapInv
  BY <1>1, FS_EmptySet, TerminalAssumption DEF Init, MapInv, Larger
<1>5. QED BY <1>2, <1>3, <1>4 DEF IInv

(* Every step keeps it. *)
LEMMA StepIInv == IInv /\ [Next]_vars => IInv'
<1> SUFFICES ASSUME IInv, [Next]_vars PROVE IInv'
  OBVIOUS
<1>1. CASE UNCHANGED vars
  BY <1>1, MapFrame DEF vars, IInv, TypeOK, TaskInv, Records, Registered
<1>2. QED
  BY <1>1, CreateStep, RegisterStep, CompleteStep, QuietStep DEF Next, Run

(* The invariant that the properties follow from. *)
THEOREM Invariance == Spec => []IInv
BY InitIInv, StepIInv, PTL DEF Spec

(* Records, tasks and commands stay what their types say. *)
THEOREM TypeCorrect == Spec => []TypeOK
<1>1. IInv => TypeOK
  BY DEF IInv
<1>2. QED BY <1>1, Invariance, PTL

(* The map never holds more than its capacity or than ever ran at a time. *)
THEOREM MapBoundedHolds == Spec => []MapBounded
<1>1. IInv => MapBounded
  BY DEF IInv, MapInv, MapBounded
<1>2. QED BY <1>1, Invariance, PTL

(* No eviction takes the record of a command whose task is under way. *)
THEOREM RunningKeptHolds == Spec => []RunningKept
<1>1. IInv => RunningKept
  BY DEF IInv, TaskInv, Underway, RunningKept
<1>2. QED BY <1>1, Invariance, PTL

(* The state a command ended with stays until its record goes, for good. *)
THEOREM EndedOnceHolds == Spec => EndedOnce
<1> DEFINE Once ==
      \A i \in Executions :
          /\ i \in Records \ Running /\ i \in DOMAIN executions' => executions'[i] = executions[i]
          /\ Registered(i) /\ i \notin Records => i \notin DOMAIN executions'
<1>1. IInv /\ [Next]_vars => [Once]_vars
  <2> SUFFICES ASSUME IInv, [Next]_vars, ~ UNCHANGED vars PROVE Once
    OBVIOUS
  <2>1. TypeOK /\ DOMAIN executions' = Records'
    BY DEF IInv, Records
  <2>2. ASSUME NEW j \in Executions, Register(j)
        PROVE  Once
    <3>1. TaskInv /\ ~ Registered(j)
      BY <2>2 DEF IInv, Register, Registered
    <3>2. QED BY <2>1, <2>2, <3>1, RegisterEffect
  <2>3. ASSUME NEW j \in Executions, Complete(j)
        PROVE  Once
    BY <2>1, <2>3, CompleteStep
  <2>4. CASE executions' = executions
    BY <2>1, <2>4 DEF Records
  <2>5. QED BY <2>2, <2>3, <2>4, CreateStep, QuietStep DEF Next, Run
<1>2. QED BY <1>1, Invariance, PTL DEF Spec, EndedOnce
=============================================================================
