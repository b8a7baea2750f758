-------------------------- MODULE TerminalExecutions --------------------------
(***************************************************************************)
(* Commands that users run in the terminal.  Each has a record, dated when   *)
(* it is made and put in a map that holds a thousand of them, and a task    *)
(* that starts the command, waits for it, for its cancellation or for the   *)
(* timeout, reads its output to the end, and completes the record.  The map *)
(* is under a lock, held for each of these steps alone.                     *)
(***************************************************************************)
EXTENDS Naturals, FiniteSets

CONSTANTS
    MaxExecutions,   \* bound on the records ever made
    Capacity         \* records above which an insert evicts, 1000

ASSUME TerminalAssumption == MaxExecutions \in Nat /\ Capacity \in Nat \ {0}

VARIABLES
    executions,   \* the map, from an execution to its record
    started,      \* executions so far, in the order of created_at
    task,         \* what the task of each is about to do
    outcome,      \* the state each task will complete its record with
    signal,       \* the cancel channel: "open", "sent", or "closed" once its
                  \* sender is dropped
    child,        \* external: the process of each command
    pipes,        \* external: a process the command left behind has its output
    peak          \* history: the most that ever ran at a time

vars == <<executions, started, task, outcome, signal, child, pipes, peak>>

-----------------------------------------------------------------------------
Executions == 1..MaxExecutions
Ended == {"success", "error", "cancelled", "timed_out"}
State == {"running"} \cup Ended
TaskStep == {"none", "created", "launch", "wait", "join", "complete", "done"}

Records == DOMAIN executions
RunningIn(map) == {i \in DOMAIN map : map[i] = "running"}
Running == RunningIn(executions)

Larger(a, b) == IF a > b THEN a ELSE b

TaskNext(i, step) == task' = [task EXCEPT ![i] = step]

Init ==
    /\ executions = <<>>
    /\ started = 0
    /\ task = [i \in Executions |-> "none"]
    /\ outcome = [i \in Executions |-> "error"]
    /\ signal = [i \in Executions |-> "open"]
    /\ child = [i \in Executions |-> "none"]
    /\ pipes = [i \in Executions |-> FALSE]
    /\ peak = 0

-----------------------------------------------------------------------------
(* Requests. *)

(* Mutation of Evictable: the oldest, whatever its state. *)
EvictableAny == Records

Evictable == Records \ Running

(* Mutation of Evicted: one record more is let in. *)
EvictedAbove ==
    IF Cardinality(Records) > Capacity
    THEN {i \in Evictable : \A j \in Evictable : i <= j}
    ELSE {}

Evicted ==
    IF Cardinality(Records) >= Capacity
    THEN {i \in Evictable : \A j \in Evictable : i <= j}
    ELSE {}

(* The record is dated before the lock is waited for, *)
Create ==
    LET i == started + 1
    IN  /\ started < MaxExecutions
        /\ started' = i
        /\ TaskNext(i, "created")
        /\ UNCHANGED <<executions, outcome, signal, child, pipes, peak>>

(* so that records may enter the map in another order than they are dated;    *)
(* a request cut off before it has the lock enters none.  A record that is   *)
(* evicted takes the sender of its channel along.                            *)
Register(i) ==
    /\ task[i] = "created"
    /\ executions' = [j \in (Records \ Evicted) \cup {i} |->
                          IF j = i THEN "running" ELSE executions[j]]
    /\ signal' = [j \in Executions |->
                      IF j \in Evicted /\ signal[j] = "open" THEN "closed" ELSE signal[j]]
    /\ TaskNext(i, "launch")
    /\ peak' = Larger(peak, Cardinality(RunningIn(executions')))
    /\ UNCHANGED <<started, outcome, child, pipes>>

(* Mutation of Cancel: the record is ended at once. *)
CancelAtOnce(i) ==
    /\ i \in Running
    /\ signal' = [signal EXCEPT ![i] = IF @ = "open" THEN "sent" ELSE @]
    /\ executions' = [executions EXCEPT ![i] = "cancelled"]
    /\ UNCHANGED <<started, task, outcome, child, pipes, peak>>

(* By its user: the sender is taken out of the record, and sends once.  An    *)
(* execution that has ended is left alone.                                   *)
Cancel(i) ==
    /\ i \in Running
    /\ signal[i] = "open"
    /\ signal' = [signal EXCEPT ![i] = "sent"]
    /\ UNCHANGED <<executions, started, task, outcome, child, pipes, peak>>

-----------------------------------------------------------------------------
(* The task. *)

(* What parse_command, validate_txio_command and the spawn itself refuse. *)
LaunchErrors == {"malformed", "empty", "not vetted", "not spawned"}

(* Mutation of Refuse: a command that is refused ends in a state of its own. *)
RefuseApart(i) ==
    /\ task[i] = "launch"
    /\ outcome' = [outcome EXCEPT ![i] = "refused"]
    /\ TaskNext(i, "complete")
    /\ UNCHANGED <<executions, started, signal, child, pipes, peak>>

Refuse(i) ==
    /\ task[i] = "launch"
    /\ \E error \in LaunchErrors : outcome' = [outcome EXCEPT ![i] = "error"]
    /\ TaskNext(i, "complete")
    /\ UNCHANGED <<executions, started, signal, child, pipes, peak>>

Spawn(i) ==
    /\ task[i] = "launch"
    /\ child' = [child EXCEPT ![i] = "running"]
    /\ TaskNext(i, "wait")
    /\ UNCHANGED <<executions, started, outcome, signal, pipes, peak>>

(* select! takes any branch that is ready. *)
Finished(i) ==
    /\ task[i] = "wait"
    /\ child[i] = "exited"
    /\ \E state \in {"success", "error"} : outcome' = [outcome EXCEPT ![i] = state]
    /\ TaskNext(i, "join")
    /\ UNCHANGED <<executions, started, signal, child, pipes, peak>>

(* A sender that was dropped counts as well. *)
Cancelled(i) ==
    /\ task[i] = "wait"
    /\ signal[i] # "open"
    /\ child' = [child EXCEPT ![i] = "exited"]
    /\ outcome' = [outcome EXCEPT ![i] = "cancelled"]
    /\ TaskNext(i, "join")
    /\ UNCHANGED <<executions, started, signal, pipes, peak>>

(* Mutation of TimedOut: it covers the end of a cancelled command only. *)
TimedOutIfCancelled(i) ==
    /\ task[i] = "wait"
    /\ signal[i] = "sent"
    /\ child' = [child EXCEPT ![i] = "exited"]
    /\ outcome' = [outcome EXCEPT ![i] = "timed_out"]
    /\ TaskNext(i, "join")
    /\ UNCHANGED <<executions, started, signal, pipes, peak>>

(* COMMAND_TIMEOUT. *)
TimedOut(i) ==
    /\ task[i] = "wait"
    /\ child' = [child EXCEPT ![i] = "exited"]
    /\ outcome' = [outcome EXCEPT ![i] = "timed_out"]
    /\ TaskNext(i, "join")
    /\ UNCHANGED <<executions, started, signal, pipes, peak>>

(* read_to_end returns when nobody holds the pipes; no timeout covers it. *)
JoinOutput(i) ==
    /\ task[i] = "join"
    /\ ~ pipes[i]
    /\ TaskNext(i, "complete")
    /\ UNCHANGED <<executions, started, outcome, signal, child, pipes, peak>>

(* A record that is gone is not completed. *)
Complete(i) ==
    /\ task[i] = "complete"
    /\ executions' = [j \in Records |-> IF j = i THEN outcome[i] ELSE executions[j]]
    /\ TaskNext(i, "done")
    /\ UNCHANGED <<started, outcome, signal, child, pipes, peak>>

-----------------------------------------------------------------------------
(* The commands. *)

Exit(i) ==
    /\ child[i] = "running"
    /\ child' = [child EXCEPT ![i] = "exited"]
    /\ UNCHANGED <<executions, started, task, outcome, signal, pipes, peak>>

(* A command hands its output to a process that outlives it, *)
LeaveBehind(i) ==
    /\ child[i] = "running"
    /\ pipes' = [pipes EXCEPT ![i] = TRUE]
    /\ UNCHANGED <<executions, started, task, outcome, signal, child, peak>>

(* which may end. *)
LetGo(i) ==
    /\ pipes[i]
    /\ pipes' = [pipes EXCEPT ![i] = FALSE]
    /\ UNCHANGED <<executions, started, task, outcome, signal, child, peak>>

Run(i) ==
    \/ Refuse(i) \/ Spawn(i)
    \/ Finished(i) \/ Cancelled(i) \/ TimedOut(i)
    \/ JoinOutput(i) \/ Complete(i)

Next ==
    \/ Create
    \/ \E i \in Executions : Register(i) \/ Cancel(i) \/ Run(i) \/ Exit(i) \/ LeaveBehind(i) \/ LetGo(i)

(* tokio runs each task, and the sleep of the timeout ends.  Nothing is        *)
(* assumed of the commands and of those who cancel them.                     *)
Fairness == \A i \in Executions : WF_vars(Run(i))

Spec == Init /\ [][Next]_vars /\ Fairness

-----------------------------------------------------------------------------
TypeOK ==
    /\ Records \subseteq 1..started
    /\ executions \in [Records -> State]
    /\ started \in 0..MaxExecutions
    /\ task \in [Executions -> TaskStep]
    /\ outcome \in [Executions -> Ended]
    /\ signal \in [Executions -> {"open", "sent", "closed"}]
    /\ child \in [Executions -> {"none", "running", "exited"}]
    /\ pipes \in [Executions -> BOOLEAN]
    /\ peak \in 0..MaxExecutions

(* The eviction passes over what runs, so a full map of running commands      *)
(* grows: it never holds more than a thousand or than ran at once.           *)
MapBounded == Cardinality(Records) <= Larger(Capacity, peak)

(* A command whose task is still to complete its record can be found, and be  *)
(* cancelled, by its user, however many have been executed since.            *)
RunningKept ==
    \A i \in Executions :
        task[i] \in {"launch", "wait", "join", "complete"} => i \in Running

Registered(i) == task[i] \notin {"none", "created"}

(* Its user sees an execution end once: the state it ended with stays until   *)
(* the record goes, and a record that went does not come back.               *)
EndedOnce ==
    [][\A i \in Executions :
          /\ i \in Records \ Running /\ i \in DOMAIN executions' => executions'[i] = executions[i]
          /\ Registered(i) /\ i \notin Records => i \notin DOMAIN executions']_vars

(* Every command ends, whatever it does, unless a process that it left behind *)
(* holds its output for ever: the kill of the timeout reaches only the child. *)
EveryCommandEnds ==
    \A i \in Executions :
        (task[i] = "launch" ~> task[i] = "done") \/ <>[]pipes[i]
===============================================================================
