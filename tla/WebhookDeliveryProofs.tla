------------------------ MODULE WebhookDeliveryProofs ------------------------
(***************************************************************************)
(* Theorems about WebhookDelivery, for every set of events, subscriptions   *)
(* and permits, every length of the backoff table and any number of faults. *)
(*                                                                         *)
(* IInv is the inductive invariant: what a row's status says about who may  *)
(* still touch it.  OneWriter and AttemptsBounded follow from it, and so    *)
(* does each step of the refinement of WebhookContract.                     *)
(***************************************************************************)
EXTENDS WebhookDelivery, TLAPS

-----------------------------------------------------------------------------
(* A row exists only once dispatch has inserted it, which it does once. *)
DispatchInv ==
    \A e \in Events, s \in Subs :
        /\ s \in todo[e] => e \in fired
        /\ s \in todo[e] \/ e \notin fired => row[<<e, s>>].status = "absent"

(* Only rows claim_due selects can be due. *)
DueInv == \A d \in due : row[d].status \in Claimable

(* OneWriter, and an owned row's lease has not run out. *)
LeaseInv ==
    LeaseHolds =>
        \A w \in Workers, d \in Delivery :
            Owes(w, d) =>
                /\ \A v \in Workers : Owes(v, d) => v = w
                /\ row[d].status \in {"in_flight", "expired"}
                /\ row[d].attempts = task[w].attempts
                /\ d \notin due

(* AttemptsBounded by status: a row waiting for a retry has one left, and   *)
(* an abandoned claim was paid for with a fault.                            *)
BoundInv ==
    LeaseHolds =>
        \A d \in Delivery :
            /\ row[d].attempts <= BackoffLen + 1 + faults
            /\ row[d].status = "pending" => row[d].attempts <= BackoffLen
            /\ row[d].status = "in_flight" /\ (\A w \in Workers : ~Owes(w, d)) =>
                   row[d].attempts <= BackoffLen + faults

(* A task about to write "delivered" has the receiver's answer. *)
AcceptInv ==
    LeaseHolds =>
        \A w \in Workers : task[w].at = "accepted" => task[w].d \in accepted

(* A permit that is taken has a delivery. *)
HoldsInv == \A w \in Workers : task[w].at # "idle" => task[w].d \in Delivery

(* The inductive invariant. *)
IInv ==
    /\ TypeOK
    /\ HoldsInv
    /\ DispatchInv
    /\ DueInv
    /\ LeaseInv
    /\ BoundInv
    /\ AcceptInv

-----------------------------------------------------------------------------
(* Type correctness. *)

(* What the helpers that touch rows and the due queue leave behind is typed. *)
LEMMA EnqueueType ==
    ASSUME NEW d \in Delivery, TypeOK, Enqueue(d)
    PROVE  due' \in SUBSET Delivery /\ ahead' \in [Delivery -> SUBSET Delivery]
BY DEF Enqueue, TypeOK

(* Leaving the due queue keeps it typed. *)
LEMMA DequeueType ==
    ASSUME NEW d, TypeOK, Dequeue(d)
    PROVE  due' \in SUBSET Delivery /\ ahead' \in [Delivery -> SUBSET Delivery]
BY DEF Dequeue, TypeOK

(* An outcome written to a row by _id, or lost, keeps rows and queue typed. *)
LEMMA WriteRowType ==
    ASSUME NEW d, NEW status \in RowStatus, TypeOK, WriteRow(d, status)
    PROVE  /\ row' \in [Delivery -> RowDoc]
           /\ due' \in SUBSET Delivery
           /\ ahead' \in [Delivery -> SUBSET Delivery]
           /\ faults' \in 0..MaxFaults
<1>1. CASE SetStatus(d, status) /\ Dequeue(d) /\ UNCHANGED faults
  <2>1. row' \in [Delivery -> RowDoc]
    BY <1>1 DEF SetStatus, TypeOK, RowDoc
  <2>2. QED BY <1>1, <2>1, DequeueType DEF TypeOK
<1>2. CASE LoseWrite /\ UNCHANGED <<row, due, ahead>>
  BY <1>2, WebhookAssumption DEF LoseWrite, TypeOK
<1>3. QED BY <1>1, <1>2 DEF WriteRow

(* A write to a subscription, or its loss, keeps the document typed. *)
LEMMA WriteSubType ==
    ASSUME NEW s, NEW fields \in SubDoc, TypeOK, WriteSub(s, fields)
    PROVE  sub' \in [Subs -> SubDoc] /\ faults' \in 0..MaxFaults
<1>1. CASE (sub' = IF Present(s) THEN [sub EXCEPT ![s] = fields] ELSE sub) /\ UNCHANGED faults
  BY <1>1 DEF TypeOK
<1>2. CASE LoseWrite /\ UNCHANGED sub
  BY <1>2, WebhookAssumption DEF LoseWrite, TypeOK
<1>3. QED BY <1>1, <1>2 DEF WriteSub

(* A task that moves to another step or ends is still a task record. *)
LEMMA TaskType ==
    ASSUME TypeOK, NEW w \in Workers, NEW step \in Step, Advance(w, step) \/ Finish(w)
    PROVE  task' \in [Workers -> Task]
BY DEF TypeOK, Advance, Finish, Task, Idle, Step

(* A delivery names a subscription, so a document is found where one is sought. *)
LEMMA SubOfType == \A d \in Delivery : SubOf(d) \in Subs
BY DEF Delivery, SubOf

(* The steps of a delivery task keep the types. *)
LEMMA AttemptType ==
    ASSUME TypeOK, HoldsInv, NEW w \in Workers, Attempt(w)
    PROVE  TypeOK'
<1>0. task[w].at # "idle" => SubOf(task[w].d) \in Subs /\ sub[SubOf(task[w].d)] \in SubDoc
  BY SubOfType DEF HoldsInv, TypeOK
<1>1. CASE Lookup(w)
  <2>1. task' \in [Workers -> Task]
    <3>1. CASE task' = [task EXCEPT ![w].at = "post", ![w].secret = sub[SubOf(task[w].d)].secret]
      <4>1. sub[SubOf(task[w].d)].secret \in Nat
        BY <1>0, <1>1 DEF Lookup, SubDoc
      <4>2. QED BY ZenonT(40), <3>1, <4>1 DEF TypeOK, Task, Step
    <3>2. CASE Advance(w, "orphan") \/ Advance(w, "rejected")
      BY <3>2, TaskType DEF Step
    <3>3. QED BY <1>1, <3>1, <3>2 DEF Lookup
  <2>2. faults' \in 0..MaxFaults
    BY <1>1, WebhookAssumption DEF Lookup, LoseWrite, TypeOK
  <2>3. QED BY <1>1, <2>1, <2>2 DEF Lookup, TypeOK
<1>2. CASE Post(w)
  <2>1. task' \in [Workers -> Task]
    BY <1>2, TaskType DEF Post, Step
  <2>2. accepted' \in SUBSET Delivery
    BY <1>2 DEF Post, HoldsInv, TypeOK
  <2>3. QED BY <1>2, <2>1, <2>2 DEF Post, TypeOK
<1>3. CASE MarkDelivered(w)
  <2>1. task' \in [Workers -> Task]
    BY <1>3, TaskType DEF MarkDelivered, Step
  <2>2. QED BY <1>3, <2>1, WriteRowType DEF MarkDelivered, TypeOK, RowStatus
<1>4. CASE MarkDead(w)
  <2>1. task' \in [Workers -> Task]
    BY <1>4, TaskType DEF MarkDead, Step
  <2>2. QED BY <1>4, <2>1, WriteRowType DEF MarkDead, TypeOK, RowStatus
<1>5. CASE RecordOutcome(w)
  <2>1. task' \in [Workers -> Task]
    BY <1>5, TaskType DEF RecordOutcome, Step
  <2>2. \A error \in BOOLEAN : [sub[SubOf(task[w].d)] EXCEPT !.failing = error] \in SubDoc
    BY <1>0, <1>5 DEF RecordOutcome, SubDoc
  <2>3. sub' \in [Subs -> SubDoc] /\ faults' \in 0..MaxFaults
    BY <1>5, <2>2, WriteSubType DEF RecordOutcome, RecordDelivery
  <2>4. QED BY <1>5, <2>1, <2>3 DEF RecordOutcome, TypeOK
<1>6. CASE Deactivate(w)
  <2>1. task' \in [Workers -> Task]
    BY <1>6, TaskType DEF Deactivate, Step
  <2>2. [sub[SubOf(task[w].d)] EXCEPT !.state = "inactive", !.failing = TRUE] \in SubDoc
    BY <1>0, <1>6 DEF Deactivate, SubDoc, SubState
  <2>3. sub' \in [Subs -> SubDoc] /\ faults' \in 0..MaxFaults
    BY <1>6, <2>2, WriteSubType DEF Deactivate
  <2>4. QED BY <1>6, <2>1, <2>3 DEF Deactivate, TypeOK
<1>7. CASE RetryOrDie(w)
  <2>1. task' \in [Workers -> Task]
    BY <1>7, TaskType DEF RetryOrDie, Step
  <2>2. QED BY <1>7, <2>1, WriteRowType DEF RetryOrDie, TypeOK, RowStatus
<1>8. QED
  BY <1>1, <1>2, <1>3, <1>4, <1>5, <1>6, <1>7 DEF Attempt

(* Every step keeps the types. *)
LEMMA TypeStep ==
    ASSUME TypeOK, HoldsInv, [Next]_vars
    PROVE  TypeOK'
<1>1. ASSUME NEW s \in Subs, CreateSub(s) \/ DeleteSub(s) \/ RotateSecret(s)
      PROVE  TypeOK'
  <2>1. sub[s] \in SubDoc
    BY DEF TypeOK
  <2>2. CASE CreateSub(s)
    BY <2>2 DEF CreateSub, TypeOK, SubDoc, SubState
  <2>3. CASE DeleteSub(s)
    <3>1. [sub[s] EXCEPT !.state = "deleted"] \in SubDoc
      BY <2>1 DEF SubDoc, SubState
    <3>2. QED BY <2>3, <3>1 DEF DeleteSub, TypeOK
  <2>4. CASE RotateSecret(s)
    <3>1. [sub[s] EXCEPT !.secret = @ + 1] \in SubDoc
      BY <2>1 DEF SubDoc
    <3>2. QED BY <2>4, <3>1 DEF RotateSecret, TypeOK
  <2>5. QED BY <1>1, <2>2, <2>3, <2>4
<1>2. ASSUME NEW e \in Events, Fire(e)
      PROVE  TypeOK'
  BY <1>2, WebhookAssumption DEF Fire, LoseWrite, TypeOK
<1>3. ASSUME NEW e \in Events, NEW s \in Subs, InsertRow(e, s)
      PROVE  TypeOK'
  <2>1. <<e, s>> \in Delivery
    BY DEF Delivery
  <2>2. row' \in [Delivery -> RowDoc]
    <3>1. [status |-> "pending", attempts |-> 0] \in RowDoc
      BY DEF RowDoc, RowStatus
    <3>2. QED BY <1>3, <2>1, <3>1 DEF InsertRow, TypeOK
  <2>3. due' \in SUBSET Delivery /\ ahead' \in [Delivery -> SUBSET Delivery]
    BY <1>3, <2>1, EnqueueType DEF InsertRow, TypeOK
  <2>4. faults' \in 0..MaxFaults
    BY <1>3, WebhookAssumption DEF InsertRow, LoseWrite, TypeOK
  <2>5. todo' \in [Events -> SUBSET Subs]
    BY <1>3 DEF InsertRow, TypeOK
  <2>6. QED BY <1>3, <2>2, <2>3, <2>4, <2>5 DEF InsertRow, TypeOK
<1>4. ASSUME NEW d \in Delivery, ComesDue(d)
      PROVE  TypeOK'
  BY <1>4, EnqueueType DEF ComesDue, TypeOK
<1>5. ASSUME NEW d \in Delivery, RequestRedelivery(d)
      PROVE  TypeOK'
  BY <1>5 DEF RequestRedelivery, TypeOK
<1>6. ASSUME NEW d \in Delivery, Requeue(d)
      PROVE  TypeOK'
  <2>1. row' \in [Delivery -> RowDoc]
    BY <1>6 DEF Requeue, TypeOK, RowDoc, RowStatus
  <2>2. due' \in SUBSET Delivery /\ ahead' \in [Delivery -> SUBSET Delivery]
    BY <1>6, EnqueueType DEF Requeue, TypeOK
  <2>3. QED BY <1>6, <2>1, <2>2 DEF Requeue, TypeOK
<1>7. ASSUME NEW d \in Delivery, Expire(d)
      PROVE  TypeOK'
  <2>1. row' \in [Delivery -> RowDoc]
    BY <1>7 DEF Expire, TypeOK, RowDoc, RowStatus
  <2>2. due' \in SUBSET Delivery /\ ahead' \in [Delivery -> SUBSET Delivery]
    BY <1>7, DequeueType DEF Expire
  <2>3. QED BY <1>7, <2>1, <2>2 DEF Expire, TypeOK
<1>8. ASSUME NEW w \in Workers, NEW d \in Delivery, Claim(w, d)
      PROVE  TypeOK'
  <2>1. row[d].attempts + 1 \in Nat
    BY DEF TypeOK, RowDoc
  <2>2. row' \in [Delivery -> RowDoc]
    BY <1>8, <2>1 DEF Claim, TypeOK, RowDoc, RowStatus
  <2>3. due' \in SUBSET Delivery /\ ahead' \in [Delivery -> SUBSET Delivery]
    BY <1>8, DequeueType DEF Claim
  <2>4. task' \in [Workers -> Task]
    BY <1>8, <2>1 DEF Claim, TypeOK, Task, Step
  <2>5. faults' \in 0..MaxFaults
    BY <1>8, WebhookAssumption DEF Claim, LoseWrite, TypeOK
  <2>6. QED BY <1>8, <2>2, <2>3, <2>4, <2>5 DEF Claim, TypeOK
<1>9. ASSUME NEW w \in Workers, Attempt(w)
      PROVE  TypeOK'
  BY <1>9, AttemptType
<1>10. CASE Crash
  BY <1>10, WebhookAssumption DEF Crash, TypeOK, Task, Step, Idle
<1>11. CASE UNCHANGED vars
  BY <1>11 DEF vars, TypeOK
<1>12. QED
  BY <1>1, <1>2, <1>3, <1>4, <1>5, <1>6, <1>7, <1>8, <1>9, <1>10, <1>11 DEF Next

-----------------------------------------------------------------------------
(* What a step of a delivery task can do to the queue: leave the row alone,  *)
(* write its verdict, or lose that write.                                    *)

LeavesRow(w) ==
    /\ row' = row
    /\ due' = due
    /\ task'[w].at \in Owing <=> task[w].at \in Owing
    /\ faults' \in {faults, faults + 1}

WritesRow(w, status) ==
    /\ task[w].at \in Owing
    /\ task'[w].at \notin Owing
    /\ SetStatus(task[w].d, status)
    /\ due' = due \ {task[w].d}
    /\ status = "pending" => RetriesLeft(task[w].attempts)
    /\ status = "delivered" => task[w].at = "accepted"
    /\ faults' = faults

LosesRow(w) ==
    /\ task[w].at \in Owing
    /\ task'[w].at \notin Owing
    /\ row' = row
    /\ due' = due
    /\ faults' = faults + 1

QueueEffect(w) ==
    \/ LeavesRow(w)
    \/ \E status \in {"pending", "delivered", "dead"} : WritesRow(w, status)
    \/ LosesRow(w)

TaskEffect(w) ==
    /\ \A v \in Workers \ {w} : task'[v] = task[v]
    /\ \/ task'[w] = Idle
       \/ /\ task'[w].at # "idle"
          /\ task'[w].d = task[w].d
          /\ task'[w].attempts = task[w].attempts
    /\ accepted \subseteq accepted'
    /\ task'[w].at = "accepted" => task[w].d \in accepted'

(* Moving to another step changes nothing else, and no other task. *)
LEMMA AdvanceEffect ==
    ASSUME TypeOK, NEW w \in Workers, NEW step \in Step \ {"idle"}, Advance(w, step)
    PROVE  /\ task'[w].at = step
           /\ task'[w].d = task[w].d
           /\ task'[w].attempts = task[w].attempts
           /\ \A v \in Workers \ {w} : task'[v] = task[v]
BY DEF Advance, TypeOK, Task

(* Ending a task idles its permit and touches no other. *)
LEMMA FinishEffect ==
    ASSUME TypeOK, NEW w \in Workers, Finish(w)
    PROVE  /\ task'[w] = Idle
           /\ task'[w].at = "idle"
           /\ \A v \in Workers \ {w} : task'[v] = task[v]
BY DEF Finish, TypeOK, Idle

(* What a step of attempt does to rows, queue, requests and the receiver. *)
LEMMA AttemptEffect ==
    ASSUME TypeOK, NEW w \in Workers, Attempt(w)
    PROVE  /\ task[w].at # "idle"
           /\ UNCHANGED <<fired, todo, requeues>>
           /\ TaskEffect(w)
           /\ QueueEffect(w)
<1>1. CASE Lookup(w)
  <2>1. task' = [task EXCEPT ![w].at = "post", ![w].secret = sub[SubOf(task[w].d)].secret]
        => task'[w].at = "post" /\ TaskEffect(w)
    BY <1>1 DEF Lookup, TaskEffect, TypeOK, Task
  <2>2. \A step \in {"orphan", "rejected"} :
           Advance(w, step) => task'[w].at = step /\ TaskEffect(w)
    BY <1>1, AdvanceEffect DEF Lookup, TaskEffect, Step
  <2>3. task[w].at = "lookup" /\ task'[w].at \in {"post", "orphan", "rejected"} /\ TaskEffect(w)
    BY <1>1, <2>1, <2>2 DEF Lookup
  <2>4. LeavesRow(w)
    BY <1>1, <2>3 DEF Lookup, LeavesRow, LoseWrite, Owing, Step
  <2>5. QED BY <1>1, <2>3, <2>4 DEF Lookup, QueueEffect
<1>2. CASE Post(w)
  <2>1. \A step \in {"blocked", "accepted", "gone", "rejected"} :
           Advance(w, step) =>
               /\ task'[w].at = step
               /\ (step = "accepted" => task[w].d \in accepted') => TaskEffect(w)
    BY <1>2, AdvanceEffect DEF Post, TaskEffect, Step
  <2>2. task'[w].at \in {"blocked", "accepted", "gone", "rejected"} /\ TaskEffect(w)
    BY <1>2, <2>1 DEF Post
  <2>3. LeavesRow(w)
    BY <1>2, <2>2 DEF Post, LeavesRow, Owing, Step
  <2>4. QED BY <1>2, <2>2, <2>3 DEF Post, QueueEffect
<1>3. CASE MarkDelivered(w)
  <2>1. task[w].at = "accepted" /\ task'[w].at = "recordOk" /\ TaskEffect(w)
    BY <1>3, AdvanceEffect DEF MarkDelivered, TaskEffect, Step
  <2>2. WritesRow(w, "delivered") \/ LosesRow(w)
    BY <1>3, <2>1 DEF MarkDelivered, WriteRow, WritesRow, LosesRow, Dequeue, LoseWrite, Owing, Step
  <2>3. QED BY <1>3, <2>1, <2>2 DEF MarkDelivered, QueueEffect
<1>4. CASE MarkDead(w)
  <2>1. task[w].at \in {"blocked", "gone", "orphan"}
    BY <1>4 DEF MarkDead
  <2>2. task'[w].at \in {"recordError", "deactivate", "idle"} /\ TaskEffect(w)
    BY <1>4, AdvanceEffect, FinishEffect DEF MarkDead, TaskEffect, Step
  <2>3. WritesRow(w, "dead") \/ LosesRow(w)
    BY <1>4, <2>1, <2>2 DEF MarkDead, WriteRow, WritesRow, LosesRow, Dequeue, LoseWrite, Owing, Step
  <2>4. QED BY <1>4, <2>1, <2>2, <2>3 DEF MarkDead, QueueEffect
<1>5. CASE RecordOutcome(w)
  <2>1. \/ task[w].at \in {"recordOk", "recordError"} /\ task'[w].at = "idle" /\ TaskEffect(w)
        \/ task[w].at = "rejected" /\ task'[w].at = "settle" /\ TaskEffect(w)
    BY ZenonT(40), <1>5, AdvanceEffect, FinishEffect DEF RecordOutcome, TaskEffect, Step
  <2>2. faults' \in {faults, faults + 1}
    BY <1>5 DEF RecordOutcome, RecordDelivery, WriteSub, LoseWrite
  <2>3. LeavesRow(w)
    BY <1>5, <2>1, <2>2 DEF RecordOutcome, LeavesRow, Owing, Step
  <2>4. QED BY <1>5, <2>1, <2>3 DEF RecordOutcome, QueueEffect
<1>6. CASE Deactivate(w)
  <2>1. task[w].at = "deactivate" /\ task'[w].at = "idle" /\ TaskEffect(w)
    BY <1>6, FinishEffect DEF Deactivate, TaskEffect
  <2>2. LeavesRow(w)
    BY <1>6, <2>1 DEF Deactivate, WriteSub, LoseWrite, LeavesRow, Owing, Step
  <2>3. QED BY <1>6, <2>1, <2>2 DEF Deactivate, QueueEffect
<1>7. CASE RetryOrDie(w)
  <2>1. task[w].at = "settle" /\ task'[w].at = "idle" /\ TaskEffect(w)
    BY <1>7, FinishEffect DEF RetryOrDie, TaskEffect
  <2>2. \/ WritesRow(w, "pending")
        \/ WritesRow(w, "dead")
        \/ LosesRow(w)
    BY <1>7, <2>1 DEF RetryOrDie, WriteRow, WritesRow, LosesRow, Dequeue, LoseWrite, Owing, Step
  <2>3. QED BY <1>7, <2>1, <2>2 DEF RetryOrDie, QueueEffect
<1>8. QED
  BY <1>1, <1>2, <1>3, <1>4, <1>5, <1>6, <1>7 DEF Attempt

-----------------------------------------------------------------------------
(* The inductive invariant, part by part. *)

(* Every step either leaves the queue, the tasks and the dispatches as they  *)
(* are or is one of the actions the invariant is about.                      *)
LEMMA StepCases ==
    ASSUME [Next]_vars
    PROVE  \/ UNCHANGED <<fired, todo, row, due, task, accepted, faults>>
           \/ \E e \in Events : Fire(e)
           \/ \E e \in Events, s \in Subs : InsertRow(e, s)
           \/ \E d \in Delivery : ComesDue(d) \/ Requeue(d) \/ Expire(d)
           \/ \E w \in Workers, d \in Delivery : Claim(w, d)
           \/ \E w \in Workers : Attempt(w)
           \/ Crash
<1>1. ASSUME NEW s \in Subs, CreateSub(s) \/ DeleteSub(s) \/ RotateSecret(s)
      PROVE  UNCHANGED <<fired, todo, row, due, task, accepted, faults>>
  BY <1>1 DEF CreateSub, DeleteSub, RotateSecret
<1>2. ASSUME NEW d \in Delivery, RequestRedelivery(d)
      PROVE  UNCHANGED <<fired, todo, row, due, task, accepted, faults>>
  BY <1>2 DEF RequestRedelivery
<1>3. QED BY <1>1, <1>2 DEF Next, vars

(* Only a claim gives a permit a delivery, and only its end takes it away. *)
LEMMA HoldsStep ==
    ASSUME TypeOK, HoldsInv, [Next]_vars
    PROVE  HoldsInv'
<1>1. CASE UNCHANGED task
  BY <1>1 DEF HoldsInv
<1>2. ASSUME NEW w \in Workers, NEW d \in Delivery, Claim(w, d)
      PROVE  HoldsInv'
  BY <1>2 DEF Claim, HoldsInv, TypeOK
<1>3. ASSUME NEW w \in Workers, Attempt(w)
      PROVE  HoldsInv'
  BY <1>3, AttemptEffect DEF TaskEffect, HoldsInv, Idle
<1>4. CASE Crash
  BY <1>4 DEF Crash, HoldsInv, Idle
<1>5. QED
  BY <1>1, <1>2, <1>3, <1>4, StepCases DEF Fire, InsertRow, ComesDue, Requeue, Expire

(* A written verdict reaches a row that is still there, and only its status. *)
LEMMA VerdictEffect ==
    ASSUME TypeOK, NEW w \in Workers, task[w].d \in Delivery,
           NEW status \in {"pending", "delivered", "dead"}, WritesRow(w, status)
    PROVE  /\ \A d \in Delivery \ {task[w].d} : row'[d] = row[d]
           /\ row'[task[w].d].attempts = row[task[w].d].attempts
           /\ IF Stored(task[w].d)
              THEN row'[task[w].d].status = status
              ELSE row'[task[w].d].status = row[task[w].d].status
BY DEF WritesRow, SetStatus, TypeOK, RowDoc

(* A row is absent until its event was dispatched, and dispatched once. *)
LEMMA DispatchStep ==
    ASSUME TypeOK, HoldsInv, DispatchInv, DueInv, [Next]_vars
    PROVE  DispatchInv'
<1>1. CASE UNCHANGED <<fired, todo, row>>
  BY <1>1 DEF DispatchInv
<1>2. ASSUME NEW e \in Events, Fire(e)
      PROVE  DispatchInv'
  BY <1>2 DEF Fire, DispatchInv, TypeOK
<1>3. ASSUME NEW e \in Events, NEW s \in Subs, InsertRow(e, s)
      PROVE  DispatchInv'
  <2>1. \A f \in Events, t \in Subs : t \in todo'[f] => t \in todo[f] /\ <<f, t>> # <<e, s>>
    BY <1>3 DEF InsertRow, TypeOK
  <2>2. \A d \in Delivery : d # <<e, s>> => row'[d] = row[d]
    BY <1>3 DEF InsertRow, TypeOK
  <2>3. s \in todo[e] /\ e \in fired /\ fired' = fired
    BY <1>3 DEF InsertRow, DispatchInv
  <2>4. \A f \in Events, t \in Subs : <<f, t>> \in Delivery
    BY DEF Delivery
  <2>5. QED BY <2>1, <2>2, <2>3, <2>4 DEF DispatchInv
<1>4. ASSUME NEW d \in Delivery, row[d].status # "absent",
             \A x \in Delivery \ {d} : row'[x] = row[x],
             UNCHANGED fired, \A e \in Events : todo'[e] \subseteq todo[e]
      PROVE  DispatchInv'
  <2>1. \A e \in Events, s \in Subs : <<e, s>> \in Delivery
    BY DEF Delivery
  <2>2. QED BY <1>4, <2>1 DEF DispatchInv
<1>5. ASSUME NEW d \in Delivery, Requeue(d) \/ Expire(d)
      PROVE  DispatchInv'
  <2>1. CASE row' = row
    BY <1>1, <1>5, <2>1 DEF Requeue, Expire
  <2>2. CASE row' # row
    <3>1. row[d].status # "absent" /\ UNCHANGED <<fired, todo>>
      BY <1>5, <2>2 DEF Requeue, Expire, Stored
    <3>2. \A x \in Delivery \ {d} : row'[x] = row[x]
      BY <1>5, <2>2 DEF Requeue, Expire, TypeOK
    <3>3. QED BY <1>4, <3>1, <3>2
  <2>3. QED BY <2>1, <2>2
<1>6. ASSUME NEW w \in Workers, NEW d \in Delivery, Claim(w, d)
      PROVE  DispatchInv'
  <2>1. row[d].status # "absent"
    BY <1>6 DEF Claim, DueInv, Claimable
  <2>2. \A x \in Delivery \ {d} : row'[x] = row[x]
    BY <1>6 DEF Claim, TypeOK
  <2>3. UNCHANGED <<fired, todo>>
    BY <1>6 DEF Claim
  <2>4. QED BY <1>4, <2>1, <2>2, <2>3
<1>7. ASSUME NEW w \in Workers, Attempt(w)
      PROVE  DispatchInv'
  <2>1. UNCHANGED <<fired, todo>> /\ task[w].d \in Delivery /\ QueueEffect(w)
    BY <1>7, AttemptEffect DEF HoldsInv
  <2>2. CASE row' = row
    BY <1>1, <2>1, <2>2
  <2>3. ASSUME NEW status \in {"pending", "delivered", "dead"}, WritesRow(w, status)
        PROVE  DispatchInv'
    <3>1. CASE Stored(task[w].d)
      BY <1>4, <2>1, <2>3, <3>1, VerdictEffect DEF Stored
    <3>2. CASE ~Stored(task[w].d)
      BY <1>1, <2>1, <2>3, <3>2 DEF WritesRow, SetStatus
    <3>3. QED BY <3>1, <3>2
  <2>4. QED BY <2>1, <2>2, <2>3 DEF QueueEffect, LeavesRow, LosesRow
<1>8. CASE Crash
  BY <1>8 DEF Crash, DispatchInv
<1>9. QED
  BY <1>1, <1>2, <1>3, <1>5, <1>6, <1>7, <1>8, StepCases DEF ComesDue

(* Rows that are due wait to be claimed, and are claimable. *)
LEMMA DueStep ==
    ASSUME TypeOK, HoldsInv, DispatchInv, DueInv, [Next]_vars
    PROVE  DueInv'
<1>1. CASE UNCHANGED <<row, due>>
  BY <1>1 DEF DueInv
<1>2. ASSUME NEW e \in Events, NEW s \in Subs, InsertRow(e, s)
      PROVE  DueInv'
  <2>1. <<e, s>> \in Delivery
    BY DEF Delivery
  <2>2. CASE row' = [row EXCEPT ![<<e, s>>] = [status |-> "pending", attempts |-> 0]]
             /\ Enqueue(<<e, s>>)
    BY <2>1, <2>2 DEF Enqueue, DueInv, TypeOK, Claimable
  <2>3. QED BY <1>1, <1>2, <2>2 DEF InsertRow
<1>3. ASSUME NEW d \in Delivery, ComesDue(d)
      PROVE  DueInv'
  BY <1>3 DEF ComesDue, Enqueue, DueInv
<1>4. ASSUME NEW d \in Delivery, Requeue(d)
      PROVE  DueInv'
  BY <1>4 DEF Requeue, Enqueue, DueInv, TypeOK, Claimable
<1>5. ASSUME NEW d \in Delivery, Expire(d)
      PROVE  DueInv'
  BY <1>5 DEF Expire, Dequeue, DueInv, TypeOK
<1>6. ASSUME NEW w \in Workers, NEW d \in Delivery, Claim(w, d)
      PROVE  DueInv'
  BY <1>6 DEF Claim, Dequeue, DueInv, TypeOK
<1>7. ASSUME NEW w \in Workers, Attempt(w)
      PROVE  DueInv'
  <2>1. task[w].d \in Delivery /\ QueueEffect(w)
    BY <1>7, AttemptEffect DEF HoldsInv
  <2>2. ASSUME NEW status \in {"pending", "delivered", "dead"}, WritesRow(w, status)
        PROVE  DueInv'
    BY <2>1, <2>2, VerdictEffect DEF WritesRow, DueInv, TypeOK
  <2>3. QED BY <1>1, <2>1, <2>2 DEF QueueEffect, LeavesRow, LosesRow
<1>8. QED
  BY <1>1, <1>2, <1>3, <1>4, <1>5, <1>6, <1>7, StepCases DEF Fire, Crash

(* A task that moves on owes its row no more than it did before. *)
LEMMA OwesEffect ==
    ASSUME TypeOK, NEW w \in Workers, Attempt(w)
    PROVE  /\ \A v \in Workers, d \in Delivery : Owes(v, d)' => Owes(v, d)
           /\ \A v \in Workers : task'[v].at \in Owing => task'[v].attempts = task[v].attempts
           /\ \A v \in Workers, d \in Delivery : v # w => (Owes(v, d)' <=> Owes(v, d))
<1>1. TaskEffect(w) /\ QueueEffect(w)
  BY AttemptEffect
<1>2. "idle" \notin Owing
  BY DEF Owing
<1>3. task'[w].at \in Owing => /\ task[w].at \in Owing
                              /\ task'[w].d = task[w].d
                              /\ task'[w].attempts = task[w].attempts
  BY <1>1, <1>2 DEF TaskEffect, Idle, QueueEffect, LeavesRow, WritesRow, LosesRow
<1>4. QED BY <1>1, <1>3 DEF TaskEffect, Owes

(* While leases hold, a row a task still owes a write to is not claimable.   *)
LEMMA LeaseStep ==
    ASSUME TypeOK, HoldsInv, DispatchInv, DueInv, LeaseInv, LeaseHolds, [Next]_vars
    PROVE  LeaseInv'
<1>. DEFINE Leased(w, d) ==
         /\ \A v \in Workers : Owes(v, d) => v = w
         /\ row[d].status \in {"in_flight", "expired"}
         /\ row[d].attempts = task[w].attempts
         /\ d \notin due
<1>0. \A w \in Workers, d \in Delivery : Owes(w, d) => Leased(w, d)
  BY DEF LeaseInv
<1>. SUFFICES ASSUME NEW w \in Workers, NEW d \in Delivery, Owes(w, d)'
              PROVE  Leased(w, d)'
  BY DEF LeaseInv
<1>. HIDE DEF Leased
<1>1. CASE UNCHANGED <<row, due, task>>
  BY <1>0, <1>1 DEF Leased, Owes
<1>2. ASSUME NEW e \in Events, NEW s \in Subs, InsertRow(e, s)
      PROVE  Leased(w, d)'
  <2>1. row[<<e, s>>].status = "absent"
    BY <1>2 DEF InsertRow, DispatchInv
  <2>2. Owes(w, d) /\ d # <<e, s>> /\ task' = task
    BY <1>0, <1>2, <2>1 DEF InsertRow, Owes, Leased
  <2>3. row'[d] = row[d] /\ due' \subseteq due \cup {<<e, s>>}
    BY <1>2, <2>2 DEF InsertRow, Enqueue, TypeOK
  <2>4. QED BY <1>0, <2>2, <2>3 DEF Leased, Owes
<1>3. ASSUME NEW x \in Delivery, ComesDue(x)
      PROVE  Leased(w, d)'
  <2>1. Owes(w, d) /\ d # x /\ UNCHANGED <<row, task>> /\ due' = due \cup {x}
    BY <1>3 DEF ComesDue, Enqueue, Owes
  <2>2. QED BY <1>0, <2>1 DEF Leased, Owes
<1>4. ASSUME NEW x \in Delivery, Requeue(x)
      PROVE  Leased(w, d)'
  <2>1. Owes(w, d) /\ task' = task
    BY <1>4 DEF Requeue, Owes
  <2>2. CASE row[x].status \in {"delivered", "dead"}
    <3>1. d # x
      BY <1>0, <2>1, <2>2 DEF Leased
    <3>2. row'[d] = row[d] /\ due' = due \cup {x}
      BY <1>4, <2>2, <3>1 DEF Requeue, Enqueue, TypeOK
    <3>3. QED BY <1>0, <2>1, <3>1, <3>2 DEF Leased, Owes
  <2>3. QED BY <1>1, <1>4, <2>1, <2>2 DEF Requeue
<1>5. ASSUME NEW x \in Delivery, Expire(x)
      PROVE  Leased(w, d)'
  <2>1. Owes(w, d) /\ task' = task /\ due' = due \ {x}
    BY <1>5 DEF Expire, Dequeue, Owes
  <2>2. /\ row'[d].attempts = row[d].attempts
        /\ row'[d].status \in {row[d].status, "expired"}
    BY <1>5 DEF Expire, TypeOK, RowDoc
  <2>3. QED BY <1>0, <2>1, <2>2 DEF Leased, Owes
<1>6. ASSUME NEW u \in Workers, NEW x \in Delivery, Claim(u, x)
      PROVE  Leased(w, d)'
  <2>1. /\ \A v \in Workers : ~Owes(v, x)
        /\ \A y \in Delivery : ~Owes(u, y)
    BY <1>0, <1>6 DEF Claim, Leased, Owes, Owing
  <2>2. \A y \in Delivery : y # x => row'[y] = row[y]
    BY <1>6 DEF Claim, TypeOK
  <2>3. due' = due \ {x} /\ x \in due
    BY <1>6 DEF Claim, Dequeue
  <2>4. CASE UNCHANGED task
    <3>1. Owes(w, d) /\ d # x
      BY <2>1, <2>4 DEF Owes
    <3>2. QED BY <1>0, <2>2, <2>3, <2>4, <3>1 DEF Leased, Owes
  <2>5. CASE task' = [task EXCEPT ![u] = [at |-> "lookup", d |-> x,
                                          attempts |-> row[x].attempts + 1, secret |-> 0]]
    <3>1. /\ \A v \in Workers : v # u => task'[v] = task[v]
          /\ task'[u].d = x /\ task'[u].attempts = row[x].attempts + 1
      BY <2>5 DEF TypeOK
    <3>2. row'[x].status = "in_flight" /\ row'[x].attempts = row[x].attempts + 1
      BY <1>6 DEF Claim, TypeOK
    <3>3. CASE w = u
      <4>1. d = x
        BY <3>1, <3>3 DEF Owes
      <4>2. QED BY <2>1, <2>3, <3>1, <3>2, <3>3, <4>1 DEF Leased, Owes
    <3>4. CASE w # u
      <4>1. Owes(w, d) /\ d # x
        BY <2>1, <3>1, <3>4 DEF Owes
      <4>2. QED BY <1>0, <2>2, <2>3, <3>1, <3>4, <4>1 DEF Leased, Owes
    <3>5. QED BY <3>3, <3>4
  <2>6. QED BY <1>6, <2>4, <2>5 DEF Claim
<1>7. ASSUME NEW u \in Workers, Attempt(u)
      PROVE  Leased(w, d)'
  <2>1. task[u].d \in Delivery /\ QueueEffect(u)
    BY <1>7, AttemptEffect DEF HoldsInv
  <2>2. Owes(w, d) /\ (\A v \in Workers : Owes(v, d)' => Owes(v, d))
        /\ task'[w].attempts = task[w].attempts
    BY <1>7, OwesEffect DEF Owes
  <2>3. CASE UNCHANGED <<row, due>>
    BY <1>0, <2>2, <2>3 DEF Leased
  <2>4. ASSUME NEW status \in {"pending", "delivered", "dead"}, WritesRow(u, status)
        PROVE  Leased(w, d)'
    <3>1. Owes(u, task[u].d) /\ ~Owes(u, d)'
      BY <2>4 DEF WritesRow, Owes
    <3>2. w # u
      BY <3>1
    <3>3. d # task[u].d
      BY <1>0, <2>1, <2>2, <3>1, <3>2 DEF Leased
    <3>4. row'[d] = row[d] /\ due' \subseteq due
      BY <2>1, <2>4, <3>3, VerdictEffect DEF WritesRow
    <3>5. QED BY <1>0, <2>2, <3>4 DEF Leased
  <2>5. QED BY <2>1, <2>3, <2>4 DEF QueueEffect, LeavesRow, LosesRow
<1>8. CASE Crash
  BY <1>8 DEF Crash, Owes, Owing, Idle
<1>9. QED
  BY <1>1, <1>2, <1>3, <1>4, <1>5, <1>6, <1>7, <1>8, StepCases DEF Fire

(* The verdict a task writes is judged by the attempts of the row itself, so *)
(* a row sent back to wait is one the table still has a delay for.           *)
LEMMA BoundStep ==
    ASSUME TypeOK, TypeOK', HoldsInv, DueInv, LeaseInv, BoundInv, LeaseHolds, [Next]_vars
    PROVE  BoundInv'
<1>. DEFINE Owned(d) == \E w \in Workers : Owes(w, d)
            Bounded(d) ==
                /\ row[d].attempts <= BackoffLen + 1 + faults
                /\ row[d].status = "pending" => row[d].attempts <= BackoffLen
                /\ row[d].status = "in_flight" /\ ~Owned(d) =>
                       row[d].attempts <= BackoffLen + faults
<1>0. \A d \in Delivery : Bounded(d)
  BY DEF BoundInv
<1>. SUFFICES ASSUME NEW d \in Delivery
              PROVE  Bounded(d)'
  BY DEF BoundInv
<1>n. BackoffLen \in Nat /\ faults \in Nat /\ faults' \in Nat
      /\ row[d].attempts \in Nat /\ row'[d].attempts \in Nat
  BY WebhookAssumption DEF TypeOK, RowDoc
<1>1. ASSUME row'[d] = row[d], Owned(d)' <=> Owned(d), faults' \in {faults, faults + 1}
      PROVE  Bounded(d)'
  <2>. HIDE DEF Owned
  <2>. QED BY <1>0, <1>1, <1>n
<1>2. ASSUME row'[d] = row[d], faults' = faults + 1
      PROVE  Bounded(d)'
  <2>. HIDE DEF Owned
  <2>. QED BY <1>0, <1>2, <1>n
<1>3. ASSUME row'[d].attempts = 0
      PROVE  Bounded(d)'
  <2>. HIDE DEF Owned
  <2>1. 0 <= BackoffLen /\ 0 <= BackoffLen + 1 + faults' /\ 0 <= BackoffLen + faults'
    BY <1>n
  <2>2. QED BY <1>3, <2>1
<1>4. ASSUME row'[d].status \notin {"pending", "in_flight"}, faults' = faults,
             row'[d].attempts = row[d].attempts
      PROVE  Bounded(d)'
  <2>. HIDE DEF Owned
  <2>. QED BY <1>0, <1>4, <1>n
<1>. HIDE DEF Bounded
<1>5. CASE UNCHANGED <<row, task, faults>>
  BY <1>1, <1>5 DEF Owes
<1>6. ASSUME NEW e \in Events, Fire(e)
      PROVE  Bounded(d)'
  BY <1>1, <1>6 DEF Fire, LoseWrite, Owes
<1>7. ASSUME NEW e \in Events, NEW s \in Subs, InsertRow(e, s)
      PROVE  Bounded(d)'
  <2>1. (Owned(d)' <=> Owned(d)) /\ faults' \in {faults, faults + 1}
    BY <1>7 DEF InsertRow, LoseWrite, Owes
  <2>2. row'[d] = row[d] \/ row'[d].attempts = 0
    BY <1>7 DEF InsertRow, TypeOK
  <2>3. QED BY <1>1, <1>3, <2>1, <2>2
<1>8. ASSUME NEW x \in Delivery, Requeue(x)
      PROVE  Bounded(d)'
  <2>1. (Owned(d)' <=> Owned(d)) /\ faults' = faults
    BY <1>8 DEF Requeue, Owes
  <2>2. row'[d] = row[d] \/ row'[d].attempts = 0
    BY <1>8 DEF Requeue, TypeOK
  <2>3. QED BY <1>1, <1>3, <2>1, <2>2
<1>9. ASSUME NEW x \in Delivery, Expire(x)
      PROVE  Bounded(d)'
  <2>1. (Owned(d)' <=> Owned(d)) /\ faults' = faults
    BY <1>9 DEF Expire, Owes
  <2>2. \/ row'[d] = row[d]
        \/ row'[d].status = "expired" /\ row'[d].attempts = row[d].attempts
    BY <1>9 DEF Expire, TypeOK, RowDoc
  <2>3. QED BY <1>1, <1>4, <2>1, <2>2
<1>10. ASSUME NEW w \in Workers, NEW x \in Delivery, Claim(w, x)
       PROVE  Bounded(d)'
  <2>1. x \in due /\ task[w].at = "idle" /\ faults' \in {faults, faults + 1}
    BY <1>10 DEF Claim, LoseWrite
  <2>2. ~Owned(x) /\ \A y \in Delivery : ~Owes(w, y)
    BY <2>1 DEF LeaseInv, Owes, Owing
  <2>3. \A v \in Workers \ {w} : task'[v] = task[v]
    BY <1>10 DEF Claim, TypeOK
  <2>4. CASE d # x
    <3>1. row'[d] = row[d]
      BY <1>10, <2>4 DEF Claim, TypeOK
    <3>2. ~Owes(w, d)'
      BY <1>10, <2>1, <2>4 DEF Claim, LoseWrite, TypeOK, Owes, Owing
    <3>3. Owned(d)' <=> Owned(d)
      BY <2>2, <2>3, <3>2 DEF Owes
    <3>4. QED BY <1>1, <2>1, <3>1, <3>3
  <2>5. CASE d = x
    <3>1. row'[d].status = "in_flight" /\ row'[d].attempts = row[d].attempts + 1
      BY <1>10, <2>5 DEF Claim, TypeOK
    <3>2. row[d].status \in {"pending", "in_flight"}
      BY <2>1, <2>5 DEF DueInv, Claimable
    <3>3. row[d].attempts <= BackoffLen + faults
      BY <1>0, <1>n, <2>2, <2>5, <3>2 DEF Bounded
    <3>4. CASE faults' = faults + 1
      BY <1>n, <3>1, <3>3, <3>4 DEF Bounded
    <3>5. CASE faults' = faults /\ Owned(d)'
      BY <1>n, <3>1, <3>3, <3>5 DEF Bounded
    <3>6. faults' = faults + 1 \/ (faults' = faults /\ Owes(w, d)')
      BY <1>10, <2>5 DEF Claim, LoseWrite, TypeOK, Owes, Owing, Step
    <3>7. QED BY <3>4, <3>5, <3>6
  <2>6. QED BY <2>4, <2>5
<1>11. ASSUME NEW w \in Workers, Attempt(w)
       PROVE  Bounded(d)'
  <2>1. task[w].d \in Delivery /\ QueueEffect(w) /\ TaskEffect(w)
    BY <1>11, AttemptEffect DEF HoldsInv
  <2>2. CASE LeavesRow(w)
    <3>1. Owes(w, d)' <=> Owes(w, d)
      BY <2>1, <2>2 DEF LeavesRow, TaskEffect, Owes, Idle, Owing
    <3>2. Owned(d)' <=> Owned(d)
      BY <1>11, <3>1, OwesEffect
    <3>3. QED BY <1>1, <2>2, <3>2 DEF LeavesRow
  <2>3. CASE LosesRow(w)
    BY <1>2, <2>3 DEF LosesRow
  <2>4. ASSUME NEW status \in {"pending", "delivered", "dead"}, WritesRow(w, status)
        PROVE  Bounded(d)'
    <3>1. Owes(w, task[w].d) /\ faults' = faults
      BY <2>4 DEF WritesRow, Owes
    <3>2. CASE d # task[w].d
      <4>1. row'[d] = row[d]
        BY <2>1, <2>4, <3>2, VerdictEffect
      <4>2. ~Owes(w, d) /\ ~Owes(w, d)'
        BY <2>4, <3>2 DEF WritesRow, Owes
      <4>3. Owned(d)' <=> Owned(d)
        BY <1>11, <4>2, OwesEffect
      <4>4. QED BY <1>1, <3>1, <4>1, <4>3
    <3>3. CASE d = task[w].d
      <4>1. row[d].attempts = task[w].attempts /\ row[d].status \in {"in_flight", "expired"}
        BY <3>1, <3>3 DEF LeaseInv
      <4>2. row'[d].attempts = row[d].attempts
        BY <2>1, <2>4, <3>3, VerdictEffect
      <4>3. row'[d].status \in {status, "expired"}
        BY <2>1, <2>4, <3>3, <4>1, VerdictEffect DEF Stored
      <4>4. CASE row'[d].status = "pending"
        <5>1. row[d].attempts <= BackoffLen
          BY <1>n, <2>4, <4>1, <4>3, <4>4 DEF WritesRow, RetriesLeft
        <5>2. QED BY <1>n, <3>1, <4>2, <4>4, <5>1 DEF Bounded
      <4>5. QED BY <1>4, <3>1, <4>2, <4>3, <4>4
    <3>4. QED BY <3>2, <3>3
  <2>5. QED BY <2>1, <2>2, <2>3, <2>4 DEF QueueEffect
<1>12. CASE Crash
  BY <1>2, <1>12 DEF Crash
<1>13. ASSUME NEW x \in Delivery, ComesDue(x)
       PROVE  Bounded(d)'
  BY <1>5, <1>13 DEF ComesDue
<1>14. QED
  BY <1>5, <1>6, <1>7, <1>8, <1>9, <1>10, <1>11, <1>12, <1>13, StepCases

(* The receiver's answer is not forgotten while a task still has to write it *)
(* down: a requeue needs a finished row, and the task's row is not.          *)
LEMMA AcceptStep ==
    ASSUME TypeOK, HoldsInv, LeaseInv, AcceptInv, LeaseHolds, [Next]_vars
    PROVE  AcceptInv'
<1>0. \A w \in Workers : task[w].at = "accepted" => task[w].d \in accepted
  BY DEF AcceptInv
<1>. SUFFICES ASSUME NEW w \in Workers, task'[w].at = "accepted"
              PROVE  task'[w].d \in accepted'
  BY DEF AcceptInv
<1>1. CASE UNCHANGED <<task, accepted>>
  BY <1>0, <1>1
<1>2. ASSUME NEW d \in Delivery, Requeue(d)
      PROVE  task'[w].d \in accepted'
  <2>1. Owes(w, task[w].d) /\ task[w].d \in Delivery /\ task' = task
    BY <1>2 DEF Requeue, HoldsInv, Owes, Owing, Step
  <2>2. CASE row[d].status \in {"delivered", "dead"}
    BY <1>0, <1>2, <2>1, <2>2 DEF Requeue, LeaseInv
  <2>3. QED BY <1>1, <1>2, <2>2 DEF Requeue
<1>3. ASSUME NEW u \in Workers, NEW d \in Delivery, Claim(u, d)
      PROVE  task'[w].d \in accepted'
  <2>1. task'[w] = task[w] /\ accepted' = accepted
    BY <1>3 DEF Claim, TypeOK
  <2>2. QED BY <1>0, <2>1
<1>4. ASSUME NEW u \in Workers, Attempt(u)
      PROVE  task'[w].d \in accepted'
  BY <1>0, <1>4, AttemptEffect DEF TaskEffect, Idle
<1>5. CASE Crash
  BY <1>5 DEF Crash, Idle
<1>6. QED
  BY <1>1, <1>2, <1>3, <1>4, <1>5, StepCases DEF Fire, InsertRow, ComesDue, Expire

(* The queue starts empty and every permit free. *)
LEMMA IInit == Init => IInv
<1>. SUFFICES ASSUME Init PROVE IInv
  OBVIOUS
<1>1. TypeOK
  <2>1. sub \in [Subs -> SubDoc]
    <3>1. /\ [state |-> "absent", secret |-> 0, failing |-> FALSE] \in SubDoc
          /\ [state |-> "active", secret |-> 0, failing |-> FALSE] \in SubDoc
      BY DEF SubDoc, SubState
    <3>2. QED BY <3>1 DEF Init
  <2>2. row \in [Delivery -> RowDoc] /\ task \in [Workers -> Task]
    BY DEF Init, RowDoc, RowStatus, Task, Step, Idle
  <2>3. faults \in 0..MaxFaults
    BY WebhookAssumption DEF Init
  <2>4. QED BY <2>1, <2>2, <2>3 DEF Init, TypeOK
<1>2. HoldsInv /\ AcceptInv /\ LeaseInv
  BY DEF Init, HoldsInv, AcceptInv, LeaseInv, Owes, Owing, Idle
<1>3. DispatchInv
  BY DEF Init, DispatchInv, Delivery
<1>4. DueInv
  BY DEF Init, DueInv
<1>5. BoundInv
  BY WebhookAssumption DEF Init, BoundInv
<1>6. QED BY <1>1, <1>2, <1>3, <1>4, <1>5 DEF IInv

(* Every step keeps the whole invariant, lemma by lemma. *)
LEMMA IStep == IInv /\ [Next]_vars => IInv'
<1>. SUFFICES ASSUME IInv, [Next]_vars PROVE IInv'
  OBVIOUS
<1>1. TypeOK' /\ HoldsInv' /\ DispatchInv' /\ DueInv'
  BY TypeStep, HoldsStep, DispatchStep, DueStep DEF IInv
<1>2. LeaseInv' /\ BoundInv' /\ AcceptInv'
  <2>1. CASE LeaseHolds
    BY <1>1, <2>1, LeaseStep, BoundStep, AcceptStep DEF IInv
  <2>2. CASE ~LeaseHolds
    BY <2>2 DEF LeaseInv, BoundInv, AcceptInv
  <2>3. QED BY <2>1, <2>2
<1>3. QED BY <1>1, <1>2 DEF IInv

(* IInv holds in every state the queue can reach, from its three facts:      *)
(* claim_due leases, updates by _id and dispatch keep it.                    *)
THEOREM Invariance == Spec => []IInv
<1>1. Init => IInv
  BY IInit
<1>2. IInv /\ [Next]_vars => IInv'
  BY IStep
<1>3. QED BY <1>1, <1>2, PTL DEF Spec

(* Documents, queue and delivery tasks always have their types: no update of *)
(* the repositories writes a status or a count outside of them.              *)
THEOREM TypeCorrect == Spec => []TypeOK
<1>1. IInv => TypeOK
  BY DEF IInv
<1>2. QED BY <1>1, Invariance, PTL

(* While leases hold, two workers never have the same row: whatever dispatch,*)
(* redelivery, expiry, crashes and lost writes do, the task that claimed it  *)
(* through claim_due is the only one with a write to it ahead.               *)
THEOREM OneWriterHolds == Spec => []OneWriter
<1>1. IInv => OneWriter
  BY DEF IInv, LeaseInv, OneWriter
<1>2. QED BY <1>1, Invariance, PTL

(* While leases hold, a row is attempted once more than BACKOFF_SECONDS has  *)
(* entries, and once for each crash or lost write.                           *)
THEOREM AttemptsBoundedHolds == Spec => []AttemptsBounded
<1>1. IInv => AttemptsBounded
  BY DEF IInv, BoundInv, AttemptsBounded
<1>2. QED BY <1>1, Invariance, PTL

-----------------------------------------------------------------------------
(* The queue implements its contract while leases hold. *)

(* An empty queue shows an empty log. *)
LEMMA ContractInit == Init => Contract!Init
BY DEF Init, Contract!Init, view, Claimable

(* A step that keeps every row's claimability and verdict is not seen. *)
LEMMA ViewUnchanged ==
    ASSUME \A d \in Delivery :
               \/ row'[d].status = row[d].status
               \/ row[d].status \in Claimable /\ row'[d].status \in Claimable
    PROVE  view' = view
BY DEF view

(* A step that changes the status of one row is seen there only. *)
LEMMA ViewChanged ==
    ASSUME NEW d \in Delivery,
           \A x \in Delivery \ {d} : row'[x] = row[x]
    PROVE  view' = [view EXCEPT ![d] = IF row'[d].status \in Claimable
                                       THEN "open" ELSE row'[d].status]
BY DEF view

(* What the log shows of one row. *)
LEMMA ViewOf ==
    ASSUME NEW d \in Delivery
    PROVE  view[d] = IF row[d].status \in Claimable THEN "open" ELSE row[d].status
BY DEF view

(* Every step of the queue is a step of the contract or is not seen in the log. *)
LEMMA ContractStep ==
    ASSUME IInv, LeaseHolds, [Next]_vars
    PROVE  [Contract!Next]_(Contract!vars)
<1>. USE DEF Claimable
<1>t. TypeOK /\ HoldsInv /\ DispatchInv /\ DueInv /\ LeaseInv /\ AcceptInv
  BY DEF IInv
<1>1. CASE view' = view /\ accepted' = accepted
  BY <1>1 DEF Contract!vars
<1>2. CASE UNCHANGED <<row, accepted>>
  BY <1>1, <1>2, ViewUnchanged
<1>3. ASSUME NEW e \in Events, NEW s \in Subs, InsertRow(e, s)
      PROVE  [Contract!Next]_(Contract!vars)
  <2>1. CASE row' = row
    BY <1>2, <1>3, <2>1 DEF InsertRow
  <2>2. CASE row' # row
    <3>1. <<e, s>> \in Delivery /\ row[<<e, s>>].status = "absent"
      BY <1>t, <1>3 DEF InsertRow, DispatchInv, Delivery
    <3>2. /\ row'[<<e, s>>].status = "pending"
          /\ \A x \in Delivery \ {<<e, s>>} : row'[x] = row[x]
      BY <1>t, <1>3, <2>2, <3>1 DEF InsertRow, TypeOK
    <3>3. view[<<e, s>>] = "absent" /\ view' = [view EXCEPT ![<<e, s>>] = "open"]
      BY <3>1, <3>2, ViewOf, ViewChanged
    <3>4. Contract!Queue(<<e, s>>)
      BY <1>3, <3>3 DEF InsertRow, Contract!Queue
    <3>5. QED BY <3>1, <3>4 DEF Contract!Next
  <2>3. QED BY <2>1, <2>2
<1>4. ASSUME NEW d \in Delivery, Requeue(d)
      PROVE  [Contract!Next]_(Contract!vars)
  <2>1. CASE row[d].status \in {"delivered", "dead"}
    <3>1. row'[d].status = "pending" /\ \A x \in Delivery \ {d} : row'[x] = row[x]
      BY <1>t, <1>4, <2>1 DEF Requeue, TypeOK
    <3>2. view[d] \in {"delivered", "dead"} /\ view' = [view EXCEPT ![d] = "open"]
      BY <2>1, <3>1, ViewOf, ViewChanged
    <3>3. Contract!Redeliver(d)
      BY <1>4, <2>1, <3>2 DEF Requeue, Contract!Redeliver
    <3>4. QED BY <3>3 DEF Contract!Next
  <2>2. QED BY <1>2, <1>4, <2>1 DEF Requeue
<1>5. ASSUME NEW d \in Delivery, Expire(d)
      PROVE  [Contract!Next]_(Contract!vars)
  <2>1. row'[d].status = "expired" /\ \A x \in Delivery \ {d} : row'[x] = row[x]
    BY <1>t, <1>5 DEF Expire, TypeOK, RowDoc
  <2>2. row[d].status \in {"pending", "in_flight", "delivered", "dead"}
    BY <1>t, <1>5 DEF Expire, Stored, TypeOK, RowDoc, RowStatus
  <2>3. view[d] \in {"open", "delivered", "dead"} /\ view' = [view EXCEPT ![d] = "expired"]
    BY <2>1, <2>2, ViewOf, ViewChanged
  <2>4. Contract!AgeOut(d)
    BY <1>5, <2>3 DEF Expire, Contract!AgeOut
  <2>5. QED BY <2>4 DEF Contract!Next
<1>6. ASSUME NEW w \in Workers, NEW d \in Delivery, Claim(w, d)
      PROVE  [Contract!Next]_(Contract!vars)
  <2>1. row[d].status \in Claimable /\ row'[d].status \in Claimable
    BY <1>t, <1>6 DEF Claim, DueInv, TypeOK
  <2>2. \A x \in Delivery \ {d} : row'[x] = row[x]
    BY <1>t, <1>6 DEF Claim, TypeOK
  <2>3. QED BY <1>1, <1>6, <2>1, <2>2, ViewUnchanged DEF Claim
<1>7. ASSUME NEW w \in Workers, Attempt(w)
      PROVE  [Contract!Next]_(Contract!vars)
  <2>. DEFINE d == task[w].d
  <2>1. d \in Delivery /\ QueueEffect(w)
    BY <1>t, <1>7, AttemptEffect DEF HoldsInv
  <2>2. CASE Post(w)
    <3>1. row' = row
      BY <2>2 DEF Post
    <3>2. view[d] \in {"open", "expired"} /\ view' = view
      <4>1. Owes(w, d)
        BY <2>2 DEF Post, Owes, Owing, Step
      <4>2. row[d].status \in {"in_flight", "expired"}
        BY <1>t, <2>1, <4>1 DEF LeaseInv
      <4>3. QED BY <2>1, <3>1, <4>2, ViewOf, ViewUnchanged
    <3>3. CASE accepted' = accepted
      BY <1>1, <3>2, <3>3
    <3>4. CASE accepted' = accepted \cup {d}
      <4>1. Contract!Accept(d)
        BY <3>2, <3>4 DEF Contract!Accept
      <4>2. QED BY <2>1, <4>1 DEF Contract!Next
    <3>5. QED BY <2>2, <3>3, <3>4 DEF Post
  <2>3. CASE ~Post(w)
    <3>1. accepted' = accepted
      BY <1>7, <2>3 DEF Attempt, Lookup, MarkDelivered, MarkDead, RecordOutcome, Deactivate, RetryOrDie
    <3>2. CASE row' = row
      BY <1>2, <3>1, <3>2
    <3>3. ASSUME NEW status \in {"pending", "delivered", "dead"}, WritesRow(w, status)
          PROVE  [Contract!Next]_(Contract!vars)
      <4>1. row[d].status \in {"in_flight", "expired"}
        BY <1>t, <2>1, <3>3 DEF WritesRow, LeaseInv, Owes
      <4>2. CASE ~Stored(d)
        BY <3>2, <3>3, <4>2 DEF WritesRow, SetStatus
      <4>3. CASE Stored(d)
        <5>1. row[d].status = "in_flight"
          BY <4>1, <4>3 DEF Stored
        <5>2. row'[d].status = status /\ \A x \in Delivery \ {d} : row'[x] = row[x]
          BY <1>t, <2>1, <3>3, <4>3, VerdictEffect
        <5>3. view[d] = "open"
          BY <2>1, <5>1, ViewOf
        <5>4. CASE status = "pending"
          BY <1>1, <2>1, <3>1, <5>1, <5>2, <5>4, ViewUnchanged
        <5>5. CASE status = "dead"
          <6>1. view' = [view EXCEPT ![d] = "dead"]
            BY <2>1, <5>2, <5>5, ViewChanged
          <6>2. Contract!GiveUp(d)
            BY <3>1, <5>3, <6>1 DEF Contract!GiveUp
          <6>3. QED BY <2>1, <6>2 DEF Contract!Next
        <5>6. CASE status = "delivered"
          <6>1. d \in accepted
            BY <1>t, <3>3, <5>6 DEF WritesRow, AcceptInv
          <6>2. view' = [view EXCEPT ![d] = "delivered"]
            BY <2>1, <5>2, <5>6, ViewChanged
          <6>3. Contract!Deliver(d)
            BY <3>1, <5>3, <6>1, <6>2 DEF Contract!Deliver
          <6>4. QED BY <2>1, <6>3 DEF Contract!Next
        <5>7. QED BY <5>4, <5>5, <5>6
      <4>4. QED BY <4>2, <4>3
    <3>4. QED BY <2>1, <3>2, <3>3 DEF QueueEffect, LeavesRow, LosesRow
  <2>4. QED BY <2>2, <2>3
<1>8. QED
  BY <1>2, <1>3, <1>4, <1>5, <1>6, <1>7, StepCases DEF Fire, ComesDue, Crash

(* While leases hold, everything the worker, dispatch, redelivery, expiry and*)
(* crashes do to a delivery is a step of WebhookContract or invisible to the *)
(* subscriber's delivery log.                                                *)
THEOREM ContractHolds ==
    ASSUME LeaseHolds
    PROVE  Spec => KeepsContract
<1>1. Init => Contract!Init
  BY ContractInit
<1>2. IInv /\ [Next]_vars => [Contract!Next]_(Contract!vars)
  BY ContractStep
<1>3. QED
  BY <1>1, <1>2, Invariance, PTL DEF Spec, KeepsContract, Contract!Spec
==============================================================================
