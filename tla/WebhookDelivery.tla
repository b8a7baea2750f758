--------------------------- MODULE WebhookDelivery ---------------------------
(***************************************************************************)
(* The webhook delivery queue: dispatch fans an event out into one durable  *)
(* row per listening subscription, and the worker loop of spawn_worker      *)
(* claims due rows under a lease and hands each to a task of its own, which *)
(* looks the subscription up, posts to the receiver and writes the outcome  *)
(* back.  Every database call is a step, so tasks, handlers, the lease      *)
(* clock, the receiver and a crash of the process interleave between them.  *)
(*                                                                         *)
(* Time is abstract.  A row's next_attempt_at either has passed (the row is *)
(* in "due") or has not; ComesDue is the clock passing it.  The sort by     *)
(* next_attempt_at is kept by "ahead": the rows that came due before d.     *)
(***************************************************************************)
EXTENDS Naturals, FiniteSets

CONSTANTS
    Events,        \* occurrences of an event, each dispatched at most once
    Subs,          \* webhook subscriptions (documents)
    Workers,       \* the MAX_CONCURRENT_DELIVERIES permits of the semaphore
    NoDelivery,    \* the delivery of a permit nobody holds
    BackoffLen,    \* length of BACKOFF_SECONDS
    MaxFaults,     \* bound on crashes and lost database writes
    MaxRotations,  \* bound on the secrets a subscription can have had
    LeaseHolds     \* TRUE: an attempt always ends before its LEASE does

Delivery == Events \X Subs

ASSUME WebhookAssumption ==
    /\ BackoffLen \in Nat
    /\ MaxFaults \in Nat
    /\ MaxRotations \in Nat
    /\ LeaseHolds \in BOOLEAN
    /\ NoDelivery \notin Delivery

VARIABLES
    sub,       \* subscription documents
    fired,     \* events whose dispatch has loaded its subscriptions
    todo,      \* subscriptions a running dispatch still has to insert a row for
    row,       \* delivery documents: status and attempts
    due,       \* rows whose next_attempt_at has passed
    ahead,     \* for a due row, the due rows with an earlier next_attempt_at
    task,      \* the delivery task holding each permit
    requeues,  \* redelivery requests past their ownership check
    accepted,  \* the receiver answered 2xx since the row was last queued
    faults     \* crashes and lost writes so far

vars == <<sub, fired, todo, row, due, ahead, task, requeues, accepted, faults>>

-----------------------------------------------------------------------------
SubOf(d) == d[2]

SubState == {"absent", "active", "inactive", "deleted"}
RowStatus == {"absent", "pending", "in_flight", "delivered", "dead", "expired"}
Step == {"idle", "lookup", "post", "accepted", "rejected", "blocked", "gone",
         "orphan", "recordOk", "recordError", "deactivate", "settle"}

SubDoc == [state : SubState, secret : Nat, failing : BOOLEAN]
RowDoc == [status : RowStatus, attempts : Nat]
Task == [at : Step, d : Delivery \cup {NoDelivery}, attempts : Nat, secret : Nat]

Idle == [at |-> "idle", d |-> NoDelivery, attempts |-> 0, secret |-> 0]

(* What claim_due selects on. *)
Claimable == {"pending", "in_flight"}

(* The row is still in the collection, so an update by _id matches it. *)
Stored(d) == row[d].status \notin {"absent", "expired"}

(* The steps at which a task still has a write to the row ahead of it. *)
Owing == Step \ {"idle", "recordOk", "recordError", "deactivate"}

Owes(w, d) == task[w].at \in Owing /\ task[w].d = d

(* Mutation of RetriesLeft: the table is read one past its end. *)
RetriesLeftOneMore(attempts) == attempts \in 1..(BackoffLen + 1)

(* next_retry_delay returns Some: the attempt was not the last one. *)
RetriesLeft(attempts) == attempts \in 1..BackoffLen

(* next_attempt_at <= now: the row joins the end of the due rows. *)
Enqueue(d) ==
    /\ due' = due \cup {d}
    /\ ahead' = [ahead EXCEPT ![d] = due \ {d}]

(* The row stops matching claim_due's filter. *)
Dequeue(d) ==
    /\ due' = due \ {d}
    /\ ahead' = [x \in Delivery |-> IF x = d THEN {} ELSE ahead[x] \ {d}]

(* A write whose error the caller drops: it lands or it does not. *)
LoseWrite ==
    /\ faults < MaxFaults
    /\ faults' = faults + 1

SetStatus(d, status) ==
    row' = IF Stored(d) THEN [row EXCEPT ![d].status = status] ELSE row

Advance(w, step) == task' = [task EXCEPT ![w].at = step]
Finish(w) == task' = [task EXCEPT ![w] = Idle]

Init ==
    /\ sub \in [Subs -> {[state |-> "absent", secret |-> 0, failing |-> FALSE],
                         [state |-> "active", secret |-> 0, failing |-> FALSE]}]
    /\ fired = {}
    /\ todo = [e \in Events |-> {}]
    /\ row = [d \in Delivery |-> [status |-> "absent", attempts |-> 0]]
    /\ due = {}
    /\ ahead = [d \in Delivery |-> {}]
    /\ task = [w \in Workers |-> Idle]
    /\ requeues = {}
    /\ accepted = {}
    /\ faults = 0

-----------------------------------------------------------------------------
(* Subscriptions: create, delete, rotate_secret.                            *)

Present(s) == sub[s].state \in {"active", "inactive"}

CreateSub(s) ==
    /\ sub[s].state = "absent"
    /\ sub' = [sub EXCEPT ![s] = [state |-> "active", secret |-> 1, failing |-> FALSE]]
    /\ UNCHANGED <<fired, todo, row, due, ahead, task, requeues, accepted, faults>>

(* Only the subscription goes: its queued rows are left to the worker. *)
DeleteSub(s) ==
    /\ Present(s)
    /\ sub' = [sub EXCEPT ![s].state = "deleted"]
    /\ UNCHANGED <<fired, todo, row, due, ahead, task, requeues, accepted, faults>>

RotateSecret(s) ==
    /\ Present(s)
    /\ sub[s].secret < MaxRotations
    /\ sub' = [sub EXCEPT ![s].secret = @ + 1]
    /\ UNCHANGED <<fired, todo, row, due, ahead, task, requeues, accepted, faults>>

-----------------------------------------------------------------------------
(* dispatch: load the active subscriptions, then insert row after row.      *)

Fire(e) ==
    /\ e \notin fired
    /\ fired' = fired \cup {e}
    /\ \/ /\ todo' = [todo EXCEPT ![e] = {s \in Subs : sub[s].state = "active"}]
          /\ UNCHANGED faults
       \/ LoseWrite /\ UNCHANGED todo
    /\ UNCHANGED <<sub, row, due, ahead, task, requeues, accepted>>

InsertRow(e, s) ==
    /\ s \in todo[e]
    /\ todo' = [todo EXCEPT ![e] = @ \ {s}]
    /\ \/ /\ row' = [row EXCEPT ![<<e, s>>] = [status |-> "pending", attempts |-> 0]]
          /\ Enqueue(<<e, s>>)
          /\ UNCHANGED faults
       \/ LoseWrite /\ UNCHANGED <<row, due, ahead>>
    /\ UNCHANGED <<sub, fired, task, requeues, accepted>>

-----------------------------------------------------------------------------
(* The queue: the clock, the claim, manual redelivery and the TTL index.    *)

(* next_attempt_at passes: a backoff ends, or a lease does. *)
ComesDue(d) ==
    /\ row[d].status \in Claimable
    /\ d \notin due
    /\ LeaseHolds => \A w \in Workers : ~Owes(w, d)
    /\ Enqueue(d)
    /\ UNCHANGED <<sub, fired, todo, row, task, requeues, accepted, faults>>

(* Mutation of Claim: the claim does not push next_attempt_at out. *)
ClaimWithoutLease(w, d) ==
    /\ task[w].at = "idle"
    /\ d \in due
    /\ row' = [row EXCEPT ![d] = [status |-> "in_flight", attempts |-> @.attempts + 1]]
    /\ task' = [task EXCEPT ![w] = [at |-> "lookup", d |-> d,
                                    attempts |-> row[d].attempts + 1, secret |-> 0]]
    /\ UNCHANGED <<sub, fired, todo, due, ahead, requeues, accepted, faults>>

(* Mutation of Claim: no sort by next_attempt_at. *)
ClaimUnsorted(w, d) ==
    /\ task[w].at = "idle"
    /\ d \in due
    /\ row' = [row EXCEPT ![d] = [status |-> "in_flight", attempts |-> @.attempts + 1]]
    /\ Dequeue(d)
    /\ task' = [task EXCEPT ![w] = [at |-> "lookup", d |-> d,
                                    attempts |-> row[d].attempts + 1, secret |-> 0]]
    /\ UNCHANGED <<sub, fired, todo, requeues, accepted, faults>>

(* claim_due: the earliest due row is leased to the task that takes the     *)
(* permit.  The reply can be lost after the update was applied.             *)
Claim(w, d) ==
    /\ task[w].at = "idle"
    /\ d \in due
    /\ ahead[d] = {}
    /\ row' = [row EXCEPT ![d] = [status |-> "in_flight", attempts |-> @.attempts + 1]]
    /\ Dequeue(d)
    /\ \/ /\ task' = [task EXCEPT ![w] = [at |-> "lookup", d |-> d,
                                          attempts |-> row[d].attempts + 1, secret |-> 0]]
          /\ UNCHANGED faults
       \/ LoseWrite /\ UNCHANGED task
    /\ UNCHANGED <<sub, fired, todo, requeues, accepted>>

(* redeliver, first query: find_owned of some subscription of the user's, all *)
(* of them here; that the delivery belongs to it is not asked.               *)
RequestRedelivery(d) ==
    /\ \E s \in Subs : Present(s)
    /\ Stored(d)
    /\ d \notin requeues
    /\ requeues' = requeues \cup {d}
    /\ UNCHANGED <<sub, fired, todo, row, due, ahead, task, accepted, faults>>

(* Mutation of Requeue: a row still in progress is requeued too. *)
RequeueAny(d) ==
    /\ d \in requeues
    /\ requeues' = requeues \ {d}
    /\ IF Stored(d)
       THEN /\ row' = [row EXCEPT ![d] = [status |-> "pending", attempts |-> 0]]
            /\ Enqueue(d)
            /\ accepted' = accepted \ {d}
       ELSE UNCHANGED <<row, due, ahead, accepted>>
    /\ UNCHANGED <<sub, fired, todo, task, faults>>

(* redeliver, second query: requeue, whose filter admits a finished row only. *)
Requeue(d) ==
    /\ d \in requeues
    /\ requeues' = requeues \ {d}
    /\ IF row[d].status \in {"delivered", "dead"}
       THEN /\ row' = [row EXCEPT ![d] = [status |-> "pending", attempts |-> 0]]
            /\ Enqueue(d)
            /\ accepted' = accepted \ {d}
       ELSE UNCHANGED <<row, due, ahead, accepted>>
    /\ UNCHANGED <<sub, fired, todo, task, faults>>

(* The TTL index on created_at, which a redelivery does not refresh. *)
Expire(d) ==
    /\ Stored(d)
    /\ row' = [row EXCEPT ![d].status = "expired"]
    /\ Dequeue(d)
    /\ UNCHANGED <<sub, fired, todo, task, requeues, accepted, faults>>

-----------------------------------------------------------------------------
(* attempt: one action per database call or request to the receiver.        *)

(* An update of the row by its _id alone, its error dropped by the caller. *)
WriteRow(d, status) ==
    \/ /\ SetStatus(d, status)
       /\ Dequeue(d)
       /\ UNCHANGED faults
    \/ LoseWrite /\ UNCHANGED <<row, due, ahead>>

(* An update of the subscription by its _id, its error dropped as well. *)
WriteSub(s, fields) ==
    \/ /\ sub' = IF Present(s) THEN [sub EXCEPT ![s] = fields] ELSE sub
       /\ UNCHANGED faults
    \/ LoseWrite /\ UNCHANGED sub

RecordDelivery(s, error) == WriteSub(s, [sub[s] EXCEPT !.failing = error])

Lookup(w) ==
    /\ task[w].at = "lookup"
    /\ LET s == SubOf(task[w].d) IN
       \/ /\ sub[s].state = "active"
          /\ task' = [task EXCEPT ![w].at = "post", ![w].secret = sub[s].secret]
          /\ UNCHANGED faults
       \/ /\ sub[s].state # "active"
          /\ Advance(w, "orphan")
          /\ UNCHANGED faults
       \/ LoseWrite /\ Advance(w, "rejected")
    /\ UNCHANGED <<sub, fired, todo, row, due, ahead, requeues, accepted>>

(* The URL is checked, the body signed with the secret read by Lookup, and  *)
(* the receiver called.                                                     *)
Post(w) ==
    /\ task[w].at = "post"
    /\ \/ /\ Advance(w, "blocked")
          /\ UNCHANGED accepted
       \/ /\ task[w].secret # 0
          /\ \/ /\ Advance(w, "accepted")
                /\ accepted' = accepted \cup {task[w].d}
             \/ /\ \E answer \in {"gone", "rejected"} : Advance(w, answer)
                /\ UNCHANGED accepted
    /\ UNCHANGED <<sub, fired, todo, row, due, ahead, requeues, faults>>

MarkDelivered(w) ==
    /\ task[w].at = "accepted"
    /\ WriteRow(task[w].d, "delivered")
    /\ Advance(w, "recordOk")
    /\ UNCHANGED <<sub, fired, todo, requeues, accepted>>

MarkDead(w) ==
    /\ task[w].at \in {"blocked", "gone", "orphan"}
    /\ WriteRow(task[w].d, "dead")
    /\ \/ task[w].at = "blocked" /\ Advance(w, "recordError")
       \/ task[w].at = "gone" /\ Advance(w, "deactivate")
       \/ task[w].at = "orphan" /\ Finish(w)
    /\ UNCHANGED <<sub, fired, todo, requeues, accepted>>

RecordOutcome(w) ==
    /\ \/ /\ task[w].at = "recordOk"
          /\ RecordDelivery(SubOf(task[w].d), FALSE)
          /\ Finish(w)
       \/ /\ task[w].at = "recordError"
          /\ RecordDelivery(SubOf(task[w].d), TRUE)
          /\ Finish(w)
       \/ /\ task[w].at = "rejected"
          /\ RecordDelivery(SubOf(task[w].d), TRUE)
          /\ Advance(w, "settle")
    /\ UNCHANGED <<fired, todo, row, due, ahead, requeues, accepted>>

Deactivate(w) ==
    /\ task[w].at = "deactivate"
    /\ LET s == SubOf(task[w].d) IN
       WriteSub(s, [sub[s] EXCEPT !.state = "inactive", !.failing = TRUE])
    /\ Finish(w)
    /\ UNCHANGED <<fired, todo, row, due, ahead, requeues, accepted>>

(* Mutation of RetryOrDie: a status no query knows. *)
RetryOrDieUnknownStatus(w) ==
    /\ task[w].at = "settle"
    /\ WriteRow(task[w].d, IF RetriesLeft(task[w].attempts) THEN "retrying" ELSE "dead")
    /\ Finish(w)
    /\ UNCHANGED <<sub, fired, todo, requeues, accepted>>

(* retry_or_die decides on the attempts of the document the claim returned. *)
RetryOrDie(w) ==
    /\ task[w].at = "settle"
    /\ WriteRow(task[w].d, IF RetriesLeft(task[w].attempts) THEN "pending" ELSE "dead")
    /\ Finish(w)
    /\ UNCHANGED <<sub, fired, todo, requeues, accepted>>

(* The process dies: tasks, running dispatches and requests are gone. *)
Crash ==
    /\ faults < MaxFaults
    /\ faults' = faults + 1
    /\ task' = [w \in Workers |-> Idle]
    /\ todo' = [e \in Events |-> {}]
    /\ requeues' = {}
    /\ UNCHANGED <<sub, fired, row, due, ahead, accepted>>

-----------------------------------------------------------------------------
Attempt(w) ==
    \/ Lookup(w)
    \/ Post(w)
    \/ MarkDelivered(w)
    \/ MarkDead(w)
    \/ RecordOutcome(w)
    \/ Deactivate(w)
    \/ RetryOrDie(w)

Next ==
    \/ \E s \in Subs : CreateSub(s) \/ DeleteSub(s) \/ RotateSecret(s)
    \/ \E e \in Events : Fire(e) \/ (\E s \in Subs : InsertRow(e, s))
    \/ \E d \in Delivery : ComesDue(d) \/ RequestRedelivery(d) \/ Requeue(d) \/ Expire(d)
    \/ \E w \in Workers, d \in Delivery : Claim(w, d)
    \/ \E w \in Workers : Attempt(w)
    \/ Crash

(* The clock runs, the loop claims while a permit is free, and a task that  *)
(* was spawned is polled to its end.  Users, receivers and faults owe       *)
(* nothing.                                                                 *)
Fairness ==
    /\ \A d \in Delivery : WF_vars(ComesDue(d))
    /\ WF_vars(\E w \in Workers, d \in Delivery : Claim(w, d))
    /\ \A w \in Workers : WF_vars(Attempt(w))

Spec == Init /\ [][Next]_vars /\ Fairness

-----------------------------------------------------------------------------
TypeOK ==
    /\ sub \in [Subs -> SubDoc]
    /\ fired \in SUBSET Events
    /\ todo \in [Events -> SUBSET Subs]
    /\ row \in [Delivery -> RowDoc]
    /\ due \in SUBSET Delivery
    /\ ahead \in [Delivery -> SUBSET Delivery]
    /\ task \in [Workers -> Task]
    /\ requeues \in SUBSET Delivery
    /\ accepted \in SUBSET Delivery
    /\ faults \in 0..MaxFaults

(* claim_due's promise that "two workers never take the same one" and what   *)
(* the unconditional updates by _id rely on: while leases hold, at most one  *)
(* task still has a write to a row ahead of it, that row is the in-flight    *)
(* row it claimed, and the attempts it will judge by are the row's own.      *)
OneWriter ==
    LeaseHolds =>
        \A w \in Workers, d \in Delivery :
            Owes(w, d) =>
                /\ \A v \in Workers : Owes(v, d) => v = w
                /\ row[d].status \in {"in_flight", "expired"}
                /\ row[d].attempts = task[w].attempts

(* BACKOFF_SECONDS gives up after its last entry: since it was last queued   *)
(* a row is attempted once more than there are delays, and beyond that only  *)
(* once for every crash or lost write, whose attempt was never judged.       *)
AttemptsBounded ==
    LeaseHolds => \A d \in Delivery : row[d].attempts <= BackoffLen + 1 + faults

(* What the delivery log shows: pending and in flight both mean "not yet". *)
view ==
    [d \in Delivery |-> IF row[d].status \in Claimable THEN "open" ELSE row[d].status]

Contract ==
    INSTANCE WebhookContract WITH Delivery <- Delivery, view <- view, accepted <- accepted

(* The queue keeps WebhookContract: in particular a finished delivery is     *)
(* reopened by a redelivery only, and one shown as delivered was accepted by *)
(* the receiver after it was last queued.  It needs LeaseHolds.              *)
KeepsContract == Contract!Spec

(* Every queued row ends: delivered, dead, or aged out by the TTL index,     *)
(* whatever crashes, lost writes and deleted subscriptions come between, and *)
(* whether or not tasks overrun their leases.                                *)
EveryRowSettles ==
    \A d \in Delivery :
        row[d].status \in Claimable ~> row[d].status \in {"delivered", "dead", "expired"}

==============================================================================
