----------------------------- MODULE TxExecution -----------------------------
(***************************************************************************)
(* Transactions the server signs and broadcasts for a user: the public API *)
(* (execute_idempotent) and the scheduler worker (run_task) run the same   *)
(* pipeline - session key, spend policy, today's usage, broadcast, usage    *)
(* record - over the same collections, each database call a step of its    *)
(* own.  The chain is external: a broadcast is one more transaction.       *)
(*                                                                         *)
(* Both callers pass a USD value of 0, so the dollar limits of a policy,    *)
(* taken to be zero or more, never bind here and a policy is its            *)
(* max_tx_per_hour alone, counted over the UTC day as the code does.       *)
(***************************************************************************)
EXTENDS Naturals, FiniteSets

CONSTANTS
    Handlers,      \* concurrent execute calls of the public API
    Scheduler,     \* the scheduler worker, one sequential loop
    Bodies,        \* requests as their request_hash tells them apart
    Tasks,         \* scheduled tasks with a time trigger
    OneShot,       \* the tasks with a TimeOnce trigger; the rest are Recurring
    IdemKeys,      \* values of the Idempotency-Key header
    SessionKeys,
    Serialized,    \* insert stores encrypted_private_key; FALSE in the code
    Wallets,
    KeyOf,         \* session_key_id of a body or a task
    WalletOf,      \* wallet_address of a session key
    None,          \* absent: no key, no document, no limit
    Failing,       \* the calls that may fail after taking effect, see below
    MaxCap,        \* bound on max_tx_per_hour
    MaxTx          \* bound on the transactions broadcast

Procs == Handlers \cup {Scheduler}
Template == Bodies \cup Tasks

ASSUME TxAssumption ==
    /\ IsFiniteSet(Handlers)
    /\ Scheduler \notin Handlers
    /\ Bodies \cap Tasks = {}
    /\ OneShot \subseteq Tasks
    /\ Serialized \in BOOLEAN
    /\ KeyOf \in [Template -> SessionKeys]
    /\ WalletOf \in [SessionKeys -> Wallets]
    /\ None \notin Template \cup IdemKeys \cup Nat
    /\ Failing \subseteq {"reply", "record", "complete", "abort", "mark"}
    /\ MaxCap \in Nat
    /\ MaxTx \in Nat

VARIABLES
    keys,        \* status of each session key
    signers,     \* session keys whose document holds the encrypted signer
    cap,         \* max_tx_per_hour of a wallet's policy, None without one
    usage,       \* tx_count of the wallet's bucket for today
    idem,        \* idempotency records
    status,      \* status of each scheduled task
    due,         \* tasks whose next_run_at has passed
    batch,       \* tasks find_due returned that this tick has still to run
    run,         \* the execution each process is in
    txs,         \* transactions on chain; the newest one's hash
    \* History, read by the properties only.
    sent,        \* what was broadcast under an idempotency key
    unsure,      \* keys of an execution that failed though the node took its transaction
    answered,    \* what callers were told under it
    ran,         \* tasks broadcast since next_run_at moved, or this tick's poll
    today,       \* broadcasts of a wallet since midnight
    unrecorded,  \* those whose usage record was lost
    ceiling      \* the highest cap a wallet ever had

ledger == <<sent, unsure, answered, ran, today, unrecorded, ceiling>>
vars == <<keys, signers, cap, usage, idem, status, due, batch, run, txs, ledger>>

-----------------------------------------------------------------------------
Limit == Nat \cup {None}
Step == {"idle", "authorize", "policy", "usage", "broadcast", "record", "done", "failed"}

(* A key is over when it is revoked or its expires_at has passed. *)
KeyStatus == {"absent", "active", "over"}

(* Paused and cancelled are both "stopped": find_due and set_status, which   *)
(* moves a task between any two of them, treat them alike.                   *)
TaskStatus == {"absent", "active", "stopped"}

(* An idempotency record; body None when there is none, result 0 for null. *)
IdemDoc == [body : Bodies \cup {None}, result : Nat]
NoRecord == [body |-> None, result |-> 0]

Run == [at : Step, tpl : Template \cup {None}, idem : IdemKeys \cup {None},
        cap : Limit, hash : Nat]
NoRun == [at |-> "idle", tpl |-> None, idem |-> None, cap |-> None, hash |-> 0]

WalletUsed(p) == WalletOf[KeyOf[run[p].tpl]]

(* The idempotency key of an execution, if it has one. *)
KeyUsed(p) == {run[p].idem} \ {None}

Busy(k) == \E h \in Handlers : run[h].idem = k

Advance(p, step) == run' = [run EXCEPT ![p].at = step]
Finish(p) == run' = [run EXCEPT ![p] = NoRun]

Init ==
    /\ keys = [k \in SessionKeys |-> "absent"]
    /\ signers = {}
    /\ cap \in [Wallets -> (0..MaxCap) \cup {None}]
    /\ usage = [w \in Wallets |-> 0]
    /\ idem = [k \in IdemKeys |-> NoRecord]
    /\ status = [t \in Tasks |-> "absent"]
    /\ due = {}
    /\ batch = {}
    /\ run = [p \in Procs |-> NoRun]
    /\ txs = 0
    /\ sent = [k \in IdemKeys |-> {}]
    /\ unsure = {}
    /\ answered = [k \in IdemKeys |-> {}]
    /\ ran = {}
    /\ today = [w \in Wallets |-> 0]
    /\ unrecorded = [w \in Wallets |-> 0]
    /\ ceiling = cap

-----------------------------------------------------------------------------
(* What users and the calendar do meanwhile.                                *)

(* insert.  skip_serializing is meant for the API responses, but the document *)
(* is written by the same serializer, so the mandatory field is not stored.  *)
CreateKey(k) ==
    /\ keys[k] = "absent"
    /\ keys' = [keys EXCEPT ![k] = "active"]
    /\ signers' = IF Serialized THEN signers \cup {k} ELSE signers
    /\ UNCHANGED <<cap, usage, idem, status, due, batch, run, txs, ledger>>

(* The key is revoked, or its expires_at passes. *)
Revoke(k) ==
    /\ keys[k] = "active"
    /\ keys' = [keys EXCEPT ![k] = "over"]
    /\ UNCHANGED <<signers, cap, usage, idem, status, due, batch, run, txs, ledger>>

(* upsert: a null limit is skipped by the serializer, so $set keeps the old. *)
UpsertPolicy(w, c) ==
    /\ cap' = [cap EXCEPT ![w] = c]
    /\ ceiling' = [ceiling EXCEPT ![w] = IF @ # None /\ @ < c THEN c ELSE @]
    /\ UNCHANGED <<keys, signers, usage, idem, status, due, batch, run, txs,
                   sent, unsure, answered, ran, today, unrecorded>>

DeletePolicy(w) ==
    /\ cap[w] # None
    /\ cap' = [cap EXCEPT ![w] = None]
    /\ ceiling' = [ceiling EXCEPT ![w] = None]
    /\ UNCHANGED <<keys, signers, usage, idem, status, due, batch, run, txs,
                   sent, unsure, answered, ran, today, unrecorded>>

(* Midnight UTC: today_usage and record_usage turn to a new bucket. *)
NewDay ==
    /\ usage' = [w \in Wallets |-> 0]
    /\ today' = [w \in Wallets |-> 0]
    /\ unrecorded' = [w \in Wallets |-> 0]
    /\ UNCHANGED <<keys, signers, cap, idem, status, due, batch, run, txs,
                   sent, unsure, answered, ran, ceiling>>

(* The session key is read before the insert, active then: by the time of    *)
(* the insert it may be over.  Without its signer it cannot be read at all.  *)
CreateTask(t) ==
    /\ status[t] = "absent"
    /\ KeyOf[t] \in signers
    /\ status' = [status EXCEPT ![t] = "active"]
    /\ UNCHANGED <<keys, signers, cap, usage, idem, due, batch, run, txs, ledger>>

SetStatus(t, s) ==
    /\ status[t] # "absent"
    /\ status' = [status EXCEPT ![t] = s]
    /\ UNCHANGED <<keys, signers, cap, usage, idem, due, batch, run, txs, ledger>>

(* next_run_at passes. *)
ComesDue(t) ==
    /\ status[t] # "absent"
    /\ t \notin due
    /\ due' = due \cup {t}
    /\ UNCHANGED <<keys, signers, cap, usage, idem, status, batch, run, txs, ledger>>

-----------------------------------------------------------------------------
(* The pipeline of execute, the same in PublicApiService and the worker.    *)

(* A bad template, an unknown chain, a key that cannot be decrypted or a     *)
(* database error ends any of the checks with an error.                      *)
Fail(p) ==
    /\ run[p].at \in {"authorize", "policy", "usage", "broadcast"}
    /\ Advance(p, "failed")
    /\ UNCHANGED <<keys, signers, cap, usage, idem, status, due, batch, txs, ledger>>

(* find_by_id cannot read a document without its signer; Fail is its error. *)
Authorize(p) ==
    /\ run[p].at = "authorize"
    /\ KeyOf[run[p].tpl] \in signers
    /\ keys[KeyOf[run[p].tpl]] = "active"
    /\ Advance(p, "policy")
    /\ UNCHANGED <<keys, signers, cap, usage, idem, status, due, batch, txs, ledger>>

(* check, first query: the policy. *)
FindPolicy(p) ==
    /\ run[p].at = "policy"
    /\ run' = [run EXCEPT ![p].cap = cap[WalletUsed(p)],
                          ![p].at = IF cap[WalletUsed(p)] = None THEN "broadcast" ELSE "usage"]
    /\ UNCHANGED <<keys, signers, cap, usage, idem, status, due, batch, txs, ledger>>

(* Mutation of CheckUsage: the limit is off by one. *)
CheckUsageInclusive(p) ==
    /\ run[p].at = "usage"
    /\ usage[WalletUsed(p)] <= run[p].cap
    /\ Advance(p, "broadcast")
    /\ UNCHANGED <<keys, signers, cap, usage, idem, status, due, batch, txs, ledger>>

(* check, second query: today's bucket against the policy just read. *)
CheckUsage(p) ==
    /\ run[p].at = "usage"
    /\ usage[WalletUsed(p)] < run[p].cap
    /\ Advance(p, "broadcast")
    /\ UNCHANGED <<keys, signers, cap, usage, idem, status, due, batch, txs, ledger>>

(* send_transaction: an error reply does not tell whether the node took it. *)
Broadcast(p) ==
    /\ run[p].at = "broadcast"
    /\ txs < MaxTx
    /\ txs' = txs + 1
    /\ \/ run' = [run EXCEPT ![p].at = "record", ![p].hash = txs + 1]
       \/ /\ "reply" \in Failing
          /\ run' = [run EXCEPT ![p].at = "failed", ![p].hash = txs + 1]
    /\ LET w == WalletUsed(p)
           lost == run'[p].at = "failed" IN
       /\ today' = [today EXCEPT ![w] = @ + 1]
       /\ unrecorded' = [unrecorded EXCEPT ![w] = IF lost THEN @ + 1 ELSE @]
       /\ unsure' = IF lost THEN unsure \cup KeyUsed(p) ELSE unsure
    /\ sent' = IF run[p].idem = None THEN sent
               ELSE [sent EXCEPT ![run[p].idem] = @ \cup {<<run[p].tpl, txs + 1>>}]
    /\ ran' = ran \cup (Tasks \cap {run[p].tpl})
    /\ UNCHANGED <<keys, signers, cap, usage, idem, status, due, batch, answered, ceiling>>

RecordUsage(p) ==
    /\ run[p].at = "record"
    /\ LET w == WalletUsed(p) IN
       \/ /\ usage' = [usage EXCEPT ![w] = @ + 1]
          /\ Advance(p, "done")
          /\ UNCHANGED <<unsure, unrecorded>>
       \/ /\ "record" \in Failing
          /\ Advance(p, "failed")
          /\ unrecorded' = [unrecorded EXCEPT ![w] = @ + 1]
          /\ unsure' = unsure \cup KeyUsed(p)
          /\ UNCHANGED usage
    /\ UNCHANGED <<keys, signers, cap, idem, status, due, batch, txs,
                   sent, answered, ran, today, ceiling>>

-----------------------------------------------------------------------------
(* execute_idempotent around it.                                            *)

(* Mutation of Begin: request_hash is not compared. *)
BeginIgnoringBody(h, k, b) ==
    /\ run[h].at = "idle"
    /\ \/ /\ k # None => idem[k] = NoRecord
          /\ run' = [run EXCEPT ![h] = [NoRun EXCEPT !.at = "authorize", !.tpl = b, !.idem = k]]
          /\ idem' = IF k = None THEN idem
                     ELSE [idem EXCEPT ![k] = [body |-> b, result |-> 0]]
          /\ UNCHANGED answered
       \/ /\ k # None
          /\ idem[k].result # 0
          /\ answered' = [answered EXCEPT ![k] = @ \cup {<<b, idem[k].result>>}]
          /\ UNCHANGED <<run, idem>>
    /\ UNCHANGED <<keys, signers, cap, usage, status, due, batch, txs,
                   sent, unsure, ran, today, unrecorded, ceiling>>

(* begin.  Without a key nothing is claimed.  With one, the unique index admits one  *)
(* record; the request that inserted it goes on, every other is answered     *)
(* from it: the stored result, or a conflict.                                *)
Begin(h, k, b) ==
    /\ run[h].at = "idle"
    /\ \/ /\ k # None => idem[k] = NoRecord
          /\ run' = [run EXCEPT ![h] = [NoRun EXCEPT !.at = "authorize", !.tpl = b, !.idem = k]]
          /\ idem' = IF k = None THEN idem
                     ELSE [idem EXCEPT ![k] = [body |-> b, result |-> 0]]
          /\ UNCHANGED answered
       \/ /\ k # None
          /\ idem[k].body = b
          /\ idem[k].result # 0
          /\ answered' = [answered EXCEPT ![k] = @ \cup {<<b, idem[k].result>>}]
          /\ UNCHANGED <<run, idem>>
    /\ UNCHANGED <<keys, signers, cap, usage, status, due, batch, txs,
                   sent, unsure, ran, today, unrecorded, ceiling>>

(* Mutation of Complete: the result is stored before there is a hash. *)
CompleteWithoutHash(h) ==
    /\ run[h].at = "done"
    /\ run[h].idem # None
    /\ idem' = [idem EXCEPT ![run[h].idem].result = None]
    /\ Finish(h)
    /\ UNCHANGED <<keys, signers, cap, usage, status, due, batch, txs, ledger>>

Complete(h) ==
    /\ run[h].at = "done"
    /\ LET k == run[h].idem IN
       \/ /\ k # None
          /\ idem' = IF idem[k] = NoRecord THEN idem
                     ELSE [idem EXCEPT ![k].result = run[h].hash]
          /\ answered' = [answered EXCEPT ![k] = @ \cup {<<run[h].tpl, run[h].hash>>}]
       \/ /\ k = None \/ "complete" \in Failing
          /\ UNCHANGED <<idem, answered>>
    /\ Finish(h)
    /\ UNCHANGED <<keys, signers, cap, usage, status, due, batch, txs,
                   sent, unsure, ran, today, unrecorded, ceiling>>

(* The key is released when the record has no result, and the caller is     *)
(* told of the error; an error of the delete itself is dropped.             *)
Abort(h) ==
    /\ run[h].at = "failed"
    /\ LET k == run[h].idem IN
       \/ /\ k # None
          /\ idem' = IF idem[k].result = 0 THEN [idem EXCEPT ![k] = NoRecord] ELSE idem
       \/ /\ k = None \/ "abort" \in Failing
          /\ UNCHANGED idem
    /\ Finish(h)
    /\ UNCHANGED <<keys, signers, cap, usage, status, due, batch, txs, ledger>>

(* Mutation of Drop: a guard releases the key of a dropped request. *)
DropReleasingKey(h) ==
    /\ run[h].at # "idle"
    /\ idem' = [k \in IdemKeys |-> IF k = run[h].idem THEN NoRecord ELSE idem[k]]
    /\ Finish(h)
    /\ UNCHANGED <<keys, signers, cap, usage, status, due, batch, txs, ledger>>

(* The 35 s request timeout or a closed connection drops the future at any   *)
(* await: nothing after it runs, abort and complete included.                *)
Drop(h) ==
    /\ run[h].at # "idle"
    /\ unrecorded' = IF run[h].at # "record" THEN unrecorded
                     ELSE [unrecorded EXCEPT ![WalletUsed(h)] = @ + 1]
    /\ Finish(h)
    /\ UNCHANGED <<keys, signers, cap, usage, idem, status, due, batch, txs,
                   sent, unsure, answered, ran, today, ceiling>>

(* The TTL index removes a record a day after it was created or completed:   *)
(* long after any request that could still be using it.                      *)
ForgetKey(k) ==
    /\ idem[k] # NoRecord
    /\ ~Busy(k)
    /\ idem' = [idem EXCEPT ![k] = NoRecord]
    /\ sent' = [sent EXCEPT ![k] = {}]
    /\ unsure' = unsure \ {k}
    /\ answered' = [answered EXCEPT ![k] = {}]
    /\ UNCHANGED <<keys, signers, cap, usage, status, due, batch, run, txs,
                   ran, today, unrecorded, ceiling>>

-----------------------------------------------------------------------------
(* The scheduler worker around it.                                          *)

(* find_due: one snapshot per tick, run through task by task.  A TimeOnce     *)
(* task that has run is in it again: its next_run_at is still the one passed. *)
Poll ==
    /\ run[Scheduler].at = "idle"
    /\ batch = {}
    /\ batch' = {t \in due : status[t] = "active"}
    /\ ran' = ran \ OneShot
    /\ UNCHANGED <<keys, signers, cap, usage, idem, status, due, run, txs,
                   sent, unsure, answered, today, unrecorded, ceiling>>

StartTask(t) ==
    /\ run[Scheduler].at = "idle"
    /\ t \in batch
    /\ batch' = batch \ {t}
    /\ run' = [run EXCEPT ![Scheduler] = [NoRun EXCEPT !.at = "authorize", !.tpl = t]]
    /\ UNCHANGED <<keys, signers, cap, usage, idem, status, due, txs, ledger>>

(* Mutation of MarkRan: next_run_at is written for no kind of task. *)
MarkRanWithoutNext ==
    /\ run[Scheduler].at \in {"done", "failed"}
    /\ Finish(Scheduler)
    /\ UNCHANGED <<keys, signers, cap, usage, idem, status, due, batch, txs, ledger>>

(* record_run: mark_ran leaves next_run_at alone when it is given none, as   *)
(* it is for a TimeOnce task; a failed write is logged and the loop goes on. *)
MarkRan ==
    /\ run[Scheduler].at \in {"done", "failed"}
    /\ LET t == run[Scheduler].tpl IN
       \/ /\ due' = IF t \in OneShot THEN due ELSE due \ {t}
          /\ ran' = IF t \in OneShot THEN ran ELSE ran \ {t}
       \/ /\ "mark" \in Failing
          /\ ran' = ran \ {t}
          /\ UNCHANGED due
    /\ Finish(Scheduler)
    /\ UNCHANGED <<keys, signers, cap, usage, idem, status, batch, txs,
                   sent, unsure, answered, today, unrecorded, ceiling>>

(* The process dies.  A broadcast nothing was yet written about is excused. *)
Crash ==
    /\ run' = [p \in Procs |-> NoRun]
    /\ batch' = {}
    /\ ran' = ran \ {run[Scheduler].tpl}
    /\ unrecorded' = [w \in Wallets |->
          unrecorded[w] + Cardinality({p \in Procs : run[p].at = "record" /\ WalletUsed(p) = w})]
    /\ UNCHANGED <<keys, signers, cap, usage, idem, status, due, txs, sent, unsure, answered, today, ceiling>>

-----------------------------------------------------------------------------
Pipeline(p) ==
    Fail(p) \/ Authorize(p) \/ FindPolicy(p) \/ CheckUsage(p) \/ Broadcast(p) \/ RecordUsage(p)

Next ==
    \/ \E k \in SessionKeys : CreateKey(k) \/ Revoke(k)
    \/ \E w \in Wallets : DeletePolicy(w) \/ (\E c \in 0..MaxCap : UpsertPolicy(w, c))
    \/ NewDay
    \/ \E t \in Tasks : CreateTask(t) \/ ComesDue(t) \/ StartTask(t)
    \/ \E t \in Tasks, s \in TaskStatus \ {"absent"} : SetStatus(t, s)
    \/ \E p \in Procs : Pipeline(p)
    \/ \E h \in Handlers, k \in IdemKeys \cup {None}, b \in Bodies : Begin(h, k, b)
    \/ \E h \in Handlers : Complete(h) \/ Abort(h) \/ Drop(h)
    \/ \E k \in IdemKeys : ForgetKey(k)
    \/ Poll
    \/ MarkRan
    \/ Crash

Spec == Init /\ [][Next]_vars

-----------------------------------------------------------------------------
TypeOK ==
    /\ keys \in [SessionKeys -> KeyStatus]
    /\ signers \in SUBSET SessionKeys
    /\ cap \in [Wallets -> Limit]
    /\ usage \in [Wallets -> Nat]
    /\ idem \in [IdemKeys -> IdemDoc]
    /\ status \in [Tasks -> TaskStatus]
    /\ due \in SUBSET Tasks
    /\ batch \in SUBSET Tasks
    /\ run \in [Procs -> Run]
    /\ txs \in 0..MaxTx
    /\ sent \in [IdemKeys -> SUBSET (Template \X Nat)]
    /\ unsure \in SUBSET IdemKeys
    /\ answered \in [IdemKeys -> SUBSET (Template \X Nat)]
    /\ ran \in SUBSET Tasks
    /\ today \in [Wallets -> Nat]
    /\ unrecorded \in [Wallets -> Nat]
    /\ ceiling \in [Wallets -> Limit]

(* begin's "two concurrent requests with one key can never both proceed to   *)
(* broadcast", and no retry after them does either, while the record lives:  *)
(* one transaction per key, whatever is dropped, crashes or is retried.  Not  *)
(* so once an execution failed after the node took its transaction, on the   *)
(* reply or on the usage record: execute_idempotent aborts it like any other. *)
AtMostOncePerKey ==
    \A k \in IdemKeys \ unsure : \A x, y \in sent[k] : x = y

(* execute_idempotent: "a retried request with the same key and body returns *)
(* the first result".  Every answer under a key is the same transaction, it  *)
(* was broadcast, and it was broadcast for the body that is being answered.  *)
OneAnswerPerKey ==
    \A k \in IdemKeys :
        /\ answered[k] \subseteq sent[k]
        /\ \A x, y \in answered[k] : x = y

(* The spend gate is a check before and a record after.  The process that    *)
(* takes the last transaction the cap allows can be overtaken by each of the *)
(* others once, and transactions whose record was lost are never counted: a  *)
(* wallet overruns its cap by that much in a day and no more.                *)
CapOvershoot ==
    \A w \in Wallets :
        ceiling[w] # None =>
            today[w] < ceiling[w] + Cardinality(Procs) + unrecorded[w]

(* A task is broadcast once for each time it comes due, and never before its  *)
(* next_run_at has passed, though the batch it is taken from was read some    *)
(* tasks ago; unless the process died or the write of mark_ran was lost in   *)
(* between.  mark_ran moves the next_run_at of a Recurring task; that of a    *)
(* TimeOnce task stays where it was, so such a task comes due with every      *)
(* poll, whatever run_task says of it: it runs once in each.                 *)
OnceForEachDue ==
    run[Scheduler].at = "broadcast" => run[Scheduler].tpl \in due \ ran

(* "The ephemeral key's private key IS held server-side (encrypted at rest,   *)
(* see utils::session_key_crypto) - scheduled/conditional execution has no    *)
(* human present to prompt for a signature, so the backend must be able to   *)
(* sign with it directly": SessionKey says so of every key it creates.       *)
SignerHeld == \A k \in SessionKeys : keys[k] = "active" => k \in signers

==============================================================================
