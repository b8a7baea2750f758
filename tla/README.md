# Txio backend: specifications

TLA+ models of the Txio backend (`api/src`, a Rust service on axum and MongoDB),
the TLC configurations that check them and the TLAPS proofs about them.  Paths
below are relative to `src/api/src` in this repository's layout.

Run from this directory: `tlc -config webhook_lease.cfg MCWebhook`,
`tlapm WebhookDeliveryProofs.tla` (each module named `...Proofs`, and `Counting`).

## 1. The system

One process serves HTTP and runs two background loops.  All durable state is in
MongoDB; a single `update_one`, `insert_one` or `find_one_and_update` is atomic,
and the code uses no transactions.  So every service operation is a sequence of
atomic database calls with other requests, the loops, the TTL monitor of the
database and a crash of the process in between.  A request is dropped at any
await when its 35 s timeout fires or its client goes away (`main.rs:24-28`).

| Component | State | Operations | Hard part |
|---|---|---|---|
| Webhooks (`webhook_service`, two repositories) | subscriptions, delivery rows with status, attempts and `next_attempt_at` | create, delete, rotate_secret, redeliver, dispatch; the worker: claim_due, attempt, retry_or_die | leases, late writes, crashes, lost writes, retries |
| Public API execution (`public_api_service`, `idempotency_repository`) | idempotency records | execute_idempotent, execute, begin, complete, abort | retries against dropped requests, failure after the broadcast |
| Scheduled tasks (`scheduler_worker`, `scheduled_task_*`) | tasks with status, trigger, `next_run_at` | create, set_status, tick, run_task, mark_ran | crash between effect and record, stale batch |
| Spend policy (`spend_policy_*`) | policy and one usage bucket per wallet and day | upsert, delete, check, record | check and record far apart, turn of the day |
| Session keys (`session_key_*`) | keys with an encrypted signer, expiry and revocation | create, revoke, authorize | what the document keeps, revocation against running executions |
| Accounts (`auth_service`, `user_repository`) | user documents with lockout counters and linked identities | register, login, link, update, delete | whole documents written back, lockout in two steps |
| Sessions (`auth_jwt`, `session_repository`) | sessions | create, revoke, revoke all | login against deletion |
| One-time codes (`otp_*`) | one row per address, normally | generate, verify | cooldown, attempt cap, a code used twice |
| Workspaces (`workspace_*`) | workspaces, members, invites with a TTL, comments | invite, accept, change role, remove, delete | find then update, bounds counted beforehand, cascades |
| Collections, requests (`collection_*`) | tree of collections, requests | create, move, delete, execute | stale document written back |
| History (`history_*`) | entries | insert, prune | pruning to a bound |
| API keys, rate limits (`public_api` middleware, `rate_limit`) | keys, token buckets in memory | issue, revoke, take a token | the table at its bound |
| Bridge (`bridge_service`, clients) | orders | quote, create, refresh status | provider and database disagree, answers out of order, what the row keeps |
| Terminal (`terminal_service`) | table of executions in memory | execute, cancel, poll, complete | the table at its cap, exit racing cancel and timeout |
| Administration (`admin_*`) | none | reports, purge of a user | what a purge leaves behind |

The rest is wiring, conversion and I/O: routers, handlers, DTOs, OpenAPI, e-mail,
the Sui RPC proxy and its log, recipe templates, cryptography, configuration.

How they interact: the scheduler and the public API share session keys, spend
policies and usage buckets.  The scheduler is the only caller of
`WebhookService::dispatch` (`scheduler_worker.rs:133`).  Accounts own the documents
of every other component, and the purge of a user removes them.  A workspace's
members decide who may touch its collections, requests and history.

What makes each correct, in a sentence:

* webhooks: a queued delivery is settled once, by the task that holds its lease,
  after a bounded number of attempts, and "delivered" means the receiver said so;
* execution: one transaction per idempotency key, and a wallet's cap is overrun by
  no more than what is in flight;
* scheduler: one broadcast for each due time;
* session keys: the server can sign with the keys it was given;
* accounts and sessions: a deleted account stays deleted and its sessions with it, a
  change of address ends the sessions under the old one;
* codes and lockout: guesses are bounded, whatever interleaves, and so is the number
  of codes sent;
* workspaces: a member stays a member until removed; bounds on invites hold;
* content: nobody adds or deletes by a request during all of which their role was too low, and
  what is deleted leaves nothing that was there when its deletion began;
* bridge: every deposit address is recorded, and a row that says its order is over says how it ended;
* terminal, history, rate limits: tables stay in bounds, keep what is in use and finish
  what they started.

## 2. The modules

| Module | Content | State |
|---|---|---|
| `WebhookDelivery` | subscriptions, dispatch, the delivery queue, the worker's tasks | done |
| `WebhookContract` | what the queue promises a subscriber; implemented by `WebhookDelivery` | done |
| `WebhookDeliveryProofs` | inductive invariant and refinement | done |
| `MCWebhook` | symmetry sets for TLC | done |
| `TxExecution` | public API execution, scheduler, spend policy, idempotency, session keys | done |
| `MCTx` | one key and one wallet for TLC, behaviours in three parts | done |
| `WorkspaceMembers` | invites, membership, deletion of workspaces, TTL of pending rows | done |
| `MCMembers` | symmetry sets for TLC | done |
| `UserAccounts` | registration, sign-in, edits, linking, deletion; sessions | done |
| `OneTimeCodes` | codes of one address: generate, verify, TTL | done |
| `LoginLockout` | wrong passwords, the lock, whole-document writes over it | done |
| `MCSignIn` | the three above for TLC | done |
| `WorkspaceContent` | collections, requests and comments of a workspace, role checks, cascades, purge | done |
| `MCContent` | symmetry set for TLC | done |
| `RequestHistory` | insert and prune, clear | done |
| `BridgeOrders` | quotes, orders at SideShift and in the database, refreshes | done |
| `ApiKeyGate` | keys, the middleware, the extractor, token buckets | done |
| `MCEdges` | the three above for TLC | done |
| `TerminalExecutions` | the table of executions and the task of each command | done |
| `Counting` | lemmas on the sizes of finite sets, which every bound is proved with | done |
| `TxExecutionProofs` | proofs about `TxExecution` | done |
| `MembersProofs` | proofs about `WorkspaceMembers` | done |
| `SignInProofs` | proofs about `UserAccounts`, `OneTimeCodes`, `LoginLockout` and their composition | done |
| `ContentProofs` | proofs about `WorkspaceContent` | done |
| `EdgesProofs` | proofs about `RequestHistory`, `BridgeOrders`, `ApiKeyGate` and their composition | done |
| `TerminalProofs` | proofs about `TerminalExecutions` | done |

`MCSignIn` and `MCEdges` compose modules that share no document and no call within
the model.  A behaviour follows one of the three, chosen in `Init` (`part`), and the
others stutter: every interleaving that could matter is inside one part, and the
product of unrelated state spaces is not explored.  Components that do share
state are one module: scheduler, public API, policies and idempotency in
`TxExecution`; collections, requests, comments, roles and both cascades in
`WorkspaceContent`; documents and sessions in `UserAccounts`.

### WebhookDelivery

A delivery is an event and a subscription.  `row[d]` is its document, reduced to
`status` and `attempts`.  Time is not counted: `due` holds the rows whose
`next_attempt_at` has passed, and `ahead[d]` those that came due before `d`, which
is all that the sort in `claim_due` depends on.  `ComesDue` is the clock.  It may
end a lease at any moment unless `LeaseHolds`, a constant that says whether an
attempt always ends before its lease.

Each permit of the semaphore (`Workers`) holds at most one task, at a step of
`attempt`: `lookup`, `post`, then a step per write that the outcome calls for.

| Action | Code |
|---|---|
| `CreateSub`, `DeleteSub`, `RotateSecret` | `webhook_service.rs:93-138` |
| `Fire`, `InsertRow` | `dispatch`, `:157-181`: the query, then one insert per subscription |
| `Claim` | `claim_due` with the spawn of the task, `webhook_delivery_repository.rs:57-72` |
| `Lookup`, `Post`, `MarkDelivered`, `MarkDead`, `RecordOutcome`, `Deactivate` | `attempt`, `:216-284` |
| `RetryOrDie` | `retry_or_die`, `:286-300`, on the attempts of the document the claim returned |
| `RequestRedelivery`, `Requeue` | `redeliver`, `:149-152`: two queries |
| `Expire` | the TTL index, `webhook_delivery_repository.rs:35-43` |
| `Crash`, `LoseWrite` | the process dies; a write whose error the code drops does not land |

`accepted` is history: the receiver answered 2xx since the row was last queued.
`faults` counts crashes and lost writes.

Abstracted: payloads, signatures, URLs (a check passes or not), the length of a
backoff, the fields of the log (`last_error`, `last_status_code`).

### TxExecution

`run[p]` is the execution that a handler or the scheduler is in.  `Authorize`,
`FindPolicy`, `CheckUsage`, `Broadcast` and `RecordUsage` are the steps of
`PublicApiService::execute` and of `SchedulerWorker::execute`, which are the same;
`Fail` is every error before the node was asked.  Around them are `Begin`,
`Complete`, `Abort`, `Drop` and `ForgetKey` (`execute_idempotent`, the request
timeout and the TTL index) and `Poll`, `StartTask`, `MarkRan` (`tick`, `run_task`).
`CreateKey`, `Revoke`, `UpsertPolicy`, `DeletePolicy`, `CreateTask` and `SetStatus` are the users,
`NewDay` and `ComesDue` the calendar.

`keys` is the status of each session key, `signers` the keys whose document holds the encrypted
private key.  In the code no document does: the mandatory `encrypted_private_key` is under
`#[serde(skip_serializing)]` (`model/session_key.rs:44`), which keeps it out of MongoDB as it does
out of a response.  Every read of a session key fails, so **as the code stands no
execution passes `authorize` and no scheduled task can be created**: `tx_signer` shows it.  The
constant `Serialized` says whether the field is stored, FALSE for the code and TRUE
for the code after the repair that `model/api_key.rs:28-31` tells of API keys.  The other
runs of this component set it to TRUE, for the pipeline behind `authorize` would otherwise never
be entered; their behaviours include those of the code, and the theorems hold for both values.

`Failing` names the calls that may fail after they took effect, or whose write may
be lost: `reply` (the node took the transaction, its answer is lost), `record`
(the usage), `complete`, `abort` and `mark` (`mark_ran`).  In `tx` all of them may.

Dollar limits are left out because both callers pass a value of 0
(`estimate_usd_value`, `public_api_service.rs:130,138`): `max_tx_per_hour`, counted per
UTC day as the code does, is the one limit that can bind.  The price trigger is
left out because `price_condition_met` always answers false.  The chain is
external: a broadcast is one more transaction.  The server has one scheduler, as
`main.rs` starts one; a second API instance would be a second one.

`sent`, `unsure`, `answered`, `ran`, `today`, `unrecorded` and `ceiling` are history that only
properties read.

### WorkspaceMembers

`row[e]` is the membership row of address `e` in one workspace: its `_id`, status,
role and whether `expires_at` is unset, ahead or past.  The unique index on
workspace and address makes it one row at most.  `req[h]` is the database call that
request `h` is about to make, with the `_id` it found earlier.  Of the owner's other
workspaces the model keeps the number, `spare`.

| Action | Code |
|---|---|
| `StartInvite`, `CountPending`, `FindInvite`, `Reissue`, `Insert` | `invite_member` (`workspace_service.rs:220-266`) and `upsert_pending` (`workspace_member_repository.rs:50-99`) |
| `StartAccept`, `FindWorkspace`, `Activate` | `accept_invite`, `:280-296`; `find_pending_by_token_hash` and `activate` |
| `StartRemove`, `StartSetRole`, `StartLeave`, `FindMember`, `Remove`, `SetRole` | `remove_member`, `set_member_role`, `leave`, `:300-324` |
| `StartDelete`, `CountOwned`, `Cascade`, `DropWorkspace`, `DropOther` | `delete_workspace`, `:146-183` |
| `CreateOther` | `create_workspace`, `:68-88` |
| `Lapse`, `Expire` | the clock and the TTL index, `workspace_member_repository.rs:34-38` |
| `Abandon` | an error, the request timeout or a closed connection |

Tokens are left out: a token is in one pending row or in none, so presenting one
is choosing such a row.  An address stands for its user.  A user whose address
changed may be invited twice and hold two rows, of which `leave` deletes one; that
is left to `Accounts`.  Also left out: renaming, comments, and the collections and
history that the cascade removes before the memberships.  `joined` is history: who
accepted which invite, and the row it activated.

### UserAccounts

`users[i]` is the document with `_id` `i`, reduced to its address and whether it holds the
one provider identity of the model; `sessions` are rows with the claims of their
tokens.  `req[h]` is the database call that request `h` is about to make, with the document it
read: `ReadUser` keeps the whole document and `WriteUser` replaces it by `_id`, some calls
later, as `UserRepository::update` does.  A field that no property asks about is not kept, and
editing it is writing the document back as it was read, which is what matters.

| Action | Code |
|---|---|
| `StartRegister`, `FindFree`, `InsertUser`, `StartLogin`, `FindByEmail` | `register_user`, `login_user` (`auth_service.rs:220-311`) |
| `StartGoogle`, `StartGithub`, `StartX`, `FindByIdent`, `ResolveOAuth` | the callbacks, and `oauth_login_or_register`, `github_login_or_register`, `:546-696` |
| `SaveSession` | `record_login_session` (`auth_handler.rs:87-111`), which a login needs to succeed |
| `Logout`, `RevokeSession`, `ExpireSession` | `auth_handler.rs:215-230`, `auth_service.rs:190-202`, the TTL index |
| `UpdateEmail` ... `XUnlink`, `CheckClaim`, `CheckLinked`, `ReadUser`, `WriteUser` | the edits, `auth_service.rs:337-544` and their handlers |
| `EndAllSessions` | `update_user_email`, `auth_handler.rs:926`, by the `sub` of the claims |
| `StartDelete`, `StartAdminDelete`, `EndSessions`, `PurgeUserData`, `DropUser` | `delete_user_by_email`, `admin_service.rs:75-103` |
| `Abandon` | an error, the request timeout or a closed connection |

The three providers differ in what they allow (X registers nobody, Google is never
unlinked); one identity that allows what any of them does stands for all three.
`ended` and `disturbed` are history.

### OneTimeCodes and LoginLockout

`otps` are the rows of one address in record order: the index on `email` is not
unique, and a query by address meets the first row.  That is how MongoDB scans an
index of equal keys, and it is external to the code.  `SeekOld` ... `UpsertCode` are
`generate_otp`, `FindCode` ... `AcceptCode` are `verify_otp`, one database call each;
the calls whose failure the code drops (`let _ =`, `if let Ok`) may fail (`faults`).  An accepted
code deletes the row and with it the cooldown.  `followed` is one code chosen
in `Init`, so that bounds on it are bounds on each.

`account` is the count and the lock of one user document; locks are numbered, and
`lapsed` is the last that ended.  `Bump` and `Freeze` are the two updates of
`record_failed_login_attempt`, `Forget` is `reset_login_attempts`, `WriteWhole` is any edit that writes
the document back as it was read, `WriteReset` is `reset_password_with_otp`.  The end of a
lock does not reset the count, so that the next wrong password locks again, as in the
code.  `spoils` bounds lost calls and stale writes, and `slack` counts the guesses
they give away.

### WorkspaceContent

`docs[i]` is a collection, a saved request (`in` its collection) or a comment of one
workspace, with its creator.  The calls of `authorize_collection` and
`WorkspaceAccess::require` are steps (`FindRequest`, `FindCollection`, `FindWorkspace`,
`CheckRole`), and the write follows some calls later; `ChangeRole` is what
`WorkspaceMembers` does meanwhile.  `SweepCollection` and `Drop` are `delete_collection`;
`ListCollections` ... `DropWorkspace` are `delete_workspace`; `PurgeRequests`, `PurgeCollections`,
`PurgeWorkspaces` are `purge_user_data`, in the order of its list.  `swept` and `purged` are
history: the newest document when a cascade began to sweep, and what a purge took.

### RequestHistory, BridgeOrders, ApiKeyGate

A history entry is the order of its `executed_at`.  `DateEntry` reads the clock,
`InsertEntry` inserts, `FindStale` and `DeleteStale` are the two calls of the prune.

`orders` is the status in the row of each `provider_order_id`, `remote` the status at
SideShift, which moves on its own (`MoveShift`, external).  `Second` is whom
`get_best_quote` asks after an error, in `bridge_service.rs:34-46` and
`offramp_service.rs:23-31`; the errors of each client are sets.  `CreateShift` and
`InsertOrder` are the halves of `execute_order`, `FindOrder`, `FetchStatus`, `WriteStatus` those of
`get_order_status`.  `stamped` are the rows whose `updated_at` is a BSON date.  `insert` stores a plain
chrono date as a string and reads it as one (`model/bridge_order.rs:42-43`), but `update_status` sets a BSON
date (`bridge_order_repository.rs:67`): the first write of a status makes the row unreadable, and
`FindOrder` ends in an error from then on.  Only refreshes that found the row before may still
write it.

`ResolveKey`, `TakeToken` and `EndRequest` are `public_api_layer`; `FindKey` is the extractor,
which resolves a key itself when the middleware has not, and takes no token.  A
tick is the time in which a bucket regains a token.  The time is read before the mutex
is taken, so checks may come out of order.  `followed` and `window`, chosen in `Init`, make
`QuotaHolds` a statement about every key and every interval.

### TerminalExecutions

`executions` is the table, by number in order of `created_at`: `Create` makes and dates the record, `Register`
takes the write lock, evicts the oldest by date of those that have ended, and inserts, so that records may
enter in another order than they are dated.  `task[i]` is what the spawned
task of command `i` does next, `signal[i]` its cancel channel, whose sender is in the
record, so that an eviction would close it.  `child` and `pipes` are the process, external: it may
exit, hang, or leave a process behind that holds its output (`pipes`), which
`join_output` waits for without a timeout.  The table is only in memory.

## 3. What TLC checks

| Run | Instance | Checks | Distinct states |
|---|---|---|---|
| `webhook_lease` | 2 events, 1 subscription, 2 permits, 1 fault, 1 retry, leases hold | `TypeOK`, `OneWriter`, `AttemptsBounded`, `KeepsContract` | 900 000 |
| `webhook_queue` | 2 events, 1 permit, 1 fault, 1 rotation, leases may be overrun | `EveryRowSettles` | 169 000 |
| `tx` | all of `Failing` may fail, 3 transactions; by part: 2 handlers, 2 bodies, 1 idempotency key; 2 handlers and 1 task, cap up to 1; 1 recurring and 1 one-shot task | `TypeOK`, `AtMostOncePerKey`, `OneAnswerPerKey`, `CapOvershoot`, `OnceForEachDue` | 563 000 |
| `tx_signer` | 1 key, `Serialized = FALSE` | `SignerHeld`, violated | |
| `members_invites` | 2 requests, 3 addresses, 1 role, 1 open invite allowed, 3 rows | `TypeOK`, `PendingBounded`, `InviteSingleUse` | 1 100 000 |
| `members_expiry` | 2 requests, 1 address, 2 roles | `OnlyPendingExpires`, violated | |
| `members_last_workspace` | 2 requests, 2 workspaces | `AlwaysAWorkspace`, violated | |
| `signin` | 2 requests; 2 addresses, 2 accounts, 2 sessions; 3 codes, 4 instants, a cooldown, validity and life of 2, 1 fault; 2 wrong passwords lock, 2 locks, 1 spoil | `TypeOK`, `DeletionEndsSessions`, `StaleSessionsBounded`, `NoResurrection`, `GuessesBounded`, `UsesBounded`, `LiveCodesBounded`, `ResendBounded`, `LockoutHolds` | 2 200 000 |
| `content` | 2 requests, the owner and 1 member, 2 documents | `TypeOK`, `OrphansAreLate`, `DeletedWorkspaceIsEmpty`, `WritesAuthorized` | 1 800 000 |
| `edges` | 2 requests; 4 entries with a cap of 2, 1 cut; 1 quote of each bridge, 2 shifts, 1 loss; 2 keys, 1 token, 1 bucket, 3 instants, 1 failed query | `TypeOK`, `HistoryBounded`, `PrunesOldest`, `QuoteRefusedByAll`, `ShiftsTracked`, `EndsAsReported`, `QuotaHolds`, `RevokedNotServed` | 1 800 000 |
| `edges_orders` | that of `edges` | `OrderReadBack`, violated | |
| `terminal` | 3 commands, a table of 1 | `TypeOK`, `MapBounded`, `RunningKept`, `EndedOnce`, `EveryCommandEnds` | 142 000 |

What the properties say:

* `OneWriter`: the verdicts are written by `_id` alone, so nothing in the database
  keeps two tasks apart.  While leases hold, a row that a task still has to write is
  in flight for that task only, and its `attempts` are those the task will judge by.
* `AttemptsBounded`: a delivery is attempted once more than `BACKOFF_SECONDS` has
  entries, and one more for each fault: an abandoned attempt was counted by its
  claim and never judged.
* `KeepsContract`: `WebhookContract` under the mapping "pending and in flight are
  open".  A finished delivery is reopened by a redelivery only, and one shown as
  delivered was accepted since it was last queued.
* `EveryRowSettles`: every queued row is delivered, dead or aged out in the end.  It
  does not need leases to hold.
* `AtMostOncePerKey`: one transaction for each idempotency key while its record
  lives, whatever is dropped, crashes or is retried.  Excused (`unsure`) is a key of which an
  execution failed after the node took its transaction, on the reply or on the usage
  record: `execute_idempotent` aborts it like any other failure, and the released key
  lets a retry broadcast again (see the behaviours listed below).
* `OneAnswerPerKey`: whoever is answered under a key is told the same transaction,
  and it was broadcast for the body they sent.
* `CapOvershoot`: the check and the record are steps apart, so a cap is not a cap.  It is
  overrun by fewer transactions than there are executions at a time, plus those
  whose record was lost, and no more.
* `OnceForEachDue`: a task is broadcast once for each time it comes due, and never before
  its `next_run_at` has passed, though the batch was read some tasks ago.  A crash between
  broadcast and `mark_ran`, and a lost `mark_ran`, are excused.  A recurring task comes due when
  its new `next_run_at` passes.  `mark_ran` leaves that of a `TimeOnce` task in the past, so such a task
  comes due with every poll, and the property says that it runs once in each, no more.
* `PendingBounded`: `invite_member` counts the open invites a few calls before
  it adds one, so `MAX_PENDING_INVITES` is exceeded by the requests in progress less
  one, and no more, whatever expires, is accepted, removed or sent again.
* `InviteSingleUse`: an invite seats its row once, and never one that was revoked and
  issued again between the look at the token and the update.

* `NoResurrection`: an edit that read a user document before its deletion writes it
  whole after, and does not bring it back.
* `DeletionEndsSessions`: of an account that is gone, no session is left that was there
  when its deletion ended them.  A login in flight may still save one after: such a
  session finds no document and is of no use, and the TTL index removes it.
* `StaleSessionsBounded`: sessions end after the address is stored, so those that carry the
  old one are of logins that had found the account already, one for each other
  request.  It is said of each account.  Excused are requests cut off between the two
  calls, and stale documents that take the address back (`disturbed`).
* `GuessesBounded`, `UsesBounded`, `LiveCodesBounded`, `ResendBounded`: wrong guesses at a code, uses
  of a code, codes alive at a time and codes sent before the first cooldown ends each
  exceed their limit by what overlapping requests and lost writes account for, and no
  more.  An accepted code takes its row away and lets each request send another, which
  the bound on codes sent counts.
* `LockoutHolds`: the same for wrong passwords between two right ones or ends of a
  lock.  Stale whole-document writes erase counts and lift locks, and the bound says by
  how much: what they erased, and one guess per request for a lifted lock.
* `OrphansAreLate`, `DeletedWorkspaceIsEmpty`: what a cascade leaves behind was
  inserted after it began, wherever it stops.
* `WritesAuthorized`: no document is inserted or deleted by a request during all of which the role
  of its user was too low.  The role is not asked again at the write, so a role that was high enough
  at some point since the request began is enough; updates are not covered.
* `HistoryBounded`, `PrunesOldest`: entries exceed the cap by the prunes under way or cut off
  at most, and a prune removes nothing that is among the newest recorded.
* `QuoteRefusedByAll`: a client is refused a quote only once every provider that the request
  allows has refused.
* `ShiftsTracked`: an order at SideShift without a row is about to be inserted or was lost
  between the two calls.
* `EndsAsReported`: a row that tells the user that the order is completed, refunded or expired says
  how it did end at SideShift, whatever refreshes overlap.  A row that does not say so may be
  behind for ever, which is what `edges_orders` shows.
* `QuotaHolds`: in any interval a key is admitted a full bucket, what the bucket regains, the
  time its requests waited at the mutex, and one for each failed query: evicted buckets
  give nothing away.
* `RevokedNotServed`: a request that begins after its key was revoked is never served.
* `MapBounded`, `RunningKept`: the table exceeds its cap only by commands that ran at one time,
  and no eviction takes one that runs.
* `EndedOnce`, `EveryCommandEnds`: one final state, and one in the end for every command,
  unless a process left behind holds its output for ever.

Four runs show a disagreement between the code and what it says of itself:

1. `tx_signer`: the document of a session key does not hold the encrypted private key
   (`model/session_key.rs:44`), though `model/session_key.rs:15-18` says that it is held server-side.
   The document lacks a mandatory field and cannot be read again.
2. `members_expiry`: `upsert_pending` renews an invite by `_id` without asking whether it
   is pending still.  If it was accepted meanwhile, the active member now has an
   expiry date and the TTL index deletes the membership.
3. `members_last_workspace`: two deletions of different workspaces each count two.
4. `edges_orders`: `update_status` writes a date that the row cannot be read with
   (`bridge_order_repository.rs:67`).  The status of an order is refreshed once and never
   again, though `model/bridge_order.rs:26-27` says that the row mirrors what the provider reports.
   `bridge_offramp_repository.rs:55` has the same update, which no service calls yet.

The models also have these behaviours, for which no run is kept:

* `webhook_delivery_repository.rs:74-125`: `mark_delivered`, `mark_retry` and `mark_dead` do not
  ask whether the row is still the task's, so with `LeaseHolds = FALSE` an attempt that
  outlives its lease reopens or kills a delivered row;
* `public_api_service.rs:100-103,138`: a usage record that fails after the broadcast returns an error, and
  the key is released as though nothing had been sent, though `idempotency_repository.rs:99` says
  "failed before anything was broadcast".  It waits behind the session keys of `tx_signer`;
* `scheduled_task_repository.rs:90`: a `TimeOnce` task is broadcast again by every poll after its time, though
  `scheduler_worker.rs:119` says "one-shot: no further run".  It waits behind them too, as no task can be
  created; `OnceForEachDue` is what holds instead;
* `spend_policy_service.rs:85`: `max_tx_per_hour` is exceeded by executions that check before
  either records; `CapOvershoot` is what holds instead;
* `auth_service.rs:469`: two accounts that link one identity at the same time both get it, as
  no index keeps it unique, and a link is refused by comparing addresses, not `_id`s;
* `admin_repository.rs:12-21,125-141`: a purge removes rows by their user, so requests that others
  saved in a purged collection stay behind, and a workspace goes without its cascade;
* `workspace_service.rs:141-143`: the deletion of a workspace removes its history entries of the
  caller only (history is not part of `WorkspaceContent`).

### Bounds, and why they are enough

Two permits and two events are the least with which tasks interfere on one row
and rows compete for one claim.  One subscription suffices in the runs: rows of
different subscriptions share nothing but the queue, which two events
exercise.  One retry (`BackoffLen = 1`; the code has more) tells the first, a middle
and the last attempt apart together with the fault.  One fault (`MaxFaults`)
allows a crash or a lost write anywhere.  Rotation adds only the difference
between a subscription with a secret and one without, which `webhook_lease` gets from
`Init` and a new subscription, so `MaxRotations` is 0 there and 1 in `webhook_queue`.
`webhook_queue` uses no symmetry, as liveness requires.

A behaviour of `tx` follows one question (`part` of `MCTx`) and leaves out what only
multiplies states: under an idempotency key there are no tasks and no policy; on a wallet
that keeps a cap the requests have no key, the session key is not revoked and the task not
paused; the scheduler with its two tasks has no request beside it.  Two requests and a
task are three executions on one wallet, and with three transactions (`MaxTx`) a cap
of 1 is overrun by as many as `CapOvershoot` allows, and one of 0 would be by one more than
it allows if anything passed.  The scheduler has
a task of either kind in one batch, and room for each to run again.  With one key and two
bodies there are the first request, its retry, and a different request under the same
key.  In `members_invites` two requests
and a limit of one open invite reach two of them, and a third address would show a third;
three rows (`MaxRows`) let an address be removed and invited again, and one other
workspace (`MaxSpare`) is what deletion needs.  Deadlock is not checked,
since a model stops where its bounds do and where users have no more to ask.

Two requests at a time are the least with which one overtakes another, and each bound
that counts requests (`Cardinality(Requests)` and so on) is reached with two.  In `signin` two
accounts are the owner of an address and one who takes it, or one deleted and one new;
two sessions are one ended and one late; three codes are two at once and a later one; four
instants let a cooldown, the validity and the time to live pass; two locks let one
lapse or be lifted and one follow.  In `content` two documents are a collection and a
request in it, or one swept and one late.  In `edges` four entries with a cap of two leave two to
prune, by two prunes; two orders with one quote tell an order from its quote; one token,
one bucket and two keys evict at every second check, and three instants give an interval with time before and
after.  `IdleTime >= Limit` is the code's 600 s against a bucket that fills in 60.  In `terminal` three
commands and a table for one fill it, exceed it and evict from it.

### Fairness

`WebhookDelivery` and `TerminalExecutions` state any.  In the first, the clock passes (`ComesDue`), the loop claims
whenever a permit is free and a row is due (it polls without end,
`webhook_service.rs:189-213`), and a spawned task is polled to its end, its HTTP
client having a timeout.  All of it is weak fairness.  Nothing is assumed of users,
receivers, insertions or faults.  The claim's fairness is for the loop and not
for a row: that a row is not passed over for ever is due to the sort, which the
mutation `ClaimUnsorted` shows.  In the second, the runtime polls each spawned task, and
the sleep of `COMMAND_TIMEOUT` ends: weak fairness of each task's `Run`.  Nothing is assumed of
the commands or of those who cancel them.

Next to an action stand mutated forms of it (`ClaimUnsorted`, `DropReleasingKey`
and so on): plausible bugs, each of which breaks one property.  They are not part
of `Next`.

## 4. What is proved

Every safety property of the passing runs is proved of its specification, for every
value of the constants: any number of requests, users, documents, codes and instants,
any cap, limit and length of time.  One theorem has a hypothesis of its own, because the
property is false without it: `LeaseHolds` for the contract of the queue.  Otherwise nothing is assumed but the `...Assumption` that each
module states of its own constants: sets of actors are finite, counters and limits are
natural numbers, positive where the code's constant is, a cooldown is no longer than a
code is valid and that no longer than its row lives, and an idle bucket is evicted only after
the time in which it fills.  TLC checked the invariants of webhooks, codes and accounts on
an instance first.

Each bound says that something is exceeded by what is under way and no more, so each
invariant adds up what has happened and what the requests in progress may still make
happen.  What a step adds to one it takes from the other: `Counting` has the lemmas on
finite sets that this needs (a part is no larger than the whole, two sets that differ in one
member differ by one).  In each proof, steps are first summarised by their effect (which
request moves, and what it leaves alone), then taken one action at a time.

### WebhookDeliveryProofs

`WebhookDeliveryProofs`, for every set of events, subscriptions and permits, every
`BackoffLen`, `MaxFaults` and `MaxRotations`, from `WebhookAssumption` alone (the constants
have their types, and `NoDelivery` is no delivery):

| Theorem | Statement |
|---|---|
| `Invariance` | `Spec => []IInv` |
| `TypeCorrect` | `Spec => []TypeOK` |
| `OneWriterHolds` | `Spec => []OneWriter` |
| `AttemptsBoundedHolds` | `Spec => []AttemptsBounded` |
| `ContractHolds` | `Spec => KeepsContract`, assuming `LeaseHolds` |

The invariant.  `OneWriter` is not inductive: nothing in it keeps a second task
from claiming the row.  `LeaseInv` adds that an owned row is not due, which the claim
establishes and `ComesDue` respects while the lease holds; a requeue cannot break
it, because it needs a finished row and an owned row is in flight.  For
`AttemptsBounded` it matters which rows have attempts to spare: `BoundInv` says that a
pending row has at most `BackoffLen`, since `retry_or_die` compares before it sends
a row back, and that an in-flight row nobody owns was abandoned at the cost of a
fault.  `DueInv` (due rows are claimable) and `DispatchInv` (a row is absent until its
event was dispatched, which happens once) keep insertions off living rows.
`AcceptInv` carries the receiver's answer from the request to the write, which is
what the contract asks of `Deliver`.  `HoldsInv` gives every busy permit a delivery.
The proof that a step keeps the invariant takes one action at a time; the steps
of `attempt` are first summarised by their effect on rows (`AttemptEffect`).  The
refinement maps each step that changes what the log shows to the contract action
of that row, and the others to a stutter.  TLC checks `IInv` too, on the instance of
`webhook_lease` with either value of `LeaseHolds`.

The refinement is stated with `Contract == INSTANCE WebhookContract WITH ...` in
`WebhookDelivery`; `KeepsContract` is its specification, checked by TLC and proved.

### TxExecutionProofs

| Theorem | Statement |
|---|---|
| `Invariance` | `Spec => []IInv` |
| `TypeCorrect` | `Spec => []TypeOK` |
| `AtMostOncePerKeyHolds` | `Spec => []AtMostOncePerKey` |
| `OneAnswerPerKeyHolds` | `Spec => []OneAnswerPerKey` |
| `CapOvershootHolds` | `Spec => []CapOvershoot` |
| `OnceForEachDueHolds` | `Spec => []OnceForEachDue` |

They hold for either value of `Serialized`: with FALSE, that of the code, no execution gets past
`authorize`, and with TRUE, once that is repaired, all of them can.

`KeyInv` ties each key to one handler: the record of a key somebody holds is still that claim,
and a record with a result names a transaction that was broadcast.  `OnceInv` adds,
unless an execution under it failed after the node took its transaction, that a key whose holder has not
broadcast, or that nobody holds and has no record, has sent nothing; it is why a
released key may be claimed again.  `CapInv` has two sums for each wallet: what was
broadcast today is in the usage, about to be, or lost; and the usage with those
that passed the gate stays below the highest cap and the number of processes.
`TaskInv` says that the task about to be broadcast is due, is not in what is left of the batch, and was
not broadcast since it came due; of a one-shot task this is since the poll that the batch is from.

### MembersProofs

`TypeCorrect`, `PendingBoundedHolds` and `InviteSingleUseHolds`, from `MembersInvariance`.
`CountInv` counts addresses, not requests: those with an open invite and those that a
request past the count is about to invite.  An address that is in both adds nothing, which
is what a renewed invite does.  `SeatInv` says that an `_id` is of one row and that a row somebody
joined is open no more.

### ContentProofs

| Theorem | Statement |
|---|---|
| `ContentInvariance`, `TypeCorrect` | `Spec => []ContentInv`, `Spec => []TypeOK` |
| `OrphansAreLateHolds` | `Spec => []OrphansAreLate` |
| `DeletedWorkspaceIsEmptyHolds` | `Spec => []DeletedWorkspaceIsEmpty` |
| `WritesAuthorizedHolds` | `Spec => WritesAuthorized` |

`Late` follows a cascade: which collections it has swept by now, and that what is in them is
newer than its beginning.  `Named` says that a document a request named still has the kind it
had, or is gone: an `_id` is not used again, so that a request late in its calls cannot meet
another document.  `Ranked` and `Checked` carry the rank from the check to the write.

### EdgesProofs

| Theorem | Statement |
|---|---|
| `HistoryInvariance`, `HistoryBoundedHolds`, `PrunesOldestHolds` | `HistorySpec => [](HistoryInv /\ HistoryTypeOK)`, `[]HistoryBounded`, `PrunesOldest` |
| `GateInvariance`, `QuotaHoldsAlways`, `RevokedNotServedHolds` | `GateSpec => []GateInv`, `[]QuotaHolds`, `[]RevokedNotServed` |
| `BridgeInvariance`, `QuoteRefusedByAllHolds`, `ShiftsTrackedHolds`, `EndsAsReportedHolds` | `BridgeSpec => []BridgeInv`, `[]QuoteRefusedByAll`, `[]ShiftsTracked`, `[]EndsAsReported` |
| `PartsFollowed`, `TypeCorrect` | `Spec` of `MCEdges` implies the three; `Spec => []TypeOK` |

`HistoryBounded` needs more than a count of prunes, because two of them may have read the
same stale entries: `DebtInv` says of every set of prunes about to delete that, were those to
end first, what they leave beyond the cap is owed by insertions whose prune is still to
come or was cut off since they looked.  `QuotaInv` adds what was admitted, what the bucket would
give at this time, and the requests the middleware lost.  A bucket is evicted only after it
is full again, so an eviction leaves the sum as it is.  `ReportInv` says that
neither a row nor an answer that a refresh is about to write speaks of an end that SideShift has not
come to: an order that has ended there stays as it is, so an old answer may be behind and not wrong.

### TerminalProofs

`Invariance`, `TypeCorrect`, `MapBoundedHolds`, `RunningKeptHolds`, `EndedOnceHolds`.  `TaskInv` ties the
task of a command to its record: it is under way exactly while the table has it as running,
and a record in the table was registered once.
`MapInv` is the count.

### SignInProofs

| Theorem | Statement |
|---|---|
| `LockoutInvariance`, `LockoutHoldsAlways` | `LockoutSpec => []LockoutInv`, `[]LockoutHolds` |
| `CodesTypeCorrect`, `CodesInvariance` | `CodesSpec => []CodesTypeOK`, `[]CodesInv` |
| `GuessesBoundedHolds`, `UsesBoundedHolds`, `LiveCodesBoundedHolds`, `ResendBoundedHolds` | `CodesSpec => []GuessesBounded` and so on |
| `AccountsInvariance`, `AccountsTypeCorrect` | `AccountsSpec => [](AccountsTypeOK /\ AccountsNamed)` and its first half |
| `NoResurrectionHolds` | `AccountsSpec => NoResurrection` |
| `DeletionEndsSessionsHolds` | `AccountsSpec => []DeletionEndsSessions` |
| `StaleSessionsBoundedHolds` | `AccountsSpec => []StaleSessionsBounded` |
| `PartsFollowed`, `TypeCorrect` | `Spec` of `MCSignIn` implies the three; `Spec => []TypeOK` |

`LockoutBound` has two forms: while the account is open each guess is counted, about to be, or
about to lock it; while it is locked only those judged before are to come.  `GuessesInv` is the
same for the first row of a code.  `UsesInv` and `LiveInv` count the requests about to accept the
code that is followed and about to store a row.  `ResendInv` holds while the first cooldown lasts,
when no row can expire and only an accepted code clears the way for another.

The types of `UserAccounts` need `AccountsNamed`: that what a request is about to use was
found before, and that an account not made yet has no document.  `EndedInv` says that a deletion
past the end of the sessions has left its mark, and that a session that is there is newer
than the mark.  `StaleInv` counts, for each account, late sessions together with the logins
that have found the account under its old address and not saved (`Missed`).  Saving moves one
from the second to the first, and the request that changed the address is in neither.

### What the proofs found

* `StaleSessionsBounded` used to count the late sessions of all accounts together, which two
  changes of address break; it is now said of each account.
* `ResendBounded` used to allow a fixed number of codes; an accepted code takes its row away
  and every request may send another, so the bound now grows with the codes accepted.  The
  cooldown of the run was too short to show it and is now 2.
* The type of an order's id (`Trade` in `BridgeOrders`) left out those made from quotes beyond
  `MaxShifts`: it now includes `QuoteIds`.
* `OnceForEachDue` did not say that a task is due when it is broadcast; it does now, which is
  what its invariant needs of the batch.
* Constants need to allow what `Init` contains: a first session (`MaxLogins > 0`) and a request
  (`Requests # {}`) in `UserAccounts`.

### What is only model-checked

`EveryRowSettles` and `EveryCommandEnds`: liveness under fairness is out of the prover's reach.
The four violated properties of section 3 are false, and the counterexample is what shows it.
`MCTx`, `MCMembers` and `MCContent` are proved about as the modules they extend: they add a
symmetry set, constants and, in `MCTx`, conjuncts that leave steps out, and no behaviour.  No module declares a RECURSIVE operator.

## 5. What is not modelled, and next steps

`PROJECT.json` lists every component with its status, and every hazard with the
properties that cover it or why none does.

Not modelled:

* the Sui RPC proxy, its log and recipe templates: one call or one document at a time;
* e-mail, cryptography, configuration, routers, DTOs, OpenAPI, start-up: conversion and I/O;
* reports of administrators: read-only; the reserved admin addresses and the promotion script;
* in workspaces: renaming, and a user with two addresses, who may be invited twice; in
  collections: those from before workspaces existed, and `delete_with_session`, which nothing calls;
* dollar limits, price triggers and a second API instance
  (section 2, `TxExecution`);
* in the terminal: whose execution it is (each handler checks it first), and reading one;
* in the rate limits: the endpoint classes, which have a bucket each, and fractions of a
  token; the limiter per IP address is a library's.

Next: the abstract specifications of the other components, with the refinement proved as for
webhooks, where there is one to state that says more than the invariants do: an idempotency
key as a register that is written once, and the table of executions as a bounded cache that
evicts only what has ended.
