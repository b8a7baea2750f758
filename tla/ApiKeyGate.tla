------------------------------ MODULE ApiKeyGate ------------------------------
(***************************************************************************)
(* The keys of the public API and what it spends on them.  The middleware   *)
(* finds the key of a request, and takes a token from its bucket under a    *)
(* mutex, at the time it read just before; the extractor takes what the     *)
(* middleware found, or else finds the key itself.                          *)
(*                                                                         *)
(* A key stands for a key and an EndpointClass.  A tick is the time in      *)
(* which a bucket regains one token, 60 s by the limit of its class.        *)
(***************************************************************************)
EXTENDS Naturals, FiniteSets

CONSTANTS
    Clients,       \* requests the server works on at a time
    Keys,          \* API keys
    NoKey,         \* none of them
    Limit,         \* requests per minute of the class, the size of a bucket
    IdleTime,      \* the 600 s after which a bucket may be dropped
    MaxBuckets,    \* the 10 000 buckets above which they are
    MaxClock,      \* bound on the clock
    MaxUnmetered   \* bound on the queries that fail in the middleware

ASSUME GateAssumption ==
    /\ IsFiniteSet(Clients)
    /\ NoKey \notin Keys
    /\ Limit \in Nat \ {0}
    /\ IdleTime \in Nat /\ IdleTime >= Limit
    /\ MaxBuckets \in Nat
    /\ MaxClock \in Nat
    /\ MaxUnmetered \in Nat

VARIABLES
    time,       \* in ticks
    keys,       \* the state of each key's document
    buckets,    \* the limiter's buckets
    call,       \* the step each request is about to take
    followed,   \* any one of the keys, for the next three
    window,     \* any one time
    admitted,   \* history: requests admitted on the key since then
    waited,     \* history: the time its requests waited at the mutex since
    unmetered   \* history: middleware queries that failed

gateVars == <<time, keys, buckets, call, followed, window, admitted, waited, unmetered>>

-----------------------------------------------------------------------------
Bucket == [tokens : 0..Limit, last : 0..MaxClock]
ClientStep == {"idle", "resolve", "take", "extract", "serve"}
Client == [at : ClientStep, key : Keys \cup {NoKey}, now : 0..MaxClock, late : BOOLEAN]

NoClient == [at |-> "idle", key |-> NoKey, now |-> 0, late |-> FALSE]

Hang(h) == call' = [call EXCEPT ![h] = NoClient]
GoTo(h, step) == call' = [call EXCEPT ![h].at = step]

Less(a, b) == IF a < b THEN a ELSE b

(* Time since an Instant, none if it is later. *)
Since(now, last) == IF now < last THEN 0 ELSE now - last

GateInit ==
    /\ time = 0
    /\ keys = [k \in Keys |-> "none"]
    /\ buckets = <<>>
    /\ call = [h \in Clients |-> NoClient]
    /\ followed \in Keys
    /\ window \in 0..MaxClock
    /\ admitted = 0
    /\ waited = 0
    /\ unmetered = 0

-----------------------------------------------------------------------------
(* The keys' owner. *)

CreateKey(k) ==
    /\ keys[k] = "none"
    /\ keys' = [keys EXCEPT ![k] = "active"]
    /\ UNCHANGED <<time, buckets, call, followed, window, admitted, waited, unmetered>>

(* A revoked key may be revoked again. *)
RevokeKey(k) ==
    /\ keys[k] # "none"
    /\ keys' = [keys EXCEPT ![k] = "revoked"]
    /\ UNCHANGED <<time, buckets, call, followed, window, admitted, waited, unmetered>>

-----------------------------------------------------------------------------
(* public_api_layer *)

(* Only the one whom create answered knows a key. *)
StartRequest(h, k) ==
    /\ call[h].at = "idle"
    /\ keys[k] # "none"
    /\ call' = [call EXCEPT ![h].at = "resolve", ![h].key = k,
                            ![h].late = (keys[k] = "revoked")]
    /\ UNCHANGED <<time, keys, buckets, followed, window, admitted, waited, unmetered>>

(* A key that is not found active is left for the extractor to reject; so is  *)
(* one whose query failed, which it may find.                                *)
ResolveKey(h) ==
    /\ call[h].at = "resolve"
    /\ \/ /\ keys[call[h].key] = "active"
          /\ call' = [call EXCEPT ![h].at = "take", ![h].now = time]
          /\ UNCHANGED unmetered
       \/ /\ keys[call[h].key] # "active"
          /\ GoTo(h, "extract")
          /\ UNCHANGED unmetered
       \/ /\ unmetered < MaxUnmetered
          /\ unmetered' = unmetered + 1
          /\ GoTo(h, "extract")
    /\ UNCHANGED <<time, keys, buckets, followed, window, admitted, waited>>

(* Mutation of Retained: the buckets in use go. *)
RetainIdle(now) ==
    {k \in DOMAIN buckets :
        \/ Cardinality(DOMAIN buckets) <= MaxBuckets
        \/ Since(now, buckets[k].last) >= IdleTime}

(* "Idle buckets are full buckets; dropping them changes nothing". *)
Retained(now) ==
    {k \in DOMAIN buckets :
        \/ Cardinality(DOMAIN buckets) <= MaxBuckets
        \/ Since(now, buckets[k].last) < IdleTime}

(* Mutation of Refilled: an idle bucket overflows. *)
RefilledPastLimit(k, now) ==
    IF k \in Retained(now)
    THEN buckets[k].tokens + Since(now, buckets[k].last)
    ELSE Limit

(* What check finds in the bucket of a key, perhaps one it just made. *)
Refilled(k, now) ==
    IF k \in Retained(now)
    THEN Less(buckets[k].tokens + Since(now, buckets[k].last), Limit)
    ELSE Limit

Watched(k) == k = followed /\ time >= window
Admit(k) == admitted' = admitted + (IF Watched(k) THEN 1 ELSE 0)

(* KeyRateLimiter::check, once it has the mutex.  A request that read the     *)
(* time first may come second, and sets last back.                           *)
TakeToken(h) ==
    /\ call[h].at = "take"
    /\ LET k == call[h].key
           now == call[h].now
           tokens == Refilled(k, now)
           bucket == [tokens |-> IF tokens > 0 THEN tokens - 1 ELSE 0, last |-> now]
       IN  /\ buckets' = [j \in Retained(now) \cup {k} |-> IF j = k THEN bucket ELSE buckets[j]]
           /\ IF tokens > 0 THEN GoTo(h, "serve") /\ Admit(k)
              ELSE Hang(h) /\ UNCHANGED admitted
           /\ waited' = waited + (IF Watched(k) THEN time - now ELSE 0)
    /\ UNCHANGED <<time, keys, followed, window, unmetered>>

-----------------------------------------------------------------------------
(* ApiKeyAuth *)

(* Mutation of FindKey: a key that exists will do. *)
FindAnyKey(h) ==
    /\ call[h].at = "extract"
    /\ GoTo(h, "serve")
    /\ Admit(call[h].key)
    /\ UNCHANGED <<time, keys, buckets, followed, window, waited, unmetered>>

(* The extractor's own query takes no token. *)
FindKey(h) ==
    /\ call[h].at = "extract"
    /\ IF keys[call[h].key] = "active"
       THEN GoTo(h, "serve") /\ Admit(call[h].key)
       ELSE Hang(h) /\ UNCHANGED admitted
    /\ UNCHANGED <<time, keys, buckets, followed, window, waited, unmetered>>

(* The handler answers; or the request ends before, at a failed query or a    *)
(* disconnect.                                                               *)
EndRequest(h) ==
    /\ call[h].at # "idle"
    /\ Hang(h)
    /\ UNCHANGED <<time, keys, buckets, followed, window, admitted, waited, unmetered>>

TickGate ==
    /\ time < MaxClock
    /\ time' = time + 1
    /\ UNCHANGED <<keys, buckets, call, followed, window, admitted, waited, unmetered>>

GateNext ==
    \/ \E k \in Keys : CreateKey(k) \/ RevokeKey(k)
    \/ \E h \in Clients :
          \/ \E k \in Keys : StartRequest(h, k)
          \/ ResolveKey(h) \/ TakeToken(h) \/ FindKey(h) \/ EndRequest(h)
    \/ TickGate

GateSpec == GateInit /\ [][GateNext]_gateVars

-----------------------------------------------------------------------------
GateTypeOK ==
    /\ time \in 0..MaxClock
    /\ keys \in [Keys -> {"none", "active", "revoked"}]
    /\ DOMAIN buckets \subseteq Keys
    /\ buckets \in [DOMAIN buckets -> Bucket]
    /\ call \in [Clients -> Client]
    /\ followed \in Keys
    /\ window \in 0..MaxClock
    /\ admitted \in Nat
    /\ waited \in Nat
    /\ unmetered \in 0..MaxUnmetered

(* Whenever the window opens, a key is admitted no more than a full bucket,   *)
(* what the bucket regains since, the time its requests waited at the mutex, *)
(* and one for each query the middleware lost: dropped buckets, concurrent   *)
(* checks and times out of order buy nothing else.                           *)
QuotaHolds == admitted <= Limit + Since(time, window) + waited + unmetered

(* A request that begins after its key was revoked is never served, whoever   *)
(* resolves it.                                                              *)
RevokedNotServed == \A h \in Clients : call[h].at = "serve" => ~ call[h].late
===============================================================================
