----------------------------- MODULE LoginLockout -----------------------------
(***************************************************************************)
(* The lockout of one account: login_user counts the wrong passwords in the *)
(* user document, sets locked_until in a call of its own when the count     *)
(* reaches its limit, and clears both after a right one.  Other requests    *)
(* meanwhile write the whole document back as they read it some calls       *)
(* before, and a reset of the password by a code clears the lockout.        *)
(*                                                                         *)
(* A lock is the serial number of the guess that set it, so that a later    *)
(* one ends later.  A request ends within REQUEST_TIMEOUT, long before a    *)
(* lock it is about to set.                                                 *)
(***************************************************************************)
EXTENDS Naturals, FiniteSets

CONSTANTS
    Callers,       \* requests about the account the server works on at a time
    MaxAttempts,   \* MAX_FAILED_ATTEMPTS
    MaxLocks,      \* bound on the locks ever set
    MaxSpoils      \* bound on calls lost unnoticed and on stale writes

ASSUME LockoutAssumption ==
    /\ IsFiniteSet(Callers)
    /\ MaxAttempts \in Nat \ {0}
    /\ MaxLocks \in Nat
    /\ MaxSpoils \in Nat

VARIABLES
    account,   \* failed_login_attempts and locked_until of the document
    locks,     \* locks made so far; the newest one's number
    lapsed,    \* every lock up to this one has ended
    login,     \* the call each request is about to make
    guesses,   \* history: wrong passwords judged since the count was cleared
               \* or the lock ended
    spoils,    \* history: calls lost and stale writes so far
    slack      \* history: guesses that those gave away since then

lockoutVars == <<account, locks, lapsed, login, guesses, spoils, slack>>

-----------------------------------------------------------------------------
Lock == 0..MaxLocks
Account == [attempts : Nat, lock : Lock]
CallStep == {"idle", "find", "bump", "freeze", "forget", "readWhole", "writeWhole",
             "readReset", "writeReset"}
Call == [at : CallStep, lock : Lock, doc : Account]

Untouched == [attempts |-> 0, lock |-> 0]
NoCall == [at |-> "idle", lock |-> 0, doc |-> Untouched]

(* A request finds the account locked out. *)
LockedOut == account.lock > lapsed

CallNext(h, step) == login' = [login EXCEPT ![h].at = step]
Return(h) == login' = [login EXCEPT ![h] = NoCall]

Forgiven == guesses' = 0 /\ slack' = 0

Spoil(n) ==
    /\ spoils < MaxSpoils
    /\ spoils' = spoils + 1
    /\ slack' = slack + n

LockoutInit ==
    /\ account = Untouched
    /\ locks = 0
    /\ lapsed = 0
    /\ login = [h \in Callers |-> NoCall]
    /\ guesses = 0
    /\ spoils = 0
    /\ slack = 0

-----------------------------------------------------------------------------
(* login_user *)

StartCall(h, step) ==
    /\ login[h].at = "idle"
    /\ CallNext(h, step)
    /\ UNCHANGED <<account, locks, lapsed, guesses, spoils, slack>>

(* A locked account rejects every password and counts none of them. *)
FindAccount(h) ==
    /\ login[h].at = "find"
    /\ IF LockedOut THEN Return(h) /\ UNCHANGED guesses
       ELSE \/ CallNext(h, "bump") /\ guesses' = guesses + 1
            \/ /\ IF account = Untouched THEN Return(h) ELSE CallNext(h, "forget")
               /\ UNCHANGED guesses
    /\ UNCHANGED <<account, locks, lapsed, spoils, slack>>

(* Mutation of Bump: the limit is off by one. *)
BumpExclusive(h) ==
    /\ login[h].at = "bump"
    /\ account' = [account EXCEPT !.attempts = @ + 1]
    /\ IF account.attempts + 1 > MaxAttempts
       THEN /\ locks < MaxLocks
            /\ locks' = locks + 1
            /\ login' = [login EXCEPT ![h].at = "freeze", ![h].lock = locks + 1]
       ELSE Return(h) /\ UNCHANGED locks
    /\ UNCHANGED <<lapsed, guesses, spoils, slack>>

(* record_failed_login_attempt: $inc, and the count it made decides. *)
Bump(h) ==
    /\ login[h].at = "bump"
    /\ account' = [account EXCEPT !.attempts = @ + 1]
    /\ IF account.attempts + 1 >= MaxAttempts
       THEN /\ locks < MaxLocks
            /\ locks' = locks + 1
            /\ login' = [login EXCEPT ![h].at = "freeze", ![h].lock = locks + 1]
       ELSE Return(h) /\ UNCHANGED locks
    /\ UNCHANGED <<lapsed, guesses, spoils, slack>>

Freeze(h) ==
    /\ login[h].at = "freeze"
    /\ account' = [account EXCEPT !.lock = login[h].lock]
    /\ Return(h)
    /\ UNCHANGED <<locks, lapsed, guesses, spoils, slack>>

(* reset_login_attempts, which also lifts a lock set since. *)
Forget(h) ==
    /\ login[h].at = "forget"
    /\ account' = Untouched
    /\ Forgiven
    /\ Return(h)
    /\ UNCHANGED <<locks, lapsed, spoils>>

-----------------------------------------------------------------------------
(* Requests that write the whole document back. *)

(* The document read is kept; reset_password_with_otp clears the lockout in  *)
(* its copy.                                                                 *)
ReadAccount(h) ==
    /\ \/ /\ login[h].at = "readWhole"
          /\ login' = [login EXCEPT ![h].at = "writeWhole", ![h].doc = account]
       \/ /\ login[h].at = "readReset"
          /\ CallNext(h, "writeReset")
    /\ UNCHANGED <<account, locks, lapsed, guesses, spoils, slack>>

Erased(doc) == IF account.attempts > doc.attempts THEN account.attempts - doc.attempts ELSE 0

Lifts(doc) == LockedOut /\ doc.lock <= lapsed

(* A stale write takes back what was counted since, and may lift a lock: one *)
(* more guess for each request, before the next lock.                        *)
WriteWhole(h) ==
    /\ login[h].at = "writeWhole"
    /\ LET doc == login[h].doc
       IN  /\ account' = doc
           /\ IF Erased(doc) > 0 \/ Lifts(doc)
              THEN Spoil(Erased(doc) + (IF Lifts(doc) THEN Cardinality(Callers) ELSE 0))
              ELSE UNCHANGED <<spoils, slack>>
    /\ Return(h)
    /\ UNCHANGED <<locks, lapsed, guesses>>

WriteReset(h) ==
    /\ login[h].at = "writeReset"
    /\ account' = Untouched
    /\ Forgiven
    /\ Return(h)
    /\ UNCHANGED <<locks, lapsed, spoils>>

-----------------------------------------------------------------------------
(* LOCKOUT_MINUTES pass for the oldest lock; the count stays.  *)
LapseLock ==
    /\ lapsed < locks
    /\ \A h \in Callers : login[h].lock # lapsed + 1
    /\ lapsed' = lapsed + 1
    /\ IF account.lock = lapsed + 1 THEN Forgiven ELSE UNCHANGED <<guesses, slack>>
    /\ UNCHANGED <<account, locks, login, spoils>>

(* A call fails, and login_user ignores it, or the request is cut off. *)
DropCall(h) ==
    /\ login[h].at # "idle"
    /\ IF login[h].at \in {"bump", "freeze"} THEN Spoil(1) ELSE UNCHANGED <<spoils, slack>>
    /\ Return(h)
    /\ UNCHANGED <<account, locks, lapsed, guesses>>

LockoutNext ==
    \/ \E h \in Callers :
          \/ \E step \in {"find", "readWhole", "readReset"} : StartCall(h, step)
          \/ FindAccount(h) \/ Bump(h) \/ Freeze(h) \/ Forget(h)
          \/ ReadAccount(h) \/ WriteWhole(h) \/ WriteReset(h)
          \/ DropCall(h)
    \/ LapseLock

LockoutSpec == LockoutInit /\ [][LockoutNext]_lockoutVars

-----------------------------------------------------------------------------
LockoutTypeOK ==
    /\ account \in Account
    /\ locks \in Lock
    /\ lapsed \in 0..locks
    /\ login \in [Callers -> Call]
    /\ guesses \in Nat
    /\ spoils \in 0..MaxSpoils
    /\ slack \in Nat

(* Between two right passwords or ends of a lock, an account takes at most    *)
(* MAX_FAILED_ATTEMPTS wrong ones, one more for each other request that read *)
(* it before the lock was set, and what lost calls and stale writes of the   *)
(* document gave away.                                                       *)
LockoutHolds == guesses <= MaxAttempts + Cardinality(Callers) - 1 + slack
===============================================================================
