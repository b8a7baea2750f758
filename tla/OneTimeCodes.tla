----------------------------- MODULE OneTimeCodes -----------------------------
(***************************************************************************)
(* The one-time codes sent to one address: issued with a resend cooldown,   *)
(* guessed at most a few times, accepted and deleted.  Each step is one     *)
(* database call of generate_otp or verify_otp, and requests interleave.    *)
(*                                                                         *)
(* The index on email is not unique, so the address may have several rows.  *)
(* They are kept in record order, and a query by address alone meets the    *)
(* first one.  A guess is right when it is the code of the row it reads,    *)
(* and the digits are left out.                                             *)
(***************************************************************************)
EXTENDS Naturals, Sequences, FiniteSets, SequencesExt

CONSTANTS
    Askers,        \* requests about the address the server works on at a time
    Cooldown,      \* OTP_SEND_COOLDOWN_SECONDS, in ticks
    Validity,      \* OTP_VALIDITY_MINUTES, in ticks
    TimeToLive,    \* OTP_TTL_SECONDS, in ticks
    MaxFailed,     \* OTP_MAX_FAILED_ATTEMPTS
    MaxCodes,      \* bound on the codes ever issued
    MaxTime,       \* bound on the clock
    MaxFaults      \* bound on the database calls that fail unnoticed

ASSUME CodesAssumption ==
    /\ IsFiniteSet(Askers)
    /\ Cooldown \in Nat /\ Validity \in Nat /\ TimeToLive \in Nat
    /\ Cooldown <= Validity /\ Validity <= TimeToLive
    /\ MaxFailed \in Nat \ {0}
    /\ MaxCodes \in Nat
    /\ MaxTime \in Nat
    /\ MaxFaults \in Nat

VARIABLES
    clock,     \* the time, in ticks
    otps,      \* rows of the address, in record order
    issued,    \* codes issued so far; the newest one
    ask,       \* the call each request is about to make
    followed,  \* any one of the codes, for the next two
    tries,     \* history: wrong guesses judged against it
    uses,      \* history: how often it was accepted
    accepts,   \* history: how often any code was
    faults     \* database calls that failed and were ignored, or cut a
               \* request off between a guess and its count or lock

codesVars == <<clock, otps, issued, ask, followed, tries, uses, accepts, faults>>

-----------------------------------------------------------------------------
Codes == 1..MaxCodes
OTP == [code : Codes, born : 0..MaxTime, fails : Nat, locked : BOOLEAN]
AskStep == {"idle", "seek", "clear", "put", "find", "drop", "count", "lock", "accept"}
Ask == [at : AskStep, right : BOOLEAN, born : 0..MaxTime, code : 0..MaxCodes]

NoAsk == [at |-> "idle", right |-> FALSE, born |-> 0, code |-> 0]

AskNext(h, step) == ask' = [ask EXCEPT ![h].at = step]
Answer(h) == ask' = [ask EXCEPT ![h] = NoAsk]

Fault == faults < MaxFaults /\ faults' = faults + 1

Cooling(otp) == clock < otp.born + Cooldown
Expired(otp) == clock > otp.born + Validity

CodesInit ==
    /\ clock = 0
    /\ otps = <<>>
    /\ issued = 0
    /\ ask = [h \in Askers |-> NoAsk]
    /\ followed \in Codes
    /\ tries = 0
    /\ uses = 0
    /\ accepts = 0
    /\ faults = 0

-----------------------------------------------------------------------------
(* generate_otp: request_otp, forgot_password and the other senders.         *)

StartGenerate(h) ==
    /\ ask[h].at = "idle"
    /\ AskNext(h, "seek")
    /\ UNCHANGED <<clock, otps, issued, followed, tries, uses, accepts, faults>>

(* Mutation of SeekOld: a locked row does not hold the cooldown up. *)
SeekUnlocked(h) ==
    /\ ask[h].at = "seek"
    /\ \/ otps = <<>> /\ ask' = [ask EXCEPT ![h].at = "put", ![h].born = clock]
       \/ otps # <<>> /\ (Head(otps).locked \/ ~ Cooling(Head(otps))) /\ AskNext(h, "clear")
    /\ UNCHANGED <<clock, otps, issued, followed, tries, uses, accepts, faults>>

(* Mutation of SeekOld: only the upsert asks for the cooldown. *)
SeekNothing(h) ==
    /\ ask[h].at = "seek"
    /\ ask' = [ask EXCEPT ![h].at = "put", ![h].born = clock]
    /\ UNCHANGED <<clock, otps, issued, followed, tries, uses, accepts, faults>>

(* The row found holds the cooldown up, locked or not; a failed query does   *)
(* not, and the code is stamped with the time.                               *)
SeekOld(h) ==
    /\ ask[h].at = "seek"
    /\ \/ /\ otps = <<>>
          /\ ask' = [ask EXCEPT ![h].at = "put", ![h].born = clock]
          /\ UNCHANGED faults
       \/ /\ otps # <<>>
          /\ ~ Cooling(Head(otps))
          /\ AskNext(h, "clear")
          /\ UNCHANGED faults
       \/ /\ otps # <<>>
          /\ ask' = [ask EXCEPT ![h].at = "put", ![h].born = clock]
          /\ Fault
    /\ UNCHANGED <<clock, otps, issued, followed, tries, uses, accepts>>

(* delete_by_email; its failure is ignored. *)
ClearOld(h) ==
    /\ ask[h].at = "clear"
    /\ \/ otps' = <<>> /\ UNCHANGED faults
       \/ Fault /\ UNCHANGED otps
    /\ ask' = [ask EXCEPT ![h].at = "put", ![h].born = clock]
    /\ UNCHANGED <<clock, issued, followed, tries, uses, accepts>>

Past(born) == {i \in DOMAIN otps : otps[i].born + Cooldown <= born}

NewOTP(born) == [code |-> issued + 1, born |-> born, fails |-> 0, locked |-> FALSE]

(* upsert_otp replaces a row past its cooldown, whichever index finds it, or *)
(* inserts one beside those that are not.                                    *)
UpsertCode(h) ==
    /\ ask[h].at = "put"
    /\ issued < MaxCodes
    /\ LET otp == NewOTP(ask[h].born)
       IN  \/ Past(otp.born) = {} /\ otps' = Append(otps, otp)
           \/ \E i \in Past(otp.born) : otps' = [otps EXCEPT ![i] = otp]
    /\ issued' = issued + 1
    /\ Answer(h)
    /\ UNCHANGED <<clock, followed, tries, uses, accepts, faults>>

-----------------------------------------------------------------------------
(* verify_otp: alone, or inside a change of address, a password reset or the *)
(* deletion of an account.                                                   *)

StartVerify(h, right) ==
    /\ ask[h].at = "idle"
    /\ ask' = [ask EXCEPT ![h].at = "find", ![h].right = right]
    /\ UNCHANGED <<clock, otps, issued, followed, tries, uses, accepts, faults>>

(* A right guess is of the code the first row holds. *)
FindCode(h) ==
    /\ ask[h].at = "find"
    /\ IF otps = <<>> \/ (otps # <<>> /\ Head(otps).locked)
       THEN Answer(h) /\ UNCHANGED tries
       ELSE LET otp == Head(otps)
            IN  \/ Expired(otp) /\ AskNext(h, "drop") /\ UNCHANGED tries
                \/ /\ ~ Expired(otp) /\ ~ ask[h].right
                   /\ AskNext(h, "count")
                   /\ tries' = tries + (IF otp.code = followed THEN 1 ELSE 0)
                \/ /\ ~ Expired(otp) /\ ask[h].right
                   /\ ask' = [ask EXCEPT ![h].at = "accept", ![h].code = otp.code]
                   /\ UNCHANGED tries
    /\ UNCHANGED <<clock, otps, issued, followed, uses, accepts, faults>>

(* Expired: all rows of the address go; a failure is ignored. *)
DropExpired(h) ==
    /\ ask[h].at = "drop"
    /\ \/ otps' = <<>> /\ UNCHANGED faults
       \/ Fault /\ UNCHANGED otps
    /\ Answer(h)
    /\ UNCHANGED <<clock, issued, followed, tries, uses, accepts>>

(* Mutation of CountGuess: the limit is off by one. *)
CountGuessExclusive(h) ==
    /\ ask[h].at = "count"
    /\ IF otps = <<>> THEN Answer(h) /\ UNCHANGED otps
       ELSE /\ otps' = [otps EXCEPT ![1].fails = @ + 1]
            /\ IF Head(otps).fails + 1 > MaxFailed THEN AskNext(h, "lock") ELSE Answer(h)
    /\ UNCHANGED <<clock, issued, followed, tries, uses, accepts, faults>>

(* inc_failed_attempts returns the row it counted on. *)
CountGuess(h) ==
    /\ ask[h].at = "count"
    /\ IF otps = <<>> THEN Answer(h) /\ UNCHANGED otps
       ELSE /\ otps' = [otps EXCEPT ![1].fails = @ + 1]
            /\ IF Head(otps).fails + 1 >= MaxFailed THEN AskNext(h, "lock") ELSE Answer(h)
    /\ UNCHANGED <<clock, issued, followed, tries, uses, accepts, faults>>

(* Whichever row is the first by now. *)
LockRow(h) ==
    /\ ask[h].at = "lock"
    /\ otps' = IF otps = <<>> THEN otps ELSE [otps EXCEPT ![1].locked = TRUE]
    /\ Answer(h)
    /\ UNCHANGED <<clock, issued, followed, tries, uses, accepts, faults>>

(* Mutation of AcceptCode: the code stays. *)
AcceptAndKeep(h) ==
    /\ ask[h].at = "accept"
    /\ uses' = uses + (IF ask[h].code = followed THEN 1 ELSE 0)
    /\ accepts' = accepts + 1
    /\ Answer(h)
    /\ UNCHANGED <<clock, otps, issued, followed, tries, faults>>

(* Every row of the address is deleted, and then the guess is right. *)
AcceptCode(h) ==
    /\ ask[h].at = "accept"
    /\ otps' = <<>>
    /\ uses' = uses + (IF ask[h].code = followed THEN 1 ELSE 0)
    /\ accepts' = accepts + 1
    /\ Answer(h)
    /\ UNCHANGED <<clock, issued, followed, tries, faults>>

-----------------------------------------------------------------------------
(* The TTL index. *)
PurgeCode(i) ==
    /\ clock > otps[i].born + TimeToLive
    /\ otps' = RemoveAt(otps, i)
    /\ UNCHANGED <<clock, issued, ask, followed, tries, uses, accepts, faults>>

Tick ==
    /\ clock < MaxTime
    /\ clock' = clock + 1
    /\ UNCHANGED <<otps, issued, ask, followed, tries, uses, accepts, faults>>

(* A request ends where it is: a failed call, a timeout, a disconnect. *)
DropAsk(h) ==
    /\ ask[h].at # "idle"
    /\ IF ask[h].at \in {"count", "lock"} THEN Fault ELSE UNCHANGED faults
    /\ Answer(h)
    /\ UNCHANGED <<clock, otps, issued, followed, tries, uses, accepts>>

CodesNext ==
    \/ \E h \in Askers :
          \/ StartGenerate(h) \/ SeekOld(h) \/ ClearOld(h) \/ UpsertCode(h)
          \/ \E right \in BOOLEAN : StartVerify(h, right)
          \/ FindCode(h) \/ DropExpired(h) \/ CountGuess(h) \/ LockRow(h) \/ AcceptCode(h)
          \/ DropAsk(h)
    \/ \E i \in DOMAIN otps : PurgeCode(i)
    \/ Tick

CodesSpec == CodesInit /\ [][CodesNext]_codesVars

-----------------------------------------------------------------------------
CodesTypeOK ==
    /\ clock \in 0..MaxTime
    /\ otps \in Seq(OTP)
    /\ issued \in 0..MaxCodes
    /\ ask \in [Askers -> Ask]
    /\ followed \in Codes
    /\ tries \in Nat
    /\ uses \in Nat
    /\ accepts \in Nat
    /\ faults \in 0..MaxFaults

(* inc_failed_attempts counts each guess, and lock_row ends the code, so no   *)
(* interleaving buys more wrong guesses at one code than one for each other  *)
(* request at the limit and one for each lost write.                         *)
GuessesBounded == tries <= MaxFailed + Cardinality(Askers) - 1 + faults

(* A code is deleted before the verification answers true: it is accepted    *)
(* twice only by requests that read it together.                             *)
UsesBounded == uses <= Cardinality(Askers)

(* The index on email is not unique: only the cooldown keeps an address from  *)
(* collecting live codes, one for each request and each fault at most.       *)
LiveCodesBounded == Len(otps) <= Cardinality(Askers) + faults

(* "This prevents a resend-cooldown bypass where the attacker forces row      *)
(* deletion via cap-out or expiry": of an address that had no code, until its *)
(* first cooldown is over, each request sends one at most, however those end; *)
(* only a code that is accepted lets each of them send another.              *)
ResendBounded ==
    clock < Cooldown => issued <= Cardinality(Askers) * (accepts + 1) + faults
===============================================================================
