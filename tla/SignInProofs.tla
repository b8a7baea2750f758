------------------------------ MODULE SignInProofs ------------------------------
(***************************************************************************)
(* Theorems about the modules of the signin run, each about the             *)
(* specification of its own component: LoginLockout, OneTimeCodes and       *)
(* UserAccounts, for any number of requests, accounts, codes and instants.  *)
(***************************************************************************)
EXTENDS MCSignIn, Counting, SequenceTheorems

-----------------------------------------------------------------------------
(* LoginLockout *)

(* Requests whose wrong password was judged, and is not counted, or the count *)
(* reached its limit and the lock is not set.                                *)
Judged == {h \in Callers : login[h].at \in {"bump", "freeze"}}

(* What the document accounts for, short of the guess that locks it. *)
Counted == IF account.attempts < MaxAttempts THEN account.attempts ELSE MaxAttempts - 1

(* While the account is open each guess is counted, about to be, or about to  *)
(* lock it; while it is locked no more are judged.                           *)
LockoutBound ==
    IF LockedOut THEN guesses <= Counted + Cardinality(Callers) + slack
                 ELSE guesses <= Counted + Cardinality(Judged) + slack

(* A lock that is about to be set has not ended. *)
FreshLocks == \A h \in Callers : login[h].at = "freeze" => login[h].lock > lapsed

(* The inductive invariant of the lockout. *)
LockoutInv == LockoutTypeOK /\ FreshLocks /\ LockoutBound

(* Only the request whose turn it is enters or leaves the judged ones. *)
LEMMA JudgedMoves ==
    ASSUME NEW h \in Callers, \A g \in Callers \ {h} : login'[g] = login[g]
    PROVE  /\ Cardinality(Judged) \in Nat /\ Cardinality(Judged)' \in Nat
           /\ Cardinality(Callers) \in Nat
           /\ Cardinality(Judged) <= Cardinality(Callers)
           /\ Cardinality(Judged)' <= Cardinality(Callers)
           /\ Cardinality(Judged)' = Cardinality(Judged) - One(h, Judged) + One(h, Judged')
<1>1. Judged \in SUBSET Callers /\ Judged' \in SUBSET Callers
  BY DEF Judged
<1>2. /\ IsFiniteSet(Judged) /\ Cardinality(Judged) \in Nat /\ Cardinality(Judged') \in Nat
      /\ Cardinality(Callers) \in Nat
      /\ Cardinality(Judged) <= Cardinality(Callers) /\ Cardinality(Judged') <= Cardinality(Callers)
  BY <1>1, LockoutAssumption, PartSize
<1>3. Judged \ {h} = Judged' \ {h}
  BY DEF Judged
<1>4. Cardinality(Judged') - One(h, Judged') = Cardinality(Judged) - One(h, Judged)
  BY <1>2, <1>3, OneApart
<1>5. One(h, Judged) \in Nat /\ One(h, Judged') \in Nat
  BY DEF One
<1>6. QED BY <1>2, <1>4, <1>5

(* The call that is over. *)
LEMMA NoCallFields == NoCall \in Call /\ NoCall.at = "idle" /\ Untouched \in Account
                      /\ Untouched.attempts = 0 /\ Untouched.lock = 0
BY LockoutAssumption DEF NoCall, Call, CallStep, Untouched, Account, Lock

(* What is counted is a number below the limit. *)
LEMMA CountedType ==
    ASSUME LockoutTypeOK
    PROVE  Counted \in Nat /\ Counted <= MaxAttempts - 1 /\ Counted <= account.attempts
           /\ account.attempts \in Nat
BY LockoutAssumption DEF LockoutTypeOK, Account, Counted

(* The looser half of the bound holds in either case. *)
LEMMA LooseBound ==
    ASSUME LockoutInv
    PROVE  guesses <= Counted + Cardinality(Callers) + slack
<1>1. LockoutTypeOK /\ LockoutBound /\ guesses \in Nat /\ slack \in Nat
  BY DEF LockoutInv, LockoutTypeOK
<1>2. Judged \in SUBSET Callers
  BY DEF Judged
<1>3. /\ Cardinality(Judged) \in Nat /\ Cardinality(Callers) \in Nat
      /\ Cardinality(Judged) <= Cardinality(Callers)
  BY <1>2, LockoutAssumption, PartSize
<1>4. Counted \in Nat
  BY <1>1, CountedType
<1>5. QED BY <1>1, <1>3, <1>4 DEF LockoutBound

(* A request that goes to its next call keeps what it holds. *)
LEMMA CallMoves ==
    ASSUME NEW c \in Call, NEW step \in CallStep
    PROVE  /\ \E new \in Call : new = [c EXCEPT !.at = step] /\ new.at = step
           /\ \A k \in Lock :
                 \E new \in Call : /\ new = [c EXCEPT !.at = step, !.lock = k]
                                   /\ new.at = step /\ new.lock = k
           /\ \A d \in Account :
                 \E new \in Call : new = [c EXCEPT !.at = step, !.doc = d] /\ new.at = step
<1>1. [c EXCEPT !.at = step] \in Call /\ [c EXCEPT !.at = step].at = step
  BY DEF Call
<1>2. ASSUME NEW k \in Lock
      PROVE  /\ [c EXCEPT !.at = step, !.lock = k] \in Call
             /\ [c EXCEPT !.at = step, !.lock = k].at = step
             /\ [c EXCEPT !.at = step, !.lock = k].lock = k
  BY DEF Call
<1>3. ASSUME NEW d \in Account
      PROVE  /\ [c EXCEPT !.at = step, !.doc = d] \in Call
             /\ [c EXCEPT !.at = step, !.doc = d].at = step
  BY DEF Call
<1>4. QED BY <1>1, <1>2, <1>3

(* A step of one request says what its own next call is. *)
LEMMA CallEffect ==
    ASSUME LockoutInv, UNCHANGED lapsed, NEW h \in Callers, NEW new \in Call,
           login' = [login EXCEPT ![h] = new], new.at = "freeze" => new.lock > lapsed
    PROVE  /\ login' \in [Callers -> Call] /\ FreshLocks'
           /\ login'[h] = new /\ \A g \in Callers \ {h} : login'[g] = login[g]
           /\ h \in Judged' <=> new.at \in {"bump", "freeze"}
<1>1. LockoutTypeOK /\ FreshLocks
  BY DEF LockoutInv
<1>2. /\ login' \in [Callers -> Call]
      /\ login'[h] = new /\ \A g \in Callers \ {h} : login'[g] = login[g]
  BY <1>1 DEF LockoutTypeOK
<1>3. FreshLocks'
  BY <1>1, <1>2 DEF FreshLocks
<1>4. QED BY <1>2, <1>3 DEF Judged

(* Calls that leave the account and the counts as they are. *)
LEMMA QuietCall ==
    ASSUME LockoutInv, NEW h \in Callers, NEW new \in Call,
           login' = [login EXCEPT ![h] = new],
           login[h].at \notin {"bump", "freeze"}, new.at \notin {"bump", "freeze"},
           UNCHANGED <<account, locks, lapsed, guesses, spoils, slack>>
    PROVE  LockoutInv'
<1>1. LockoutTypeOK /\ LockoutBound
  BY DEF LockoutInv
<1>2. /\ login' \in [Callers -> Call] /\ FreshLocks'
      /\ \A g \in Callers \ {h} : login'[g] = login[g] /\ login'[h] = new
      /\ h \notin Judged'
  BY CallEffect
<1>3. Judged' = Judged
  BY <1>2 DEF Judged
<1>4. LockoutTypeOK'
  BY <1>1, <1>2 DEF LockoutTypeOK
<1>5. LockoutBound'
  BY <1>1, <1>3 DEF LockoutBound, LockedOut, Counted
<1>6. QED BY <1>2, <1>4, <1>5 DEF LockoutInv

(* A call begins, or reads the document it will write back. *)
LEMMA ReadCallStep ==
    ASSUME LockoutInv, NEW h \in Callers,
           ReadAccount(h) \/ \E step \in {"find", "readWhole", "readReset"} : StartCall(h, step)
    PROVE  LockoutInv'
<1>1. LockoutTypeOK /\ login[h] \in Call /\ account \in Account
  BY DEF LockoutInv, LockoutTypeOK
<1>2. UNCHANGED <<account, locks, lapsed, guesses, spoils, slack>>
  BY DEF ReadAccount, StartCall
<1>3. login[h].at \notin {"bump", "freeze"}
  BY DEF ReadAccount, StartCall
<1>4. PICK new \in Call : /\ login' = [login EXCEPT ![h] = new]
                          /\ new.at \notin {"bump", "freeze"}
  <2>1. ASSUME NEW step \in {"find", "readWhole", "readReset"}, StartCall(h, step)
        PROVE  \E new \in Call : login' = [login EXCEPT ![h] = new] /\ new.at \notin {"bump", "freeze"}
    <3>0. step \in CallStep
      BY DEF CallStep
    <3>1. PICK new \in Call : new = [login[h] EXCEPT !.at = step] /\ new.at = step
      BY ZenonT(40), <1>1, <3>0, CallMoves
    <3>2. QED BY <2>1, <3>1 DEF StartCall, CallNext
  <2>2. CASE ReadAccount(h)
    <3>0. "writeWhole" \in CallStep
      BY DEF CallStep
    <3>1. PICK one \in Call : /\ one = [login[h] EXCEPT !.at = "writeWhole", !.doc = account]
                              /\ one.at = "writeWhole"
      BY ZenonT(40), <1>1, <3>0, CallMoves
    <3>2. PICK two \in Call : two = [login[h] EXCEPT !.at = "writeReset"] /\ two.at = "writeReset"
      BY ZenonT(40), <1>1, CallMoves DEF CallStep
    <3>3. login' = [login EXCEPT ![h] = one] \/ login' = [login EXCEPT ![h] = two]
      BY <2>2, <3>1, <3>2 DEF ReadAccount, CallNext
    <3>4. QED BY <3>1, <3>2, <3>3
  <2>3. QED BY <2>1, <2>2
<1>5. QED BY <1>2, <1>3, <1>4, QuietCall

(* A wrong password is judged only while the account is open. *)
LEMMA FindAccountStep ==
    ASSUME LockoutInv, NEW h \in Callers, FindAccount(h)
    PROVE  LockoutInv'
<1>1. LockoutTypeOK /\ LockoutBound /\ login[h] \in Call
  BY DEF LockoutInv, LockoutTypeOK
<1>2. UNCHANGED <<account, locks, lapsed, spoils, slack>> /\ login[h].at = "find"
  BY DEF FindAccount
<1>3. CASE UNCHANGED guesses
  <2>1. PICK other \in Call : other = [login[h] EXCEPT !.at = "forget"] /\ other.at = "forget"
    BY <1>1, CallMoves DEF CallStep
  <2>2. \/ login' = [login EXCEPT ![h] = NoCall]
        \/ login' = [login EXCEPT ![h] = other]
    <3>1. guesses \in Nat
      BY <1>1 DEF LockoutTypeOK
    <3>2. QED BY <1>3, <2>1, <3>1 DEF FindAccount, CallNext, Return
  <2>3. QED BY <1>2, <1>3, <2>1, <2>2, NoCallFields, QuietCall
<1>4. CASE guesses' = guesses + 1 /\ ~ LockedOut /\ CallNext(h, "bump")
  <2>1. PICK new \in Call : new = [login[h] EXCEPT !.at = "bump"] /\ new.at = "bump"
    BY <1>1, CallMoves DEF CallStep
  <2>2. login' = [login EXCEPT ![h] = new]
    BY <1>4, <2>1 DEF CallNext
  <2>3. /\ login' \in [Callers -> Call] /\ FreshLocks' /\ login'[h] = new
        /\ \A g \in Callers \ {h} : login'[g] = login[g]
        /\ h \in Judged' /\ h \notin Judged
    <3>1. h \notin Judged
      BY <1>2 DEF Judged
    <3>2. QED BY <1>2, <2>1, <2>2, <3>1, CallEffect
  <2>4. /\ Cardinality(Judged) \in Nat /\ Cardinality(Judged)' \in Nat
        /\ Cardinality(Judged)' = Cardinality(Judged) + 1
    BY <2>3, JudgedMoves DEF One
  <2>5. guesses \in Nat /\ slack \in Nat /\ guesses' \in Nat
    BY <1>1, <1>4 DEF LockoutTypeOK
  <2>6. LockoutTypeOK'
    BY <1>1, <1>2, <2>3, <2>5 DEF LockoutTypeOK
  <2>7. LockoutBound'
    <3>1. ~ LockedOut' /\ Counted' = Counted /\ slack' = slack /\ Counted \in Nat
      BY <1>1, <1>2, <1>4, CountedType DEF LockedOut, Counted
    <3>2. guesses <= Counted + Cardinality(Judged) + slack
      BY <1>1, <1>4 DEF LockoutBound
    <3>3. guesses' <= Counted' + Cardinality(Judged)' + slack'
      BY <1>4, <2>4, <2>5, <3>1, <3>2
    <3>4. QED BY <3>1, <3>3 DEF LockoutBound
  <2>8. QED BY <2>3, <2>6, <2>7 DEF LockoutInv
<1>5. QED BY <1>3, <1>4 DEF FindAccount

(* A guess that is counted leaves the judged ones, or stays to set the lock.  *)
LEMMA BumpStep ==
    ASSUME LockoutInv, NEW h \in Callers, Bump(h)
    PROVE  LockoutInv'
<1>1. LockoutTypeOK /\ LockoutBound /\ login[h] \in Call /\ account \in Account
  BY DEF LockoutInv, LockoutTypeOK
<1>2. /\ login[h].at = "bump" /\ UNCHANGED <<lapsed, guesses, spoils, slack>>
      /\ account' = [account EXCEPT !.attempts = @ + 1]
      /\ h \in Judged
  BY DEF Bump, Judged
<1>3. /\ account' \in Account /\ account'.attempts = account.attempts + 1
      /\ account'.lock = account.lock /\ account.attempts \in Nat
  BY <1>1, <1>2 DEF Account
<1>4. LockedOut' <=> LockedOut
  BY <1>2, <1>3 DEF LockedOut
<1>5. MaxAttempts \in Nat \ {0} /\ Cardinality(Callers) \in Nat /\ guesses \in Nat /\ slack \in Nat
  BY <1>1, LockoutAssumption, FS_CardinalityType DEF LockoutTypeOK
<1>6. Counted \in Nat /\ Counted' \in Nat /\ Counted <= Counted'
      /\ (account.attempts + 1 < MaxAttempts => Counted' = Counted + 1)
  BY <1>3, <1>5 DEF Counted
<1>7. CASE account.attempts + 1 >= MaxAttempts
  <2>1. /\ locks < MaxLocks /\ locks' = locks + 1
        /\ login' = [login EXCEPT ![h].at = "freeze", ![h].lock = locks + 1]
    BY <1>7 DEF Bump
  <2>2. locks \in Nat /\ locks + 1 \in Lock /\ lapsed \in Nat /\ lapsed < locks + 1
        /\ lapsed \in 0..locks'
    BY <1>1, <2>1, LockoutAssumption DEF LockoutTypeOK, Lock
  <2>3. "freeze" \in CallStep
    BY DEF CallStep
  <2>4. PICK new \in Call : /\ new = [login[h] EXCEPT !.at = "freeze", !.lock = locks + 1]
                            /\ new.at = "freeze" /\ new.lock = locks + 1
    <3>1. \A k \in Lock :
             \E new \in Call : /\ new = [login[h] EXCEPT !.at = "freeze", !.lock = k]
                               /\ new.at = "freeze" /\ new.lock = k
      BY <1>1, <2>3, CallMoves
    <3>2. PICK k \in Lock : k = locks + 1
      BY <2>2
    <3>3. QED BY <3>1, <3>2
  <2>5. login' = [login EXCEPT ![h] = new] /\ new.lock > lapsed
    BY <2>1, <2>2, <2>4
  <2>6. /\ login' \in [Callers -> Call] /\ FreshLocks'
        /\ \A g \in Callers \ {h} : login'[g] = login[g]
        /\ h \in Judged'
    BY <1>2, <2>4, <2>5, CallEffect
  <2>7. Cardinality(Judged)' = Cardinality(Judged) /\ Cardinality(Judged) \in Nat
    BY <1>2, <2>6, JudgedMoves DEF One
  <2>8. LockoutTypeOK'
    BY <1>1, <1>2, <1>3, <2>1, <2>2, <2>6 DEF LockoutTypeOK
  <2>9. LockoutBound'
    BY <1>1, <1>2, <1>4, <1>5, <1>6, <2>7 DEF LockoutBound
  <2>10. QED BY <2>6, <2>8, <2>9 DEF LockoutInv
<1>8. CASE ~ (account.attempts + 1 >= MaxAttempts)
  <2>1. login' = [login EXCEPT ![h] = NoCall] /\ UNCHANGED locks
    BY <1>8 DEF Bump, Return
  <2>2. /\ login' \in [Callers -> Call] /\ FreshLocks'
        /\ \A g \in Callers \ {h} : login'[g] = login[g]
        /\ h \notin Judged'
    BY <1>2, <2>1, NoCallFields, CallEffect
  <2>3. Cardinality(Judged)' = Cardinality(Judged) - 1 /\ Cardinality(Judged) \in Nat
        /\ Cardinality(Judged)' \in Nat
    BY <1>2, <2>2, JudgedMoves DEF One
  <2>4. LockoutTypeOK'
    BY <1>1, <1>2, <1>3, <2>1, <2>2 DEF LockoutTypeOK
  <2>5. Counted' = Counted + 1
    BY <1>3, <1>5, <1>6, <1>8
  <2>6. LockoutBound'
    BY <1>1, <1>2, <1>4, <1>5, <1>6, <2>3, <2>5 DEF LockoutBound
  <2>7. QED BY <2>2, <2>4, <2>6 DEF LockoutInv
<1>9. QED BY <1>7, <1>8

(* The lock that is set has not ended, so no guess is judged after it. *)
LEMMA FreezeStep ==
    ASSUME LockoutInv, NEW h \in Callers, Freeze(h)
    PROVE  LockoutInv'
<1>1. LockoutTypeOK /\ FreshLocks /\ login[h] \in Call /\ account \in Account
  BY DEF LockoutInv, LockoutTypeOK
<1>2. /\ login[h].at = "freeze" /\ UNCHANGED <<locks, lapsed, guesses, spoils, slack>>
      /\ account' = [account EXCEPT !.lock = login[h].lock]
      /\ login' = [login EXCEPT ![h] = NoCall]
  BY DEF Freeze, Return
<1>3. /\ account' \in Account /\ account'.attempts = account.attempts
      /\ account'.lock = login[h].lock /\ login[h].lock > lapsed
  BY <1>1, <1>2 DEF Account, Call, FreshLocks
<1>4. LockedOut' /\ Counted' = Counted
  BY <1>2, <1>3 DEF LockedOut, Counted
<1>5. login' \in [Callers -> Call] /\ FreshLocks'
  BY <1>2, NoCallFields, CallEffect
<1>6. guesses <= Counted + Cardinality(Callers) + slack
  BY LooseBound
<1>7. LockoutTypeOK'
  BY <1>1, <1>2, <1>3, <1>5 DEF LockoutTypeOK
<1>8. LockoutBound'
  BY <1>2, <1>4, <1>6 DEF LockoutBound
<1>9. QED BY <1>5, <1>7, <1>8 DEF LockoutInv

(* Nothing is held against a bound of nothing. *)
LEMMA ForgivenBound ==
    ASSUME LockoutTypeOK', guesses' = 0
    PROVE  LockoutBound'
<1>1. Counted' \in Nat
  BY LockoutAssumption DEF LockoutTypeOK, Account, Counted
<1>2. Judged' \in SUBSET Callers
  BY DEF Judged
<1>3. Cardinality(Judged') \in Nat /\ Cardinality(Callers) \in Nat /\ slack' \in Nat
  BY <1>2, LockoutAssumption, PartSize DEF LockoutTypeOK
<1>4. QED BY <1>1, <1>3 DEF LockoutBound

(* A right password, or a reset of it, clears the count. *)
LEMMA ForgetStep ==
    ASSUME LockoutInv, NEW h \in Callers, Forget(h) \/ WriteReset(h)
    PROVE  LockoutInv'
<1>1. /\ account' = Untouched /\ guesses' = 0 /\ slack' = 0
      /\ login' = [login EXCEPT ![h] = NoCall] /\ UNCHANGED <<locks, lapsed, spoils>>
  BY DEF Forget, WriteReset, Forgiven, Return
<1>2. login' \in [Callers -> Call] /\ FreshLocks'
  BY <1>1, NoCallFields, CallEffect
<1>3. LockoutTypeOK'
  BY <1>1, <1>2, NoCallFields DEF LockoutInv, LockoutTypeOK
<1>4. QED BY <1>1, <1>2, <1>3, ForgivenBound DEF LockoutInv

(* A stale write gives away what it erased, and a guess for each request when *)
(* it lifts the lock.                                                        *)
LEMMA WriteWholeStep ==
    ASSUME LockoutInv, NEW h \in Callers, WriteWhole(h)
    PROVE  LockoutInv'
<1>1. LockoutTypeOK /\ LockoutBound /\ login[h] \in Call /\ account \in Account
  BY DEF LockoutInv, LockoutTypeOK
<1>2. PICK doc \in Account : doc = login[h].doc
  BY <1>1 DEF Call
<1>3. /\ login[h].at = "writeWhole" /\ UNCHANGED <<locks, lapsed, guesses>>
      /\ account' = doc /\ login' = [login EXCEPT ![h] = NoCall]
      /\ IF Erased(doc) > 0 \/ Lifts(doc)
         THEN Spoil(Erased(doc) + (IF Lifts(doc) THEN Cardinality(Callers) ELSE 0))
         ELSE UNCHANGED <<spoils, slack>>
  BY <1>2 DEF WriteWhole, Return
<1>4. /\ login' \in [Callers -> Call] /\ FreshLocks'
      /\ \A g \in Callers \ {h} : login'[g] = login[g]
      /\ h \notin Judged' /\ h \notin Judged
  <2>1. h \notin Judged
    BY <1>3 DEF Judged
  <2>2. QED BY <1>3, <2>1, NoCallFields, CallEffect
<1>5. Cardinality(Judged)' = Cardinality(Judged) /\ Cardinality(Judged) \in Nat
  BY <1>4, JudgedMoves DEF One
<1>6. /\ account.attempts \in Nat /\ doc.attempts \in Nat
      /\ MaxAttempts \in Nat \ {0} /\ Cardinality(Callers) \in Nat
      /\ guesses \in Nat /\ slack \in Nat /\ spoils \in Nat /\ MaxSpoils \in Nat
  BY <1>1, LockoutAssumption, FS_CardinalityType DEF Account, LockoutTypeOK
<1>7. PICK lost \in Nat : /\ lost = Erased(doc)
                          /\ Counted \in Nat /\ Counted' \in Nat /\ Counted <= Counted' + lost
  <2>1. Erased(doc) \in Nat
    BY <1>6 DEF Erased
  <2>2. Counted \in Nat /\ Counted' \in Nat /\ Counted <= Counted' + Erased(doc)
    BY <1>3, <1>6 DEF Counted, Erased
  <2>3. QED BY <2>1, <2>2
<1>8. PICK given \in Nat : /\ given = (IF Lifts(doc) THEN Cardinality(Callers) ELSE 0)
                           /\ slack' = slack + lost + given /\ spoils' \in 0..MaxSpoils
  <2>1. PICK given \in Nat : given = (IF Lifts(doc) THEN Cardinality(Callers) ELSE 0)
    BY <1>6
  <2>2. CASE lost > 0 \/ Lifts(doc)
    <3>1. Spoil(lost + given)
      BY <1>3, <1>7, <2>1, <2>2
    <3>2. QED BY <1>6, <2>1, <3>1 DEF Spoil
  <2>3. CASE ~ (lost > 0 \/ Lifts(doc))
    <3>1. lost = 0 /\ given = 0 /\ slack' = slack /\ spoils' = spoils
      BY <1>3, <1>7, <2>1, <2>3
    <3>2. QED BY <1>1, <1>6, <2>1, <3>1 DEF LockoutTypeOK
  <2>4. QED BY <2>2, <2>3
<1>9. LockoutTypeOK'
  <2>1. slack' \in Nat
    BY <1>6, <1>8
  <2>2. QED BY <1>1, <1>3, <1>4, <1>8, <2>1 DEF LockoutTypeOK
<1>10. LockoutBound'
  <2>1. guesses <= Counted + Cardinality(Callers) + slack
    BY LooseBound
  <2>2. CASE LockedOut'
    <3>1. guesses' <= Counted' + Cardinality(Callers) + slack'
      BY <1>3, <1>6, <1>7, <1>8, <2>1
    <3>2. QED BY <2>2, <3>1 DEF LockoutBound
  <2>3. CASE ~ LockedOut'
    <3>1. LockedOut => Lifts(doc)
      <4>1. ~ (doc.lock > lapsed) /\ doc.lock \in Nat /\ lapsed \in Nat
        BY <1>1, <1>3, <2>3, LockoutAssumption DEF LockedOut, Account, Lock, LockoutTypeOK
      <4>2. QED BY <4>1 DEF Lifts
    <3>2. CASE LockedOut
      <4>1. given = Cardinality(Callers)
        BY <1>8, <3>1, <3>2
      <4>2. guesses' <= Counted' + Cardinality(Judged)' + slack'
        BY <1>3, <1>5, <1>6, <1>7, <1>8, <2>1, <4>1
      <4>3. QED BY <2>3, <4>2 DEF LockoutBound
    <3>3. CASE ~ LockedOut
      <4>1. guesses <= Counted + Cardinality(Judged) + slack
        BY <1>1, <3>3 DEF LockoutBound
      <4>2. guesses' <= Counted' + Cardinality(Judged)' + slack'
        BY <1>3, <1>5, <1>6, <1>7, <1>8, <4>1
      <4>3. QED BY <2>3, <4>2 DEF LockoutBound
    <3>4. QED BY <3>2, <3>3
  <2>4. QED BY <2>2, <2>3
<1>11. QED BY <1>4, <1>9, <1>10 DEF LockoutInv

(* A guess whose count or lock is lost is one more guess. *)
LEMMA DropStep ==
    ASSUME LockoutInv, NEW h \in Callers, DropCall(h)
    PROVE  LockoutInv'
<1>1. LockoutTypeOK /\ LockoutBound
  BY DEF LockoutInv
<1>2. UNCHANGED <<account, locks, lapsed, guesses>> /\ login' = [login EXCEPT ![h] = NoCall]
  BY DEF DropCall, Return
<1>3. CASE login[h].at \notin {"bump", "freeze"}
  <2>1. UNCHANGED <<spoils, slack>>
    BY <1>3 DEF DropCall
  <2>2. QED BY <1>2, <1>3, <2>1, NoCallFields, QuietCall
<1>4. CASE login[h].at \in {"bump", "freeze"}
  <2>1. spoils < MaxSpoils /\ spoils' = spoils + 1 /\ slack' = slack + 1
    BY <1>4 DEF DropCall, Spoil
  <2>2. /\ login' \in [Callers -> Call] /\ FreshLocks'
        /\ \A g \in Callers \ {h} : login'[g] = login[g]
        /\ h \notin Judged' /\ h \in Judged
    <3>1. h \in Judged
      BY <1>4 DEF Judged
    <3>2. QED BY <1>2, <3>1, NoCallFields, CallEffect
  <2>3. /\ Cardinality(Judged)' = Cardinality(Judged) - 1 /\ Cardinality(Judged) \in Nat
        /\ Cardinality(Judged)' \in Nat /\ Cardinality(Callers) \in Nat
    BY <2>2, JudgedMoves DEF One
  <2>4. guesses \in Nat /\ slack \in Nat /\ Counted \in Nat /\ Counted' = Counted
    BY <1>1, <1>2, CountedType DEF LockoutTypeOK, Counted
  <2>5. LockoutTypeOK'
    BY <1>1, <1>2, <2>1, <2>2, LockoutAssumption DEF LockoutTypeOK
  <2>6. LockoutBound'
    BY <1>1, <1>2, <2>1, <2>3, <2>4 DEF LockoutBound, LockedOut
  <2>7. QED BY <2>2, <2>5, <2>6 DEF LockoutInv
<1>5. QED BY <1>3, <1>4

(* The lock that ends was the account's, which is then open with a clear      *)
(* history, or it was not, and the account stays as it is.                   *)
LEMMA LapseStep ==
    ASSUME LockoutInv, LapseLock
    PROVE  LockoutInv'
<1>1. LockoutTypeOK /\ LockoutBound /\ FreshLocks
  BY DEF LockoutInv
<1>2. /\ lapsed < locks /\ lapsed' = lapsed + 1
      /\ \A h \in Callers : login[h].lock # lapsed + 1
      /\ UNCHANGED <<account, locks, login, spoils>>
  BY DEF LapseLock
<1>3. locks \in Nat /\ lapsed \in Nat /\ account \in Account /\ account.lock \in Nat
      /\ \A h \in Callers : login[h].lock \in Nat
  BY <1>1, LockoutAssumption DEF LockoutTypeOK, Account, Call, Lock
<1>4. FreshLocks'
  BY <1>1, <1>2, <1>3 DEF FreshLocks
<1>5. guesses' \in Nat /\ slack' \in Nat
  BY <1>1 DEF LapseLock, Forgiven, LockoutTypeOK
<1>6. LockoutTypeOK'
  <2>1. lapsed' \in 0..locks'
    BY <1>2, <1>3
  <2>2. QED BY <1>1, <1>2, <1>5, <2>1 DEF LockoutTypeOK
<1>7. CASE account.lock = lapsed + 1
  <2>1. guesses' = 0
    BY <1>7 DEF LapseLock, Forgiven
  <2>2. QED BY <1>4, <1>6, <2>1, ForgivenBound DEF LockoutInv
<1>8. CASE account.lock # lapsed + 1
  <2>1. UNCHANGED <<guesses, slack>>
    BY <1>8 DEF LapseLock
  <2>2. LockedOut' <=> LockedOut
    BY <1>2, <1>3, <1>8 DEF LockedOut
  <2>3. Judged' = Judged /\ Counted' = Counted
    BY <1>2 DEF Judged, Counted
  <2>4. LockoutBound'
    BY <1>1, <2>1, <2>2, <2>3 DEF LockoutBound
  <2>5. QED BY <1>4, <1>6, <2>4 DEF LockoutInv
<1>9. QED BY <1>7, <1>8

(* The invariant holds where no password was judged. *)
LEMMA LockoutBegins ==
    ASSUME LockoutInit
    PROVE  LockoutInv
<1>1. /\ account = Untouched /\ locks = 0 /\ lapsed = 0 /\ guesses = 0 /\ spoils = 0
      /\ slack = 0 /\ login = [h \in Callers |-> NoCall]
  BY DEF LockoutInit
<1>2. LockoutTypeOK
  BY <1>1, NoCallFields, LockoutAssumption DEF LockoutTypeOK, Lock
<1>3. FreshLocks
  BY <1>1, NoCallFields DEF FreshLocks
<1>4. ~ LockedOut
  BY <1>1, NoCallFields DEF LockedOut
<1>5. Counted \in Nat
  BY <1>2, CountedType
<1>6. Judged \in SUBSET Callers
  BY DEF Judged
<1>7. Cardinality(Judged) \in Nat
  BY <1>6, LockoutAssumption, PartSize
<1>8. LockoutBound
  BY <1>1, <1>4, <1>5, <1>7 DEF LockoutBound
<1>9. QED BY <1>2, <1>3, <1>8 DEF LockoutInv

(* Every step keeps it. *)
LEMMA LockoutStep ==
    ASSUME LockoutInv, [LockoutNext]_lockoutVars
    PROVE  LockoutInv'
<1>1. ASSUME NEW h \in Callers,
             \E step \in {"find", "readWhole", "readReset"} : StartCall(h, step)
      PROVE  LockoutInv'
  BY <1>1, ReadCallStep
<1>2. ASSUME NEW h \in Callers,
             \/ FindAccount(h) \/ Bump(h) \/ Freeze(h) \/ Forget(h)
             \/ ReadAccount(h) \/ WriteWhole(h) \/ WriteReset(h)
             \/ DropCall(h)
      PROVE  LockoutInv'
  BY <1>2, FindAccountStep, BumpStep, FreezeStep, ForgetStep, ReadCallStep, WriteWholeStep, DropStep
<1>3. CASE LapseLock
  BY <1>3, LapseStep
<1>4. CASE UNCHANGED lockoutVars
  BY <1>4 DEF lockoutVars, LockoutInv, LockoutTypeOK, FreshLocks, LockoutBound, LockedOut,
              Counted, Judged
<1>5. QED BY <1>1, <1>2, <1>3, <1>4 DEF LockoutNext

(* Type correctness of the account, its locks and its requests, and the bound *)
(* that the count, the judged guesses and the lock keep together.            *)
THEOREM LockoutInvariance == LockoutSpec => []LockoutInv
<1>1. QED BY LockoutBegins, LockoutStep, PTL DEF LockoutSpec

(* login_user takes at most MAX_FAILED_ATTEMPTS wrong passwords between two   *)
(* right ones or ends of a lock, one more for each other request under way,  *)
(* and what lost calls and stale writes gave away: for any number of         *)
(* requests, attempts, locks and spoiled calls.                              *)
THEOREM LockoutHoldsAlways == LockoutSpec => []LockoutHolds
<1>1. LockoutInv => LockoutHolds
  <2>1. SUFFICES ASSUME LockoutInv PROVE LockoutHolds
    OBVIOUS
  <2>2. guesses <= Counted + Cardinality(Callers) + slack
    BY <2>1, LooseBound
  <2>3. Counted \in Nat /\ Counted <= MaxAttempts - 1 /\ guesses \in Nat /\ slack \in Nat
    BY <2>1, CountedType DEF LockoutInv, LockoutTypeOK
  <2>4. Cardinality(Callers) \in Nat /\ MaxAttempts \in Nat
    BY LockoutAssumption, FS_CardinalityType
  <2>5. QED BY <2>2, <2>3, <2>4 DEF LockoutHolds
<1>2. QED BY <1>1, LockoutInvariance, PTL

-----------------------------------------------------------------------------
(* OneTimeCodes *)

(* Sequences of rows: what a change of one row, a new row and a removed row   *)
(* leave in place.                                                           *)
LEMMA RemoveOne ==
    ASSUME NEW S, NEW s \in Seq(S), NEW i \in 1..Len(s)
    PROVE  /\ RemoveAt(s, i) \in Seq(S)
           /\ Len(RemoveAt(s, i)) = Len(s) - 1
           /\ \A j \in 1..(Len(s) - 1) : RemoveAt(s, i)[j] = IF j < i THEN s[j] ELSE s[j + 1]
<1> DEFINE a == SubSeq(s, 1, i - 1)
           b == SubSeq(s, i + 1, Len(s))
<1>1. Len(s) \in Nat /\ i \in Nat /\ 1 <= i /\ i <= Len(s) /\ 1 \in Int /\ i - 1 \in Int
      /\ i + 1 \in Int /\ Len(s) \in Int
  BY LenProperties
<1>2. \A j \in 1..Len(s) : s[j] \in S
  BY ElementOfSeq
<1>3. /\ a \in Seq(S)
      /\ Len(a) = i - 1
      /\ \A j \in 1..(i - 1) : a[j] = s[j]
  <2>1. \A j \in 1..(i - 1) : s[j] \in S
    BY <1>1, <1>2
  <2>2. /\ a \in Seq(S)
        /\ Len(a) = IF 1 <= i - 1 THEN i - 1 - 1 + 1 ELSE 0
        /\ \A j \in 1..(i - 1 - 1 + 1) : a[j] = s[1 + j - 1]
    BY <1>1, <2>1, SubSeqProperties
  <2> HIDE DEF a
  <2>3. QED BY <1>1, <2>2
<1>4. /\ b \in Seq(S)
      /\ Len(b) = Len(s) - i
      /\ \A j \in 1..(Len(s) - i) : b[j] = s[i + j]
  <2>1. \A j \in (i + 1)..Len(s) : s[j] \in S
    BY <1>1, <1>2
  <2>2. /\ b \in Seq(S)
        /\ Len(b) = IF i + 1 <= Len(s) THEN Len(s) - (i + 1) + 1 ELSE 0
        /\ \A j \in 1..(Len(s) - (i + 1) + 1) : b[j] = s[i + 1 + j - 1]
    BY <1>1, <2>1, SubSeqProperties
  <2> HIDE DEF b
  <2>3. QED BY <1>1, <2>2
<1>5. RemoveAt(s, i) = a \o b
  BY DEF RemoveAt
<1> HIDE DEF a, b
<1>6. /\ a \o b \in Seq(S)
      /\ Len(a \o b) = Len(a) + Len(b)
      /\ \A j \in 1..(Len(a) + Len(b)) : (a \o b)[j] = IF j <= Len(a) THEN a[j] ELSE b[j - Len(a)]
  BY <1>3, <1>4, ConcatProperties
<1>7. ASSUME NEW j \in 1..(Len(s) - 1)
      PROVE  (a \o b)[j] = IF j < i THEN s[j] ELSE s[j + 1]
  <2>1. j \in 1..(Len(a) + Len(b)) /\ j \in Nat
    BY <1>1, <1>3, <1>4
  <2>2. CASE j < i
    <3>1. j <= Len(a) /\ j \in 1..(i - 1)
      BY <1>1, <1>3, <2>1, <2>2
    <3>2. QED BY <1>3, <1>6, <2>1, <2>2, <3>1
  <2>3. CASE ~ (j < i)
    <3>1. ~ (j <= Len(a)) /\ j - Len(a) \in 1..(Len(s) - i) /\ i + (j - Len(a)) = j + 1
      BY <1>1, <1>3, <2>1, <2>3
    <3>2. (a \o b)[j] = b[j - Len(a)]
      BY <1>6, <2>1, <3>1
    <3>3. b[j - Len(a)] = s[i + (j - Len(a))]
      BY <1>4, <3>1
    <3>4. QED BY <2>3, <3>1, <3>2, <3>3
  <2>4. QED BY <2>2, <2>3
<1>8. QED BY <1>1, <1>3, <1>4, <1>5, <1>6, <1>7

(* The row that is first. *)
LEMMA FirstRow ==
    ASSUME CodesTypeOK, otps # <<>>
    PROVE  /\ Len(otps) \in Nat /\ 1 \in 1..Len(otps)
           /\ Head(otps) = otps[1] /\ otps[1] \in OTP
           /\ otps[1].fails \in Nat
<1>1. otps \in Seq(OTP)
  BY DEF CodesTypeOK
<1>2. Len(otps) \in Nat \ {0}
  BY <1>1, EmptySeq
<1>3. 1 \in 1..Len(otps) /\ Head(otps) = otps[1]
  BY <1>1, <1>2
<1>4. otps[1] \in OTP
  BY <1>1, <1>3, ElementOfSeq
<1>5. QED BY <1>2, <1>3, <1>4 DEF OTP

(* upsert_otp writes one new row, beside the others or instead of one. *)
LEMMA UpsertRows ==
    ASSUME CodesTypeOK, NEW h \in Askers, UpsertCode(h)
    PROVE  /\ otps' \in Seq(OTP) /\ issued' \in 0..MaxCodes /\ issued' = issued + 1
           /\ Len(otps') \in {Len(otps), Len(otps) + 1} /\ Len(otps') # 0
           /\ \E i \in 1..Len(otps') :
                 /\ otps'[i].code = issued + 1
                 /\ \A j \in 1..Len(otps') : j # i => j \in 1..Len(otps) /\ otps'[j] = otps[j]
<1>1. /\ otps \in Seq(OTP) /\ issued \in Nat /\ MaxCodes \in Nat /\ issued < MaxCodes
      /\ issued' = issued + 1 /\ ask[h].born \in 0..MaxTime
  BY CodesAssumption DEF CodesTypeOK, UpsertCode, Ask
<1>2. PICK otp \in OTP : otp = NewOTP(ask[h].born) /\ otp.code = issued + 1
  <2>1. issued + 1 \in Codes
    BY <1>1 DEF Codes
  <2>2. NewOTP(ask[h].born) \in OTP /\ NewOTP(ask[h].born).code = issued + 1
    BY <1>1, <2>1 DEF NewOTP, OTP
  <2>3. QED BY <2>2
<1>3. Len(otps) \in Nat /\ DOMAIN otps = 1..Len(otps)
  BY <1>1, LenProperties
<1>4. CASE otps' = Append(otps, otp)
  <2>1. /\ otps' \in Seq(OTP) /\ Len(otps') = Len(otps) + 1
        /\ otps'[Len(otps) + 1] = otp
        /\ \A j \in 1..Len(otps) : otps'[j] = otps[j]
    BY <1>1, <1>4, AppendProperties
  <2>2. /\ Len(otps) + 1 \in 1..Len(otps')
        /\ \A j \in 1..Len(otps') : j # Len(otps) + 1 => j \in 1..Len(otps)
    BY <1>3, <2>1
  <2>3. QED BY <1>1, <1>2, <1>3, <2>1, <2>2
<1>5. ASSUME NEW i \in 1..Len(otps), otps' = [otps EXCEPT ![i] = otp]
      PROVE  /\ otps' \in Seq(OTP) /\ Len(otps') = Len(otps) /\ Len(otps) # 0
             /\ otps'[i].code = issued + 1
             /\ \A j \in 1..Len(otps') : j # i => j \in 1..Len(otps) /\ otps'[j] = otps[j]
  <2>1. /\ otps' \in Seq(OTP) /\ Len(otps') = Len(otps)
        /\ \A j \in 1..Len(otps) : otps'[j] = IF j = i THEN otp ELSE otps[j]
    BY <1>1, <1>5, ExceptSeq
  <2>2. QED BY <1>2, <1>3, <2>1
<1>6. \/ otps' = Append(otps, otp)
      \/ \E i \in 1..Len(otps) : otps' = [otps EXCEPT ![i] = otp]
  BY <1>2, <1>3 DEF UpsertCode, Past
<1>7. issued' \in 0..MaxCodes
  BY <1>1
<1>8. CASE \E i \in 1..Len(otps) : otps' = [otps EXCEPT ![i] = otp]
  <2>1. PICK i \in 1..Len(otps) : otps' = [otps EXCEPT ![i] = otp]
    BY <1>8
  <2>2. /\ otps' \in Seq(OTP) /\ Len(otps') = Len(otps) /\ Len(otps) # 0
        /\ otps'[i].code = issued + 1
        /\ \A j \in 1..Len(otps') : j # i => j \in 1..Len(otps) /\ otps'[j] = otps[j]
    BY <1>5, <2>1
  <2>3. QED BY <1>1, <1>7, <2>2
<1>9. QED BY <1>4, <1>6, <1>8

(* A guess is counted on the first row, and the first row is locked. *)
LEMMA FirstRowChanges ==
    ASSUME CodesTypeOK, NEW h \in Askers, CountGuess(h) \/ LockRow(h)
    PROVE  /\ otps' \in Seq(OTP) /\ Len(otps') = Len(otps)
           /\ \A j \in 1..Len(otps) : otps'[j].code = otps[j].code
           /\ \A j \in 2..Len(otps) : otps'[j] = otps[j]
           /\ otps # <<>> =>
                 /\ otps' # <<>>
                 /\ CountGuess(h) => /\ otps'[1].fails = otps[1].fails + 1
                                     /\ otps'[1].locked = otps[1].locked
                 /\ LockRow(h) => otps'[1].locked
<1>1. otps \in Seq(OTP) /\ Len(otps) \in Nat
  BY LenProperties DEF CodesTypeOK
<1>2. CASE otps = <<>>
  <2>1. otps' = otps
    BY <1>2 DEF CountGuess, LockRow
  <2>2. QED BY <1>1, <1>2, <2>1
<1>3. ASSUME otps # <<>>, NEW otp \in OTP, otps' = [otps EXCEPT ![1] = otp],
             otp.code = otps[1].code
      PROVE  /\ otps' \in Seq(OTP) /\ Len(otps') = Len(otps) /\ otps' # <<>>
             /\ otps'[1] = otp
             /\ \A j \in 1..Len(otps) : otps'[j].code = otps[j].code
             /\ \A j \in 2..Len(otps) : otps'[j] = otps[j]
  <2>1. 1 \in 1..Len(otps)
    BY <1>3, FirstRow
  <2>2. /\ otps' \in Seq(OTP) /\ Len(otps') = Len(otps)
        /\ \A j \in 1..Len(otps) : otps'[j] = IF j = 1 THEN otp ELSE otps[j]
    BY <1>1, <1>3, <2>1, ExceptSeq
  <2>3. otps' # <<>>
    BY <1>1, <2>1, <2>2, EmptySeq
  <2>4. QED BY <1>1, <1>3, <2>1, <2>2, <2>3
<1>4. CASE otps # <<>> /\ CountGuess(h)
  <2>1. otps[1] \in OTP /\ otps[1].fails \in Nat
    BY <1>4, FirstRow
  <2>0. PICK n \in Nat : n = otps[1].fails + 1
    BY <2>1
  <2>2. PICK otp \in OTP : otp = [otps[1] EXCEPT !.fails = n]
    BY <2>1 DEF OTP
  <2>3. /\ otps' = [otps EXCEPT ![1] = otp]
        /\ otp.code = otps[1].code /\ otp.fails = otps[1].fails + 1 /\ otp.locked = otps[1].locked
    BY <1>4, <2>0, <2>1, <2>2 DEF CountGuess, OTP
  <2>4. ~ LockRow(h)
    BY <1>4 DEF CountGuess, LockRow
  <2>5. QED BY <1>3, <1>4, <2>2, <2>3, <2>4
<1>5. CASE otps # <<>> /\ LockRow(h)
  <2>1. otps[1] \in OTP
    BY <1>5, FirstRow
  <2>2. PICK otp \in OTP : otp = [otps[1] EXCEPT !.locked = TRUE]
    BY <2>1 DEF OTP
  <2>3. otps' = [otps EXCEPT ![1] = otp] /\ otp.code = otps[1].code /\ otp.locked
    BY <1>5, <2>1, <2>2 DEF LockRow, OTP
  <2>4. ~ CountGuess(h)
    BY <1>5 DEF CountGuess, LockRow
  <2>5. QED BY <1>3, <1>5, <2>2, <2>3, <2>4
<1>6. QED BY <1>2, <1>4, <1>5

(* The TTL index takes one row out. *)
LEMMA PurgeRows ==
    ASSUME CodesTypeOK, NEW i \in DOMAIN otps, PurgeCode(i)
    PROVE  /\ i \in 1..Len(otps)
           /\ otps' \in Seq(OTP) /\ Len(otps') = Len(otps) - 1
           /\ \A j \in 1..Len(otps') :
                 /\ j \in 1..Len(otps) /\ j + 1 \in 1..Len(otps)
                 /\ otps'[j] = IF j < i THEN otps[j] ELSE otps[j + 1]
<1>1. otps \in Seq(OTP)
  BY DEF CodesTypeOK
<1>2. Len(otps) \in Nat /\ i \in 1..Len(otps)
  BY <1>1, LenProperties
<1>3. otps' = RemoveAt(otps, i)
  BY DEF PurgeCode
<1>4. /\ otps' \in Seq(OTP) /\ Len(otps') = Len(otps) - 1
      /\ \A j \in 1..(Len(otps) - 1) : otps'[j] = IF j < i THEN otps[j] ELSE otps[j + 1]
  BY <1>1, <1>2, <1>3, RemoveOne
<1>5. \A j \in 1..(Len(otps) - 1) : j \in 1..Len(otps) /\ j + 1 \in 1..Len(otps)
  BY <1>2
<1>6. QED BY <1>2, <1>4, <1>5

(* A step that one request takes, and the steps that none does. *)
Asking(h) ==
    \/ StartGenerate(h) \/ SeekOld(h) \/ ClearOld(h) \/ UpsertCode(h)
    \/ \E right \in BOOLEAN : StartVerify(h, right)
    \/ FindCode(h) \/ DropExpired(h) \/ CountGuess(h) \/ LockRow(h) \/ AcceptCode(h)
    \/ DropAsk(h)

(* A request that answers, goes on, or takes the time or a code along. *)
LEMMA AskMoves ==
    ASSUME NEW a \in Ask, NEW step \in AskStep
    PROVE  /\ \E new \in Ask : new = [a EXCEPT !.at = step] /\ new.at = step
           /\ \A b \in 0..MaxTime :
                 \E new \in Ask : new = [a EXCEPT !.at = step, !.born = b] /\ new.at = step
           /\ \A r \in BOOLEAN :
                 \E new \in Ask : new = [a EXCEPT !.at = step, !.right = r] /\ new.at = step
<1>1. [a EXCEPT !.at = step] \in Ask /\ [a EXCEPT !.at = step].at = step
  BY DEF Ask
<1>2. ASSUME NEW b \in 0..MaxTime
      PROVE  /\ [a EXCEPT !.at = step, !.born = b] \in Ask
             /\ [a EXCEPT !.at = step, !.born = b].at = step
  BY DEF Ask
<1>3. ASSUME NEW r \in BOOLEAN
      PROVE  /\ [a EXCEPT !.at = step, !.right = r] \in Ask
             /\ [a EXCEPT !.at = step, !.right = r].at = step
  BY DEF Ask
<1>4. QED BY <1>1, <1>2, <1>3

(* The code that a right guess takes along. *)
LEMMA AskAccepts ==
    ASSUME NEW a \in Ask, NEW c \in 0..MaxCodes
    PROVE  \E new \in Ask : /\ new = [a EXCEPT !.at = "accept", !.code = c]
                            /\ new.at = "accept" /\ new.code = c
<1>1. /\ [a EXCEPT !.at = "accept", !.code = c] \in Ask
      /\ [a EXCEPT !.at = "accept", !.code = c].at = "accept"
      /\ [a EXCEPT !.at = "accept", !.code = c].code = c
  BY DEF Ask, AskStep
<1>2. QED BY <1>1

(* The request that is over. *)
LEMMA NoAskFields == NoAsk \in Ask /\ NoAsk.at = "idle"
BY CodesAssumption DEF NoAsk, Ask, AskStep

(* Where each step takes the request whose turn it is; it touches no other.   *)
LEMMA AskTurn ==
    ASSUME CodesTypeOK, NEW h \in Askers, Asking(h)
    PROVE  /\ ask' \in [Askers -> Ask]
           /\ \A g \in Askers \ {h} : ask'[g] = ask[g]
           /\ StartGenerate(h) => ask'[h].at = "seek"
           /\ SeekOld(h) => ask'[h].at = "put" \/ (ask'[h].at = "clear" /\ UNCHANGED faults
                                                   /\ otps # <<>> /\ ~ Cooling(Head(otps)))
           /\ ClearOld(h) => ask'[h].at = "put"
           /\ (\E right \in BOOLEAN : StartVerify(h, right)) => ask'[h].at = "find"
           /\ FindCode(h) =>
                 \/ ask'[h].at = "idle" /\ UNCHANGED tries
                 \/ ask'[h].at = "drop" /\ otps # <<>> /\ Expired(Head(otps)) /\ UNCHANGED tries
                 \/ /\ ask'[h].at = "count" /\ otps # <<>> /\ ~ Head(otps).locked
                    /\ tries' = tries + (IF Head(otps).code = followed THEN 1 ELSE 0)
                 \/ /\ ask'[h].at = "accept" /\ otps # <<>> /\ UNCHANGED tries
                    /\ ask'[h].code = Head(otps).code
           /\ CountGuess(h) =>
                 \/ ask'[h].at = "idle" /\ (otps # <<>> => otps[1].fails + 1 < MaxFailed)
                 \/ ask'[h].at = "lock" /\ otps # <<>> /\ otps[1].fails + 1 >= MaxFailed
           /\ (\/ UpsertCode(h) \/ DropExpired(h) \/ LockRow(h)
               \/ AcceptCode(h) \/ DropAsk(h)) => ask'[h].at = "idle"
<1>1. ask \in [Askers -> Ask] /\ ask[h] \in Ask /\ clock \in 0..MaxTime
  BY DEF CodesTypeOK
<1>2. ASSUME NEW new \in Ask, ask' = [ask EXCEPT ![h] = new]
      PROVE  /\ ask' \in [Askers -> Ask] /\ ask'[h] = new
             /\ \A g \in Askers \ {h} : ask'[g] = ask[g]
  BY <1>1, <1>2
<1>3. ASSUME NEW step \in AskStep, AskNext(h, step)
      PROVE  /\ ask' \in [Askers -> Ask] /\ ask'[h].at = step
             /\ \A g \in Askers \ {h} : ask'[g] = ask[g]
  <2>1. PICK new \in Ask : new = [ask[h] EXCEPT !.at = step] /\ new.at = step
    BY <1>1, AskMoves
  <2>2. ask' = [ask EXCEPT ![h] = new]
    BY <1>3, <2>1 DEF AskNext
  <2>3. QED BY <1>2, <2>1, <2>2
<1>4. ASSUME ask' = [ask EXCEPT ![h].at = "put", ![h].born = clock]
      PROVE  /\ ask' \in [Askers -> Ask] /\ ask'[h].at = "put"
             /\ \A g \in Askers \ {h} : ask'[g] = ask[g]
  <2>0. "put" \in AskStep
    BY DEF AskStep
  <2>1. PICK new \in Ask : new = [ask[h] EXCEPT !.at = "put", !.born = clock] /\ new.at = "put"
    BY <1>1, <2>0, AskMoves
  <2>2. ask' = [ask EXCEPT ![h] = new]
    BY <1>4, <2>1
  <2>3. QED BY <1>2, <2>1, <2>2
<1>5. ASSUME Answer(h)
      PROVE  /\ ask' \in [Askers -> Ask] /\ ask'[h].at = "idle"
             /\ \A g \in Askers \ {h} : ask'[g] = ask[g]
  BY <1>2, <1>5, NoAskFields DEF Answer
<1>6. /\ "seek" \in AskStep /\ "clear" \in AskStep /\ "find" \in AskStep /\ "drop" \in AskStep
      /\ "count" \in AskStep /\ "lock" \in AskStep /\ "accept" \in AskStep
  BY DEF AskStep
<1> DEFINE Others == ask' \in [Askers -> Ask] /\ \A g \in Askers \ {h} : ask'[g] = ask[g]
<1>7. ASSUME StartGenerate(h)
      PROVE  Others /\ ask'[h].at = "seek"
  BY <1>3, <1>6, <1>7 DEF StartGenerate
<1>8. ASSUME SeekOld(h)
      PROVE  /\ Others
             /\ ask'[h].at = "put" \/ (ask'[h].at = "clear" /\ UNCHANGED faults
                                       /\ otps # <<>> /\ ~ Cooling(Head(otps)))
  <2>1. CASE ask' = [ask EXCEPT ![h].at = "put", ![h].born = clock]
    BY <1>4, <2>1
  <2>2. CASE AskNext(h, "clear") /\ UNCHANGED faults /\ otps # <<>> /\ ~ Cooling(Head(otps))
    BY <1>3, <1>6, <2>2
  <2>3. QED BY <1>8, <2>1, <2>2 DEF SeekOld
<1>9. ASSUME ClearOld(h)
      PROVE  Others /\ ask'[h].at = "put"
  BY <1>4, <1>9 DEF ClearOld
<1>10. ASSUME NEW right \in BOOLEAN, StartVerify(h, right)
       PROVE  Others /\ ask'[h].at = "find"
  <2>1. PICK new \in Ask : /\ new = [ask[h] EXCEPT !.at = "find", !.right = right]
                           /\ new.at = "find"
    <3>1. "find" \in AskStep
      BY <1>6
    <3>2. \A r \in BOOLEAN :
             \E new \in Ask : new = [ask[h] EXCEPT !.at = "find", !.right = r] /\ new.at = "find"
      BY <1>1, <3>1, AskMoves
    <3>3. QED BY <3>2
  <2>2. ask' = [ask EXCEPT ![h] = new]
    BY <1>10, <2>1 DEF StartVerify
  <2>3. QED BY <1>2, <2>1, <2>2
<1>11. ASSUME FindCode(h)
       PROVE  /\ Others
              /\ \/ ask'[h].at = "idle" /\ UNCHANGED tries
                 \/ ask'[h].at = "drop" /\ otps # <<>> /\ Expired(Head(otps)) /\ UNCHANGED tries
                 \/ /\ ask'[h].at = "count" /\ otps # <<>> /\ ~ Head(otps).locked
                    /\ tries' = tries + (IF Head(otps).code = followed THEN 1 ELSE 0)
                 \/ /\ ask'[h].at = "accept" /\ otps # <<>> /\ UNCHANGED tries
                    /\ ask'[h].code = Head(otps).code
  <2>1. CASE otps = <<>> \/ (otps # <<>> /\ Head(otps).locked)
    <3>1. Answer(h) /\ UNCHANGED tries
      BY <1>11, <2>1 DEF FindCode
    <3>2. QED BY <1>5, <3>1
  <2>2. CASE ~ (otps = <<>> \/ (otps # <<>> /\ Head(otps).locked))
    <3>1. otps # <<>> /\ ~ Head(otps).locked
      BY <2>2
    <3>2. Head(otps).code \in 0..MaxCodes
      BY <3>1, CodesAssumption, FirstRow DEF OTP, Codes
    <3>3. PICK c \in 0..MaxCodes : c = Head(otps).code
      BY <3>2
    <3>4. PICK new \in Ask : /\ new = [ask[h] EXCEPT !.at = "accept", !.code = c]
                             /\ new.at = "accept" /\ new.code = c
      BY <1>1, AskAccepts
    <3>5. \/ Expired(Head(otps)) /\ AskNext(h, "drop") /\ UNCHANGED tries
          \/ /\ AskNext(h, "count")
             /\ tries' = tries + (IF Head(otps).code = followed THEN 1 ELSE 0)
          \/ ask' = [ask EXCEPT ![h] = new] /\ UNCHANGED tries
      BY <1>11, <2>2, <3>3, <3>4 DEF FindCode
    <3>6. CASE Expired(Head(otps)) /\ AskNext(h, "drop") /\ UNCHANGED tries
      BY <1>3, <1>6, <3>1, <3>6
    <3>7. CASE /\ AskNext(h, "count")
               /\ tries' = tries + (IF Head(otps).code = followed THEN 1 ELSE 0)
      BY <1>3, <1>6, <3>1, <3>7
    <3>8. CASE ask' = [ask EXCEPT ![h] = new] /\ UNCHANGED tries
      BY <1>2, <3>1, <3>3, <3>4, <3>8
    <3>9. QED BY <3>5, <3>6, <3>7, <3>8
  <2>3. QED BY <2>1, <2>2
<1>12. ASSUME CountGuess(h)
       PROVE  /\ Others
              /\ \/ ask'[h].at = "idle" /\ (otps # <<>> => otps[1].fails + 1 < MaxFailed)
                 \/ ask'[h].at = "lock" /\ otps # <<>> /\ otps[1].fails + 1 >= MaxFailed
  <2>1. CASE otps = <<>>
    BY <1>5, <1>12, <2>1 DEF CountGuess
  <2>2. CASE otps # <<>>
    <3>1. otps[1].fails \in Nat /\ Head(otps) = otps[1] /\ MaxFailed \in Nat
      BY <2>2, CodesAssumption, FirstRow
    <3>2. CASE otps[1].fails + 1 >= MaxFailed
      BY <1>3, <1>6, <1>12, <2>2, <3>1, <3>2 DEF CountGuess
    <3>3. CASE ~ (otps[1].fails + 1 >= MaxFailed)
      BY <1>5, <1>12, <2>2, <3>1, <3>3 DEF CountGuess
    <3>4. QED BY <3>2, <3>3
  <2>3. QED BY <2>1, <2>2
<1>13. ASSUME UpsertCode(h) \/ DropExpired(h) \/ LockRow(h) \/ AcceptCode(h) \/ DropAsk(h)
       PROVE  Others /\ ask'[h].at = "idle"
  BY <1>5, <1>13 DEF UpsertCode, DropExpired, LockRow, AcceptCode, DropAsk
<1> HIDE DEF Others
<1>14. Others
  BY <1>7, <1>8, <1>9, <1>10, <1>11, <1>12, <1>13 DEF Asking
<1>15. (\E right \in BOOLEAN : StartVerify(h, right)) => ask'[h].at = "find"
  BY <1>10
<1>16. QED BY <1>7, <1>8, <1>9, <1>11, <1>12, <1>13, <1>14, <1>15 DEF Others

(* What a step does to the rows: it leaves them all, or none; it changes none *)
(* of their codes; one is taken out; or the next code is written.            *)
LEMMA RowsTurn ==
    ASSUME CodesTypeOK, [CodesNext]_codesVars
    PROVE  /\ otps' \in Seq(OTP)
           /\ issued' \in 0..MaxCodes
           /\ \/ UNCHANGED <<otps, issued>>
              \/ otps' = <<>> /\ UNCHANGED issued
              \/ /\ UNCHANGED issued
                 /\ Len(otps') = Len(otps)
                 /\ \A j \in 1..Len(otps) : otps'[j].code = otps[j].code
              \/ /\ UNCHANGED issued
                 /\ \E i \in 1..Len(otps) :
                       /\ Len(otps') = Len(otps) - 1
                       /\ \A j \in 1..Len(otps') :
                             /\ j \in 1..Len(otps) /\ j + 1 \in 1..Len(otps)
                             /\ otps'[j] = IF j < i THEN otps[j] ELSE otps[j + 1]
              \/ /\ issued' = issued + 1
                 /\ Len(otps') \in {Len(otps), Len(otps) + 1} /\ Len(otps') # 0
                 /\ \E i \in 1..Len(otps') :
                       /\ otps'[i].code = issued + 1
                       /\ \A j \in 1..Len(otps') : j # i => j \in 1..Len(otps) /\ otps'[j] = otps[j]
<1>1. otps \in Seq(OTP) /\ issued \in 0..MaxCodes /\ <<>> \in Seq(OTP)
  BY EmptySeq DEF CodesTypeOK
<1>2. CASE UNCHANGED <<otps, issued>>
  BY <1>1, <1>2
<1>3. CASE otps' = <<>> /\ UNCHANGED issued
  BY <1>1, <1>3
<1>4. ASSUME NEW h \in Askers, Asking(h), ~ UpsertCode(h), ~ CountGuess(h), ~ LockRow(h)
      PROVE  (UNCHANGED <<otps, issued>>) \/ (otps' = <<>> /\ UNCHANGED issued)
  BY <1>4 DEF Asking, StartGenerate, SeekOld, ClearOld, StartVerify, FindCode, DropExpired,
              AcceptCode, DropAsk
<1>5. ASSUME NEW h \in Askers, CountGuess(h) \/ LockRow(h)
      PROVE  /\ UNCHANGED issued /\ otps' \in Seq(OTP) /\ Len(otps') = Len(otps)
             /\ \A j \in 1..Len(otps) : otps'[j].code = otps[j].code
  BY <1>5, FirstRowChanges DEF CountGuess, LockRow
<1>6. ASSUME NEW i \in DOMAIN otps, PurgeCode(i)
      PROVE  /\ UNCHANGED issued /\ i \in 1..Len(otps) /\ otps' \in Seq(OTP)
             /\ Len(otps') = Len(otps) - 1
             /\ \A j \in 1..Len(otps') :
                   /\ j \in 1..Len(otps) /\ j + 1 \in 1..Len(otps)
                   /\ otps'[j] = IF j < i THEN otps[j] ELSE otps[j + 1]
  <2>1. UNCHANGED issued
    BY <1>6 DEF PurgeCode
  <2>2. QED BY <1>6, <2>1, PurgeRows
<1>7. CASE Tick \/ UNCHANGED codesVars
  BY <1>2, <1>7 DEF Tick, codesVars
<1>8. CASE \E h \in Askers : Asking(h)
  <2>1. PICK h \in Askers : Asking(h)
    BY <1>8
  <2>2. CASE UpsertCode(h)
    BY <2>2, UpsertRows
  <2>3. CASE CountGuess(h) \/ LockRow(h)
    BY <1>1, <1>5, <2>3
  <2>4. CASE ~ UpsertCode(h) /\ ~ CountGuess(h) /\ ~ LockRow(h)
    BY <1>2, <1>3, <1>4, <2>1, <2>4
  <2>5. QED BY <2>2, <2>3, <2>4
<1>9. CASE \E i \in DOMAIN otps : PurgeCode(i)
  <2>1. PICK i \in DOMAIN otps : PurgeCode(i)
    BY <1>9
  <2>2. QED BY <1>1, <1>6, <2>1
<1>10. QED BY <1>7, <1>8, <1>9 DEF CodesNext, Asking

(* The invariant of types. *)
LEMMA CodesTyped ==
    ASSUME CodesTypeOK, [CodesNext]_codesVars
    PROVE  CodesTypeOK'
<1>1. /\ clock \in 0..MaxTime /\ ask \in [Askers -> Ask] /\ followed \in Codes
      /\ tries \in Nat /\ uses \in Nat /\ accepts \in Nat /\ faults \in 0..MaxFaults
      /\ MaxTime \in Nat /\ MaxFaults \in Nat
  BY CodesAssumption DEF CodesTypeOK
<1>2. otps' \in Seq(OTP) /\ issued' \in 0..MaxCodes
  BY RowsTurn
<1>3. ASSUME NEW h \in Askers, Asking(h)
      PROVE  /\ ask' \in [Askers -> Ask] /\ clock' = clock /\ followed' = followed
             /\ tries' \in Nat /\ uses' \in Nat /\ accepts' \in Nat /\ faults' \in 0..MaxFaults
  <2>1. ask' \in [Askers -> Ask]
    BY <1>3, AskTurn
  <2>2. clock' = clock /\ followed' = followed
    BY <1>3 DEF Asking, StartGenerate, SeekOld, ClearOld, UpsertCode, StartVerify, FindCode,
                DropExpired, CountGuess, LockRow, AcceptCode, DropAsk
  <2>3. tries' = tries \/ tries' = tries + 1
    <3>1. CASE FindCode(h)
      BY <1>1, <1>3, <3>1, AskTurn
    <3>2. CASE ~ FindCode(h)
      BY <1>3, <3>2 DEF Asking, StartGenerate, SeekOld, ClearOld, UpsertCode, StartVerify,
                        DropExpired, CountGuess, LockRow, AcceptCode, DropAsk
    <3>3. QED BY <3>1, <3>2
  <2>4. (UNCHANGED <<uses, accepts>>)
        \/ (accepts' = accepts + 1 /\ uses' = uses + (IF ask[h].code = followed THEN 1 ELSE 0))
    BY <1>3 DEF Asking, StartGenerate, SeekOld, ClearOld, UpsertCode, StartVerify, FindCode,
                DropExpired, CountGuess, LockRow, AcceptCode, DropAsk
  <2>5. (UNCHANGED faults) \/ Fault
    BY <1>3 DEF Asking, StartGenerate, SeekOld, ClearOld, UpsertCode, StartVerify, FindCode,
                DropExpired, CountGuess, LockRow, AcceptCode, DropAsk
  <2>6. faults' \in 0..MaxFaults
    BY <1>1, <2>5 DEF Fault
  <2>7. QED BY <1>1, <2>1, <2>2, <2>3, <2>4, <2>6
<1>4. CASE \E h \in Askers : Asking(h)
  BY <1>1, <1>2, <1>3, <1>4 DEF CodesTypeOK
<1>5. CASE Tick \/ (\E i \in DOMAIN otps : PurgeCode(i)) \/ UNCHANGED codesVars
  <2>1. UNCHANGED <<ask, followed, tries, uses, accepts, faults>>
    BY <1>5 DEF Tick, PurgeCode, codesVars
  <2>2. clock' \in 0..MaxTime
    BY <1>1, <1>5 DEF Tick, PurgeCode, codesVars
  <2>3. QED BY <1>1, <1>2, <2>1, <2>2 DEF CodesTypeOK
<1>6. QED BY <1>4, <1>5 DEF CodesNext, Asking

(* The state before any code is sent. *)
LEMMA CodesBegin ==
    ASSUME CodesInit
    PROVE  CodesTypeOK /\ otps = <<>> /\ \A h \in Askers : ask[h].at = "idle"
BY CodesAssumption, NoAskFields, EmptySeq DEF CodesInit, CodesTypeOK, Codes

(* Type correctness of the rows, the codes and the requests. *)
THEOREM CodesTypeCorrect == CodesSpec => []CodesTypeOK
<1>1. CodesInit => CodesTypeOK
  BY CodesBegin
<1>2. CodesTypeOK /\ [CodesNext]_codesVars => CodesTypeOK'
  BY CodesTyped
<1>3. QED BY <1>1, <1>2, PTL DEF CodesSpec

(* A code is issued once, so the rows have different ones, and a request can  *)
(* accept only a code that was issued.                                       *)
Numbered ==
    /\ \A i \in 1..Len(otps) : otps[i].code <= issued
    /\ \A i, j \in 1..Len(otps) : otps[i].code = otps[j].code => i = j
    /\ \A h \in Askers : ask[h].at = "accept" => ask[h].code <= issued

(* What the later invariants of a step start from. *)
LEMMA CodeNumbers ==
    ASSUME CodesTypeOK
    PROVE  /\ Len(otps) \in Nat /\ issued \in Nat /\ followed \in Nat
           /\ \A i \in 1..Len(otps) : otps[i] \in OTP /\ otps[i].code \in Nat
           /\ \A h \in Askers : ask[h] \in Ask /\ ask[h].code \in Nat
<1>1. otps \in Seq(OTP) /\ ask \in [Askers -> Ask]
  BY DEF CodesTypeOK
<1>2. Len(otps) \in Nat /\ \A i \in 1..Len(otps) : otps[i] \in OTP
  BY <1>1, LenProperties, ElementOfSeq
<1>3. QED BY <1>1, <1>2, CodesAssumption DEF CodesTypeOK, OTP, Ask, Codes

(* The rows keep different codes, none beyond the newest. *)
LEMMA RowsNumbered ==
    ASSUME CodesTypeOK, CodesTypeOK', Numbered, [CodesNext]_codesVars
    PROVE  /\ issued <= issued'
           /\ \A i \in 1..Len(otps') : otps'[i].code <= issued'
           /\ \A i, j \in 1..Len(otps') : otps'[i].code = otps'[j].code => i = j
<1>1. /\ Len(otps) \in Nat /\ issued \in Nat
      /\ \A i \in 1..Len(otps) : otps[i].code \in Nat
  BY CodeNumbers
<1>2. /\ \A i \in 1..Len(otps) : otps[i].code <= issued
      /\ \A i, j \in 1..Len(otps) : otps[i].code = otps[j].code => i = j
  BY DEF Numbered
<1>3. CASE UNCHANGED <<otps, issued>>
  BY <1>1, <1>2, <1>3
<1>4. CASE otps' = <<>> /\ UNCHANGED issued
  <2>1. Len(otps') = 0
    BY <1>4
  <2>2. QED BY <1>1, <1>4, <2>1
<1>5. CASE /\ UNCHANGED issued
           /\ Len(otps') = Len(otps)
           /\ \A j \in 1..Len(otps) : otps'[j].code = otps[j].code
  BY <1>1, <1>2, <1>5
<1>6. ASSUME UNCHANGED issued, NEW i \in 1..Len(otps), Len(otps') = Len(otps) - 1,
             \A j \in 1..Len(otps') :
                /\ j \in 1..Len(otps) /\ j + 1 \in 1..Len(otps)
                /\ otps'[j] = IF j < i THEN otps[j] ELSE otps[j + 1]
      PROVE  /\ \A j \in 1..Len(otps') : otps'[j].code <= issued'
             /\ \A j, k \in 1..Len(otps') : otps'[j].code = otps'[k].code => j = k
  <2>1. \A j \in 1..Len(otps') : otps'[j].code <= issued'
    BY <1>2, <1>6
  <2>2. ASSUME NEW j \in 1..Len(otps'), NEW k \in 1..Len(otps'), otps'[j].code = otps'[k].code
        PROVE  j = k
    <3>1. /\ j \in 1..Len(otps) /\ j + 1 \in 1..Len(otps) /\ k \in 1..Len(otps)
          /\ k + 1 \in 1..Len(otps) /\ j \in Nat /\ k \in Nat /\ i \in Nat
      BY <1>1, <1>6
    <3>2. /\ otps'[j] = IF j < i THEN otps[j] ELSE otps[j + 1]
          /\ otps'[k] = IF k < i THEN otps[k] ELSE otps[k + 1]
      BY <1>6
    <3>3. (IF j < i THEN j ELSE j + 1) = (IF k < i THEN k ELSE k + 1)
      BY <1>2, <2>2, <3>1, <3>2
    <3>4. QED BY <3>1, <3>3
  <2>3. QED BY <2>1, <2>2
<1>7. ASSUME issued' = issued + 1, NEW i \in 1..Len(otps'), otps'[i].code = issued + 1,
             \A j \in 1..Len(otps') : j # i => j \in 1..Len(otps) /\ otps'[j] = otps[j]
      PROVE  /\ \A j \in 1..Len(otps') : otps'[j].code <= issued'
             /\ \A j, k \in 1..Len(otps') : otps'[j].code = otps'[k].code => j = k
  <2>1. \A j \in 1..Len(otps') : j # i => otps'[j].code <= issued /\ otps'[j].code \in Nat
    BY <1>1, <1>2, <1>7
  <2>2. \A j, k \in 1..Len(otps') : j # i /\ k # i /\ otps'[j].code = otps'[k].code => j = k
    BY <1>2, <1>7
  <2>3. \A j \in 1..Len(otps') : j # i => otps'[j].code # otps'[i].code
    BY <1>1, <1>7, <2>1
  <2>4. ASSUME NEW j \in 1..Len(otps'), NEW k \in 1..Len(otps'), otps'[j].code = otps'[k].code
        PROVE  j = k
    BY <2>2, <2>3, <2>4
  <2>5. ASSUME NEW j \in 1..Len(otps')
        PROVE  otps'[j].code <= issued'
    <3>1. CASE j = i
      BY <1>1, <1>7, <3>1
    <3>2. CASE j # i
      BY <1>1, <1>7, <2>1, <3>2
    <3>3. QED BY <3>1, <3>2
  <2>6. QED BY <2>4, <2>5
<1>8. issued <= issued'
  BY <1>1, RowsTurn
<1>9. QED BY <1>3, <1>4, <1>5, <1>6, <1>7, <1>8, RowsTurn

(* The invariant of the codes' numbers. *)
LEMMA NumberedStep ==
    ASSUME CodesTypeOK, CodesTypeOK', Numbered, [CodesNext]_codesVars
    PROVE  Numbered'
<1>1. /\ issued <= issued'
      /\ \A i \in 1..Len(otps') : otps'[i].code <= issued'
      /\ \A i, j \in 1..Len(otps') : otps'[i].code = otps'[j].code => i = j
  BY RowsNumbered
<1>2. issued \in Nat /\ issued' \in Nat /\ \A h \in Askers : ask[h].code \in Nat
  BY CodesAssumption, CodeNumbers DEF CodesTypeOK
<1>3. ASSUME NEW g \in Askers, ask'[g] = ask[g], ask'[g].at = "accept"
      PROVE  ask'[g].code <= issued'
  BY <1>1, <1>2, <1>3 DEF Numbered
<1>4. ASSUME NEW h \in Askers, Asking(h), ask'[h].at = "accept"
      PROVE  ask'[h].code <= issued'
  <2>1. /\ FindCode(h) /\ otps # <<>> /\ ask'[h].code = Head(otps).code
    BY <1>4, AskTurn DEF Asking
  <2>2. Head(otps) = otps[1] /\ 1 \in 1..Len(otps)
    BY <2>1, FirstRow
  <2>3. otps[1].code <= issued /\ otps[1].code \in Nat
    BY <2>2, CodeNumbers DEF Numbered
  <2>4. QED BY <1>1, <1>2, <2>1, <2>2, <2>3
<1>5. \A g \in Askers : ask'[g].at = "accept" => ask'[g].code <= issued'
  <2>1. CASE \E h \in Askers : Asking(h)
    BY <1>3, <1>4, <2>1, AskTurn
  <2>2. CASE Tick \/ (\E i \in DOMAIN otps : PurgeCode(i)) \/ UNCHANGED codesVars
    BY <1>3, <2>2 DEF Tick, PurgeCode, codesVars
  <2>3. QED BY <2>1, <2>2 DEF CodesNext, Asking
<1>6. QED BY <1>1, <1>5 DEF Numbered

(* Requests about to store a code, to count a wrong guess or lock its row, and *)
(* to accept the code that is followed.                                      *)
Putting == {h \in Askers : ask[h].at = "put"}
Guessing == {h \in Askers : ask[h].at \in {"count", "lock"}}
Accepting == {h \in Askers : ask[h].at = "accept" /\ ask[h].code = followed}

(* A set of requests is no larger than all of them. *)
LEMMA SizeOfAsking ==
    ASSUME NEW S \in SUBSET Askers
    PROVE  /\ IsFiniteSet(S) /\ Cardinality(S) \in Nat /\ Cardinality(Askers) \in Nat
           /\ Cardinality(S) <= Cardinality(Askers)
BY CodesAssumption, PartSize

(* A request's turn moves it alone into and out of a set of them. *)
LEMMA OneTurn ==
    ASSUME NEW h \in Askers, NEW S \in SUBSET Askers, NEW T \in SUBSET Askers,
           S \ {h} = T \ {h}
    PROVE  /\ Cardinality(S) \in Nat /\ Cardinality(T) \in Nat /\ Cardinality(Askers) \in Nat
           /\ Cardinality(S) <= Cardinality(Askers) /\ Cardinality(T) <= Cardinality(Askers)
           /\ Cardinality(T) = Cardinality(S) - One(h, S) + One(h, T)
<1>1. /\ IsFiniteSet(S) /\ Cardinality(S) \in Nat /\ Cardinality(T) \in Nat
      /\ Cardinality(Askers) \in Nat
      /\ Cardinality(S) <= Cardinality(Askers) /\ Cardinality(T) <= Cardinality(Askers)
  BY SizeOfAsking
<1>2. Cardinality(T) - One(h, T) = Cardinality(S) - One(h, S)
  BY <1>1, OneApart
<1>3. One(h, S) \in Nat /\ One(h, T) \in Nat
  BY DEF One
<1>4. QED BY <1>1, <1>2, <1>3

(* The sizes of the three sets after a request's turn. *)
LEMMA AskCounts ==
    ASSUME CodesTypeOK, NEW h \in Askers, Asking(h)
    PROVE  /\ Cardinality(Askers) \in Nat
           /\ Cardinality(Putting) \in Nat /\ Cardinality(Putting)' \in Nat
           /\ Cardinality(Putting)' <= Cardinality(Askers)
           /\ Cardinality(Putting)' = Cardinality(Putting) - One(h, Putting) + One(h, Putting')
           /\ Cardinality(Guessing) \in Nat /\ Cardinality(Guessing)' \in Nat
           /\ Cardinality(Guessing)' <= Cardinality(Askers)
           /\ Cardinality(Guessing)' = Cardinality(Guessing) - One(h, Guessing) + One(h, Guessing')
           /\ Cardinality(Accepting) \in Nat /\ Cardinality(Accepting)' \in Nat
           /\ Cardinality(Accepting)' <= Cardinality(Askers)
           /\ Cardinality(Accepting)'
                = Cardinality(Accepting) - One(h, Accepting) + One(h, Accepting')
<1>1. \A g \in Askers \ {h} : ask'[g] = ask[g]
  BY AskTurn
<1>2. followed' = followed
  BY DEF Asking, StartGenerate, SeekOld, ClearOld, UpsertCode, StartVerify, FindCode,
         DropExpired, CountGuess, LockRow, AcceptCode, DropAsk
<1>3. /\ Putting \in SUBSET Askers /\ Putting' \in SUBSET Askers
      /\ Putting \ {h} = Putting' \ {h}
  BY <1>1 DEF Putting
<1>4. /\ Guessing \in SUBSET Askers /\ Guessing' \in SUBSET Askers
      /\ Guessing \ {h} = Guessing' \ {h}
  BY <1>1 DEF Guessing
<1>5. /\ Accepting \in SUBSET Askers /\ Accepting' \in SUBSET Askers
      /\ Accepting \ {h} = Accepting' \ {h}
  BY <1>1, <1>2 DEF Accepting
<1>6. /\ Cardinality(Putting) \in Nat /\ Cardinality(Putting') \in Nat
      /\ Cardinality(Askers) \in Nat /\ Cardinality(Putting') <= Cardinality(Askers)
      /\ Cardinality(Putting') = Cardinality(Putting) - One(h, Putting) + One(h, Putting')
  BY <1>3, OneTurn
<1>7. /\ Cardinality(Guessing) \in Nat /\ Cardinality(Guessing') \in Nat
      /\ Cardinality(Guessing') <= Cardinality(Askers)
      /\ Cardinality(Guessing') = Cardinality(Guessing) - One(h, Guessing) + One(h, Guessing')
  BY <1>4, OneTurn
<1>8. /\ Cardinality(Accepting) \in Nat /\ Cardinality(Accepting') \in Nat
      /\ Cardinality(Accepting') <= Cardinality(Askers)
      /\ Cardinality(Accepting')
           = Cardinality(Accepting) - One(h, Accepting) + One(h, Accepting')
  BY <1>5, OneTurn
<1>9. QED BY <1>6, <1>7, <1>8

(* The code followed is still to be issued, or in a row, or in a row that is  *)
(* not the first.                                                            *)
Ahead == issued < followed \/ \E i \in 1..Len(otps) : otps[i].code = followed
Waiting == issued < followed \/ \E i \in 2..Len(otps) : otps[i].code = followed

(* A code whose row is gone never comes back, and the first row stays the     *)
(* first as long as it is there.                                             *)
LEMMA CodesPass ==
    ASSUME CodesTypeOK, [CodesNext]_codesVars
    PROVE  /\ followed' = followed
           /\ Ahead' => Ahead
           /\ Waiting' => Waiting
<1>1. /\ Len(otps) \in Nat /\ issued \in Nat /\ followed \in Nat
      /\ \A i \in 1..Len(otps) : otps[i].code \in Nat
  BY CodeNumbers
<1>2. followed' = followed
  BY DEF CodesNext, StartGenerate, SeekOld, ClearOld, UpsertCode, StartVerify, FindCode,
         DropExpired, CountGuess, LockRow, AcceptCode, DropAsk, PurgeCode, Tick, codesVars
<1>3. CASE UNCHANGED <<otps, issued>>
  BY <1>2, <1>3 DEF Ahead, Waiting
<1>4. CASE otps' = <<>> /\ UNCHANGED issued
  <2>1. Len(otps') = 0
    BY <1>4
  <2>2. QED BY <1>1, <1>2, <1>4, <2>1 DEF Ahead, Waiting
<1>5. CASE /\ UNCHANGED issued
           /\ Len(otps') = Len(otps)
           /\ \A j \in 1..Len(otps) : otps'[j].code = otps[j].code
  BY <1>1, <1>2, <1>5 DEF Ahead, Waiting
<1>6. ASSUME UNCHANGED issued, NEW i \in 1..Len(otps), Len(otps') = Len(otps) - 1,
             \A j \in 1..Len(otps') :
                /\ j \in 1..Len(otps) /\ j + 1 \in 1..Len(otps)
                /\ otps'[j] = IF j < i THEN otps[j] ELSE otps[j + 1]
      PROVE  (Ahead' => Ahead) /\ (Waiting' => Waiting)
  <2>1. ASSUME NEW j \in 1..Len(otps'), otps'[j].code = followed
        PROVE  \E k \in 1..Len(otps) : k >= j /\ otps[k].code = followed
    <3>1. j \in 1..Len(otps) /\ j + 1 \in 1..Len(otps) /\ j \in Nat
      BY <1>1, <1>6
    <3>2. otps'[j] = otps[j] \/ otps'[j] = otps[j + 1]
      BY <1>6
    <3>3. QED BY <2>1, <3>1, <3>2
  <2>2. Ahead' => Ahead
    BY <1>2, <1>6, <2>1 DEF Ahead
  <2>3. ASSUME NEW j \in 2..Len(otps'), otps'[j].code = followed
        PROVE  \E k \in 2..Len(otps) : otps[k].code = followed
    <3>1. j \in 1..Len(otps') /\ j \in Nat /\ 2 <= j
      BY <1>1, <1>6
    <3>2. PICK k \in 1..Len(otps) : k >= j /\ otps[k].code = followed
      BY <2>1, <2>3, <3>1
    <3>3. QED BY <1>1, <3>1, <3>2
  <2>4. Waiting' => Waiting
    BY <1>2, <1>6, <2>3 DEF Waiting
  <2>5. QED BY <2>2, <2>4
<1>7. ASSUME issued' = issued + 1, NEW i \in 1..Len(otps'), otps'[i].code = issued + 1,
             \A j \in 1..Len(otps') : j # i => j \in 1..Len(otps) /\ otps'[j] = otps[j]
      PROVE  (Ahead' => Ahead) /\ (Waiting' => Waiting)
  <2>1. issued' < followed => issued < followed
    BY <1>1, <1>7
  <2>2. ASSUME NEW j \in 1..Len(otps'), otps'[j].code = followed
        PROVE  issued < followed \/ (j \in 1..Len(otps) /\ otps[j].code = followed)
    BY <1>1, <1>7, <2>2
  <2>3. Ahead' => Ahead
    BY <1>2, <2>1, <2>2 DEF Ahead
  <2>4. ASSUME NEW j \in 2..Len(otps'), otps'[j].code = followed
        PROVE  issued < followed \/ (j \in 2..Len(otps) /\ otps[j].code = followed)
    <3>1. j \in Nat /\ 2 <= j /\ j \in 1..Len(otps')
      OBVIOUS
    <3>2. QED BY <1>1, <2>2, <2>4, <3>1
  <2>5. Waiting' => Waiting
    BY <1>2, <2>1, <2>4 DEF Waiting
  <2>6. QED BY <2>3, <2>5
<1>8. QED BY <1>2, <1>3, <1>4, <1>5, <1>6, <1>7, RowsTurn

(* A code still in a row was never accepted, and those about to accept it read *)
(* it while it was there.                                                    *)
UsesInv ==
    /\ Ahead => uses = 0
    /\ uses + Cardinality(Accepting) <= Cardinality(Askers)

(* Only a request that read the code while its row was there accepts it. *)
LEMMA UsesStep ==
    ASSUME CodesTypeOK, Numbered, UsesInv, [CodesNext]_codesVars
    PROVE  UsesInv'
<1>1. /\ uses \in Nat /\ followed' = followed /\ (Ahead' => Ahead)
  BY CodesPass DEF CodesTypeOK
<1>2. (Ahead => uses = 0) /\ uses + Cardinality(Accepting) <= Cardinality(Askers)
  BY DEF UsesInv
<1>3. CASE Tick \/ (\E i \in DOMAIN otps : PurgeCode(i)) \/ UNCHANGED codesVars
  <2>1. UNCHANGED <<ask, uses>>
    BY <1>3 DEF Tick, PurgeCode, codesVars
  <2>2. Accepting' = Accepting
    BY <1>1, <2>1 DEF Accepting
  <2>3. QED BY <1>1, <1>2, <2>1, <2>2 DEF UsesInv
<1>4. ASSUME NEW h \in Askers, Asking(h)
      PROVE  UsesInv'
  <2>1. /\ Cardinality(Askers) \in Nat /\ Cardinality(Accepting) \in Nat
        /\ Cardinality(Accepting)' \in Nat /\ Cardinality(Accepting)' <= Cardinality(Askers)
        /\ Cardinality(Accepting)'
             = Cardinality(Accepting) - One(h, Accepting) + One(h, Accepting')
    BY <1>4, AskCounts
  <2>2. CASE AcceptCode(h)
    <3>1. /\ ask[h].at = "accept" /\ issued' = issued /\ otps' = <<>>
          /\ uses' = uses + (IF ask[h].code = followed THEN 1 ELSE 0)
      BY <2>2 DEF AcceptCode
    <3>2. ask'[h].at = "idle"
      BY <1>4, <2>2, AskTurn
    <3>3. h \notin Accepting' /\ (h \in Accepting <=> ask[h].code = followed)
      BY <3>1, <3>2 DEF Accepting
    <3>4. uses' + Cardinality(Accepting)' <= Cardinality(Askers)
      BY <1>1, <1>2, <2>1, <3>1, <3>3 DEF One
    <3>5. Ahead' => uses' = 0
      <4>1. Len(otps') = 0
        BY <3>1
      <4>2. Ahead' => issued < followed
        BY <1>1, <3>1, <4>1 DEF Ahead
      <4>3. ask[h].code <= issued /\ ask[h].code \in Nat /\ issued \in Nat /\ followed \in Nat
        BY <3>1, CodeNumbers DEF Numbered
      <4>4. Ahead' => ask[h].code # followed
        BY <4>2, <4>3
      <4>5. QED BY <1>1, <1>2, <3>1, <4>4
    <3>6. QED BY <3>4, <3>5 DEF UsesInv
  <2>3. CASE ~ AcceptCode(h)
    <3>1. uses' = uses
      BY <1>4, <2>3 DEF Asking, StartGenerate, SeekOld, ClearOld, UpsertCode, StartVerify,
                        FindCode, DropExpired, CountGuess, LockRow, DropAsk
    <3>2. CASE h \notin Accepting'
      <4>1. uses' + Cardinality(Accepting)' <= Cardinality(Askers)
        BY <1>1, <1>2, <2>1, <3>1, <3>2 DEF One
      <4>2. QED BY <1>1, <1>2, <3>1, <4>1 DEF UsesInv
    <3>3. CASE h \in Accepting'
      <4>1. ask'[h].at = "accept" /\ ask'[h].code = followed
        BY <1>1, <3>3 DEF Accepting
      <4>2. FindCode(h) /\ otps # <<>> /\ ask'[h].code = Head(otps).code
        BY <1>4, <2>3, <4>1, AskTurn DEF Asking
      <4>3. Ahead
        BY <4>1, <4>2, FirstRow DEF Ahead
      <4>4. uses' + Cardinality(Accepting)' <= Cardinality(Askers)
        BY <1>2, <2>1, <3>1, <4>3
      <4>5. QED BY <1>1, <1>2, <3>1, <4>4 DEF UsesInv
    <3>4. QED BY <3>2, <3>3
  <2>4. QED BY <2>2, <2>3
<1>5. QED BY <1>3, <1>4 DEF CodesNext, Asking

(* The first row is the one followed and takes guesses; the ones counted on   *)
(* it, short of the one that locks it.                                       *)
Open == otps # <<>> /\ otps[1].code = followed /\ ~ otps[1].locked
Spent == IF otps[1].fails < MaxFailed THEN otps[1].fails ELSE MaxFailed - 1

(* The wrong guesses judged against the first row are counted on it, about to *)
(* be, or lost in a fault; once it is locked no more are judged.             *)
GuessesInv ==
    /\ Waiting => tries = 0
    /\ Open => tries <= Spent + Cardinality(Guessing) + faults
    /\ GuessesBounded

(* The numbers that the bound adds up. *)
LEMMA GuessNumbers ==
    ASSUME CodesTypeOK
    PROVE  /\ tries \in Nat /\ faults \in Nat /\ MaxFailed \in Nat \ {0}
           /\ Cardinality(Guessing) \in Nat /\ Cardinality(Askers) \in Nat
           /\ Cardinality(Guessing) <= Cardinality(Askers)
           /\ Open => otps[1].fails \in Nat /\ Spent \in Nat /\ Spent <= MaxFailed - 1
<1>1. tries \in Nat /\ faults \in Nat /\ MaxFailed \in Nat \ {0}
  BY CodesAssumption DEF CodesTypeOK
<1>2. Guessing \in SUBSET Askers
  BY DEF Guessing
<1>3. Open => otps[1].fails \in Nat
  BY FirstRow DEF Open
<1>4. QED BY <1>1, <1>2, <1>3, SizeOfAsking DEF Spent

(* A first row that takes guesses was the first before, and is as it was, but *)
(* for a guess counted on it.                                                *)
LEMMA OpenBefore ==
    ASSUME CodesTypeOK, CodesTypeOK', [CodesNext]_codesVars, Open', ~ Waiting
    PROVE  /\ Open
           /\ ~ \E h \in Askers : LockRow(h)
           /\ (\A h \in Askers : ~ CountGuess(h)) => otps'[1] = otps[1]
<1>1. /\ Len(otps) \in Nat /\ Len(otps') \in Nat /\ issued \in Nat /\ followed \in Nat
      /\ otps' \in Seq(OTP) /\ otps \in Seq(OTP)
  BY CodeNumbers, LenProperties DEF CodesTypeOK
<1>2. followed' = followed /\ (Ahead' => Ahead)
  BY CodesPass
<1>3. otps' # <<>> /\ otps'[1].code = followed /\ ~ otps'[1].locked
  BY <1>2 DEF Open
<1>4. 1 \in 1..Len(otps')
  BY <1>1, <1>3, EmptySeq
<1>5. Ahead
  BY <1>2, <1>3, <1>4 DEF Ahead
<1>6. /\ ~ (issued < followed) /\ \A i \in 2..Len(otps) : otps[i].code # followed
      /\ 1 \in 1..Len(otps) /\ otps[1].code = followed
  <2>1. ~ (issued < followed) /\ \A i \in 2..Len(otps) : otps[i].code # followed
    BY DEF Waiting
  <2>2. PICK i \in 1..Len(otps) : otps[i].code = followed
    BY <1>5, <2>1 DEF Ahead
  <2>3. i = 1
    BY <1>1, <2>1, <2>2
  <2>4. QED BY <2>1, <2>2, <2>3
<1>7. otps # <<>>
  BY <1>1, <1>6
<1>8. ASSUME NEW h \in Askers, LockRow(h)
      PROVE  FALSE
  <2>1. otps'[1].locked
    BY <1>7, <1>8, FirstRowChanges
  <2>2. QED BY <1>3, <2>1
<1>9. ASSUME NEW h \in Askers, CountGuess(h)
      PROVE  Open
  <2>1. otps'[1].locked = otps[1].locked
    BY <1>7, <1>9, FirstRowChanges
  <2>2. QED BY <1>3, <1>6, <1>7, <2>1 DEF Open
<1>10. ASSUME \A h \in Askers : ~ CountGuess(h)
       PROVE  otps'[1] = otps[1]
  <2>1. ASSUME NEW h \in Askers, UpsertCode(h)
        PROVE  otps'[1] = otps[1]
    <3>1. PICK i \in 1..Len(otps') :
             /\ otps'[i].code = issued + 1
             /\ \A j \in 1..Len(otps') : j # i => j \in 1..Len(otps) /\ otps'[j] = otps[j]
      BY <2>1, UpsertRows
    <3>2. i # 1
      BY <1>1, <1>3, <1>6, <3>1
    <3>3. QED BY <1>4, <3>1, <3>2
  <2>2. ASSUME NEW i \in DOMAIN otps, PurgeCode(i)
        PROVE  otps'[1] = otps[1]
    <3>1. /\ 1 + 1 \in 1..Len(otps)
          /\ otps'[1] = IF 1 < i THEN otps[1] ELSE otps[1 + 1]
      BY <1>4, <2>2, PurgeRows
    <3>2. otps[1 + 1].code # followed
      BY <1>1, <1>6, <3>1
    <3>3. QED BY <1>3, <3>1, <3>2
  <2>3. ASSUME NEW h \in Askers, Asking(h), ~ UpsertCode(h)
        PROVE  otps' = otps
    BY <1>3, <1>8, <1>10, <2>3
       DEF Asking, StartGenerate, SeekOld, ClearOld, StartVerify, FindCode, DropExpired,
           AcceptCode, DropAsk
  <2>4. CASE Tick \/ UNCHANGED codesVars
    BY <2>4 DEF Tick, codesVars
  <2>5. QED BY <2>1, <2>2, <2>3, <2>4 DEF CodesNext, Asking
<1>11. CASE \E h \in Askers : CountGuess(h)
  BY <1>8, <1>9, <1>11
<1>12. CASE \A h \in Askers : ~ CountGuess(h)
  <2>1. otps'[1] = otps[1]
    BY <1>10, <1>12
  <2>2. Open
    BY <1>3, <1>6, <1>7, <2>1 DEF Open
  <2>3. QED BY <1>8, <2>1, <2>2
<1>13. QED BY <1>11, <1>12

(* A step that judges no guess against the row adds none to the ones it is    *)
(* to account for.                                                           *)
LEMMA GuessesKept ==
    ASSUME CodesTypeOK, CodesTypeOK', GuessesInv, [CodesNext]_codesVars, tries' = tries
    PROVE  GuessesInv'
<1>1. /\ tries \in Nat /\ faults \in Nat /\ faults' \in Nat
      /\ MaxFailed \in Nat \ {0} /\ Cardinality(Askers) \in Nat
      /\ Cardinality(Guessing) \in Nat /\ Cardinality(Guessing)' \in Nat
  <2>1. Guessing' \in SUBSET Askers
    BY DEF Guessing
  <2>2. Cardinality(Guessing') \in Nat
    BY <2>1, SizeOfAsking
  <2>3. faults' \in Nat
    BY CodesAssumption DEF CodesTypeOK
  <2>4. QED BY <2>2, <2>3, GuessNumbers
<1>2. Waiting' => Waiting
  BY CodesPass
<1>3. faults <= faults'
  <2>1. faults' = faults \/ faults' = faults + 1
    BY DEF CodesNext, StartGenerate, SeekOld, ClearOld, UpsertCode, StartVerify, FindCode,
           DropExpired, CountGuess, LockRow, AcceptCode, DropAsk, PurgeCode, Tick, codesVars, Fault
  <2>2. QED BY <1>1, <2>1
<1>4. (Waiting' => tries' = 0) /\ GuessesBounded'
  BY <1>1, <1>2, <1>3 DEF GuessesInv, GuessesBounded
<1>5. ASSUME Open'
      PROVE  tries' <= Spent' + Cardinality(Guessing)' + faults'
  <2>1. Spent' \in Nat
    <3>1. otps'[1].fails \in Nat
      <4>1. otps' \in Seq(OTP) /\ otps' # <<>>
        BY <1>5 DEF CodesTypeOK, Open
      <4>2. 1 \in 1..Len(otps')
        BY <4>1, EmptySeq
      <4>3. otps'[1] \in OTP
        BY <4>1, <4>2, ElementOfSeq
      <4>4. QED BY <4>3 DEF OTP
    <3>2. QED BY <1>1, <3>1 DEF Spent
  <2>2. CASE Waiting
    BY <1>1, <2>1, <2>2 DEF GuessesInv
  <2>3. CASE ~ Waiting
    <3>1. /\ Open /\ ~ \E h \in Askers : LockRow(h)
          /\ (\A h \in Askers : ~ CountGuess(h)) => otps'[1] = otps[1]
      BY <1>5, <2>3, OpenBefore
    <3>2. /\ tries <= Spent + Cardinality(Guessing) + faults
          /\ Spent \in Nat /\ otps[1].fails \in Nat /\ otps # <<>>
      BY <3>1, GuessNumbers DEF GuessesInv, Open
    <3>3. ASSUME NEW h \in Askers, CountGuess(h)
          PROVE  Spent + Cardinality(Guessing) + faults
                   <= Spent' + Cardinality(Guessing)' + faults'
      <4>1. otps'[1].fails = otps[1].fails + 1
        BY <3>2, <3>3, FirstRowChanges
      <4>2. \/ ask'[h].at = "idle" /\ otps[1].fails + 1 < MaxFailed
            \/ ask'[h].at = "lock" /\ otps[1].fails + 1 >= MaxFailed
        BY <3>2, <3>3, AskTurn DEF Asking
      <4>3. /\ Cardinality(Guessing)' = Cardinality(Guessing) - One(h, Guessing) + One(h, Guessing')
            /\ ask[h].at = "count"
        BY <3>3, AskCounts DEF Asking, CountGuess
      <4>4. h \in Guessing /\ (h \in Guessing' <=> ask'[h].at = "lock")
        BY <4>2, <4>3 DEF Guessing
      <4>5. CASE ask'[h].at = "idle" /\ otps[1].fails + 1 < MaxFailed
        <5>1. Cardinality(Guessing)' = Cardinality(Guessing) - 1
          BY <1>1, <4>3, <4>4, <4>5 DEF One
        <5>2. Spent' = Spent + 1
          BY <1>1, <3>2, <4>1, <4>5 DEF Spent
        <5>3. faults <= faults' /\ Spent' \in Nat
          BY <1>1, <1>3, <3>2, <5>2
        <5>4. QED BY <1>1, <3>2, <5>1, <5>2, <5>3
      <4>6. CASE ask'[h].at = "lock"
        <5>1. Cardinality(Guessing)' = Cardinality(Guessing)
          BY <1>1, <4>3, <4>4, <4>6 DEF One
        <5>2. Spent <= Spent'
          BY SMTT(40), <1>1, <3>2, <4>1 DEF Spent
        <5>3. QED BY <1>1, <1>3, <2>1, <3>2, <5>1, <5>2
      <4>7. QED BY <4>2, <4>5, <4>6
    <3>4. ASSUME \A h \in Askers : ~ CountGuess(h)
          PROVE  /\ Spent' = Spent
                 /\ Cardinality(Guessing) + faults <= Cardinality(Guessing)' + faults'
      <4>1. Spent' = Spent
        BY <3>1, <3>4 DEF Spent
      <4>2. ASSUME NEW h \in Askers, Asking(h)
            PROVE  Cardinality(Guessing) + faults <= Cardinality(Guessing)' + faults'
        <5>1. Cardinality(Guessing)' = Cardinality(Guessing) - One(h, Guessing) + One(h, Guessing')
          BY <4>2, AskCounts
        <5>2. CASE h \notin Guessing
          BY <1>1, <1>3, <5>1, <5>2 DEF One
        <5>3. CASE h \in Guessing
          <6>1. ask[h].at \in {"count", "lock"}
            BY <5>3 DEF Guessing
          <6>2. DropAsk(h)
            BY <3>1, <3>4, <4>2, <6>1
               DEF Asking, StartGenerate, SeekOld, ClearOld, UpsertCode, StartVerify, FindCode,
                   DropExpired, AcceptCode
          <6>3. faults' = faults + 1
            BY <6>1, <6>2 DEF DropAsk, Fault
          <6>4. QED BY <1>1, <5>1, <6>3 DEF One
        <5>4. QED BY <5>2, <5>3
      <4>3. CASE Tick \/ (\E i \in DOMAIN otps : PurgeCode(i)) \/ UNCHANGED codesVars
        <5>1. UNCHANGED <<ask, faults>>
          BY <4>3 DEF Tick, PurgeCode, codesVars
        <5>2. Guessing' = Guessing
          BY <5>1 DEF Guessing
        <5>3. QED BY <1>1, <4>1, <5>1, <5>2
      <4>4. QED BY <4>1, <4>2, <4>3 DEF CodesNext, Asking
    <3>5. QED BY SMTT(40), <1>1, <2>1, <3>2, <3>3, <3>4
  <2>4. QED BY <2>2, <2>3
<1>6. QED BY <1>4, <1>5 DEF GuessesInv

(* A guess is judged against the first row, the only one with its code, while *)
(* it is not locked.                                                         *)
LEMMA GuessesStep ==
    ASSUME CodesTypeOK, CodesTypeOK', Numbered, GuessesInv, [CodesNext]_codesVars
    PROVE  GuessesInv'
<1>1. CASE tries' = tries
  BY <1>1, GuessesKept
<1>2. CASE tries' # tries
  <2>1. PICK h \in Askers : FindCode(h)
    BY <1>2 DEF CodesNext, StartGenerate, SeekOld, ClearOld, UpsertCode, StartVerify,
         DropExpired, CountGuess, LockRow, AcceptCode, DropAsk, PurgeCode, Tick, codesVars
  <2>2. tries \in Nat /\ UNCHANGED <<otps, issued, followed, faults>> /\ ask[h].at = "find"
    BY <2>1 DEF CodesTypeOK, FindCode
  <2>3. /\ ask'[h].at = "count" /\ otps # <<>> /\ ~ Head(otps).locked
        /\ tries' = tries + (IF Head(otps).code = followed THEN 1 ELSE 0)
    BY <1>2, <2>1, AskTurn DEF Asking
  <2>4. Open /\ tries' = tries + 1 /\ 1 \in 1..Len(otps) /\ Len(otps) \in Nat
    BY <1>2, <2>2, <2>3, FirstRow DEF Open
  <2>5. ~ Waiting
    <3>1. otps[1].code = followed /\ otps[1].code <= issued /\ issued \in Nat /\ followed \in Nat
      BY <2>4, CodeNumbers DEF Numbered, Open
    <3>2. \A i \in 2..Len(otps) : i \in 1..Len(otps) /\ i # 1
      BY <2>4
    <3>3. \A i \in 2..Len(otps) : otps[i].code # followed
      BY <2>4, <3>1, <3>2 DEF Numbered
    <3>4. QED BY <3>1, <3>3 DEF Waiting
  <2>6. Cardinality(Guessing)' = Cardinality(Guessing) + 1
    <3>1. h \notin Guessing /\ h \in Guessing'
      BY <2>2, <2>3 DEF Guessing
    <3>2. QED BY <2>1, <3>1, AskCounts, GuessNumbers DEF Asking, One
  <2>7. /\ Waiting' = Waiting /\ Spent' = Spent
    BY <2>2 DEF Waiting, Spent
  <2>8. tries' <= Spent' + Cardinality(Guessing)' + faults'
    BY <2>2, <2>4, <2>6, <2>7, GuessNumbers DEF GuessesInv
  <2>9. GuessesBounded'
    <3>1. Cardinality(Guessing)' <= Cardinality(Askers)
      BY <2>1, AskCounts DEF Asking
    <3>2. Spent' <= MaxFailed - 1 /\ Spent' \in Nat /\ Cardinality(Guessing)' \in Nat
      BY <2>4, <2>6, <2>7, GuessNumbers
    <3>3. QED BY SMTT(40), <2>2, <2>4, <2>8, <3>1, <3>2, GuessNumbers DEF GuessesBounded
  <2>10. QED BY <2>5, <2>7, <2>8, <2>9 DEF GuessesInv
<1>3. QED BY <1>1, <1>2

(* A request that is about to store a code found no row, or failed to find or *)
(* to delete it.                                                             *)
LiveInv == Len(otps) + Cardinality(Putting) <= Cardinality(Askers) + faults

(* Which steps can lead to a code being stored, and what they ask for. *)
LEMMA PuttingTurn ==
    ASSUME CodesTypeOK, NEW h \in Askers, Asking(h)
    PROVE  /\ Cardinality(Askers) \in Nat
           /\ Cardinality(Putting) \in Nat /\ Cardinality(Putting)' \in Nat
           /\ Cardinality(Putting)' <= Cardinality(Askers)
           /\ faults \in Nat /\ faults' \in Nat /\ faults <= faults'
           /\ \/ Cardinality(Putting)' <= Cardinality(Putting) /\ ~ UpsertCode(h)
              \/ /\ UpsertCode(h)
                 /\ Cardinality(Putting)' = Cardinality(Putting) - 1
              \/ /\ SeekOld(h) \/ ClearOld(h)
                 /\ Cardinality(Putting)' <= Cardinality(Putting) + 1
                 /\ UNCHANGED <<issued, accepts, clock>>
                 /\ SeekOld(h) => UNCHANGED otps
                 /\ \/ otps' = <<>>
                    \/ UNCHANGED otps /\ faults' = faults + 1
<1>1. /\ Cardinality(Askers) \in Nat
      /\ Cardinality(Putting) \in Nat /\ Cardinality(Putting)' \in Nat
      /\ Cardinality(Putting)' <= Cardinality(Askers)
      /\ Cardinality(Putting)' = Cardinality(Putting) - One(h, Putting) + One(h, Putting')
  BY AskCounts
<1>2. faults \in Nat /\ faults' \in Nat /\ faults <= faults'
  <2>1. faults \in Nat
    BY DEF CodesTypeOK
  <2>2. faults' = faults \/ faults' = faults + 1
    BY DEF Asking, StartGenerate, SeekOld, ClearOld, UpsertCode, StartVerify, FindCode,
           DropExpired, CountGuess, LockRow, AcceptCode, DropAsk, Fault
  <2>3. QED BY <2>1, <2>2
<1>3. CASE h \notin Putting'
  <2>1. Cardinality(Putting)' = Cardinality(Putting) - One(h, Putting)
    BY <1>1, <1>3 DEF One
  <2>2. UpsertCode(h) => h \in Putting
    BY DEF UpsertCode, Putting
  <2>3. QED BY <1>1, <1>2, <2>1, <2>2 DEF One
<1>4. CASE h \in Putting'
  <2>1. ask'[h].at = "put"
    BY <1>4 DEF Putting
  <2>2. SeekOld(h) \/ ClearOld(h)
    BY <2>1, AskTurn DEF Asking
  <2>3. ~ UpsertCode(h)
    BY <2>2 DEF SeekOld, ClearOld, UpsertCode
  <2>4. Cardinality(Putting)' <= Cardinality(Putting) + 1
    BY <1>1 DEF One
  <2>5. UNCHANGED <<issued, accepts, clock>> /\ (SeekOld(h) => UNCHANGED otps)
    BY <2>2 DEF SeekOld, ClearOld
  <2>6. CASE SeekOld(h)
    <3>1. otps = <<>> \/ faults' = faults + 1
      <4>1. CASE /\ otps # <<>> /\ ~ Cooling(Head(otps)) /\ AskNext(h, "clear")
                 /\ UNCHANGED faults
        <5>1. ask'[h].at = "clear"
          BY <4>1 DEF AskNext, CodesTypeOK, Ask
        <5>2. QED BY <2>1, <5>1
      <4>2. QED BY <2>6, <4>1 DEF SeekOld, Fault
    <3>2. QED BY <1>1, <1>2, <2>2, <2>4, <2>5, <2>6, <3>1
  <2>7. CASE ClearOld(h)
    <3>1. otps' = <<>> \/ (UNCHANGED otps /\ faults' = faults + 1)
      BY <2>7 DEF ClearOld, Fault
    <3>2. QED BY <1>1, <1>2, <2>2, <2>4, <2>5, <3>1
  <2>8. QED BY <2>2, <2>6, <2>7
<1>5. QED BY <1>3, <1>4

(* Each code that is stored is paid for by the request that stores it. *)
LEMMA LiveStep ==
    ASSUME CodesTypeOK, CodesTypeOK', LiveInv, [CodesNext]_codesVars
    PROVE  LiveInv'
<1>1. Len(otps) \in Nat /\ Len(otps') \in Nat /\ faults \in Nat /\ issued \in Nat
  BY CodeNumbers, LenProperties DEF CodesTypeOK
<1>2. issued' = issued => Len(otps') <= Len(otps)
  <2>1. otps' = <<>> => Len(otps') = 0
    OBVIOUS
  <2>2. QED BY <1>1, <2>1, RowsTurn
<1>3. ASSUME NEW h \in Askers, Asking(h)
      PROVE  LiveInv'
  <2>1. /\ Cardinality(Askers) \in Nat
        /\ Cardinality(Putting) \in Nat /\ Cardinality(Putting)' \in Nat
        /\ Cardinality(Putting)' <= Cardinality(Askers)
        /\ faults' \in Nat /\ faults <= faults'
    BY <1>3, PuttingTurn
  <2>2. CASE Cardinality(Putting)' <= Cardinality(Putting) /\ ~ UpsertCode(h)
    <3>1. issued' = issued
      BY <1>3, <2>2 DEF Asking, StartGenerate, SeekOld, ClearOld, StartVerify, FindCode,
           DropExpired, CountGuess, LockRow, AcceptCode, DropAsk
    <3>2. QED BY <1>1, <1>2, <2>1, <2>2, <3>1 DEF LiveInv
  <2>3. CASE UpsertCode(h) /\ Cardinality(Putting)' = Cardinality(Putting) - 1
    <3>1. Len(otps') \in {Len(otps), Len(otps) + 1}
      BY <2>3, UpsertRows
    <3>2. QED BY <1>1, <2>1, <2>3, <3>1 DEF LiveInv
  <2>4. CASE /\ Cardinality(Putting)' <= Cardinality(Putting) + 1
             /\ otps' = <<>> \/ (UNCHANGED otps /\ faults' = faults + 1)
    <3>1. otps' = <<>> => Len(otps') = 0
      OBVIOUS
    <3>2. QED BY <1>1, <2>1, <2>4, <3>1 DEF LiveInv
  <2>5. QED BY <1>3, <2>2, <2>3, <2>4, PuttingTurn
<1>4. CASE Tick \/ (\E i \in DOMAIN otps : PurgeCode(i)) \/ UNCHANGED codesVars
  <2>1. UNCHANGED <<ask, faults, issued>>
    BY <1>4 DEF Tick, PurgeCode, codesVars
  <2>2. Putting' = Putting
    BY <2>1 DEF Putting
  <2>3. Putting \in SUBSET Askers
    BY DEF Putting
  <2>4. Cardinality(Putting) \in Nat /\ Cardinality(Askers) \in Nat
    BY <2>3, SizeOfAsking
  <2>5. QED BY <1>1, <1>2, <2>1, <2>2, <2>4 DEF LiveInv
<1>5. QED BY <1>3, <1>4 DEF CodesNext, Asking

(* Until the first cooldown is over no row expires, cools down or is cleared,  *)
(* so only a code that is accepted takes the rows away and lets each request  *)
(* find none again.                                                          *)
ResendInv ==
    clock < Cooldown =>
        /\ \A h \in Askers : ask[h].at \notin {"clear", "drop"}
        /\ issued + Cardinality(Putting)
             <= Cardinality(Askers) * accepts + Cardinality(Askers) + faults
        /\ otps = <<>> => issued <= Cardinality(Askers) * accepts + faults

(* No row is past its cooldown, its validity or its time to live. *)
LEMMA RowsFresh ==
    ASSUME CodesTypeOK, clock < Cooldown, NEW i \in 1..Len(otps)
    PROVE  Cooling(otps[i]) /\ ~ Expired(otps[i]) /\ ~ (clock > otps[i].born + TimeToLive)
<1>1. otps[i] \in OTP
  BY CodeNumbers
<1>2. otps[i].born \in Nat /\ clock \in Nat
  BY <1>1, CodesAssumption DEF OTP, CodesTypeOK
<1>3. QED BY SMTT(40), <1>2, CodesAssumption DEF Cooling, Expired

(* The accepted codes allow as many as there are requests, each. *)
LEMMA OneMoreRound ==
    ASSUME NEW n \in Nat, NEW a \in Nat
    PROVE  n * a \in Nat /\ n * (a + 1) = n * a + n
OBVIOUS

(* No step in the first cooldown gets a request past the rows that are there. *)
LEMMA ResendStep ==
    ASSUME CodesTypeOK, CodesTypeOK', ResendInv, [CodesNext]_codesVars
    PROVE  ResendInv'
<1> SUFFICES ASSUME (clock < Cooldown)'
             PROVE  /\ \A h \in Askers : ask'[h].at \notin {"clear", "drop"}
                    /\ issued' + Cardinality(Putting)'
                         <= Cardinality(Askers) * accepts' + Cardinality(Askers) + faults'
                    /\ otps' = <<>> => issued' <= Cardinality(Askers) * accepts' + faults'
  BY DEF ResendInv
<1>1. clock < Cooldown
  <2>1. clock' = clock \/ clock' = clock + 1
    BY DEF CodesNext, StartGenerate, SeekOld, ClearOld, UpsertCode, StartVerify, FindCode,
           DropExpired, CountGuess, LockRow, AcceptCode, DropAsk, PurgeCode, Tick, codesVars
  <2>2. clock \in Nat /\ Cooldown \in Nat
    BY CodesAssumption DEF CodesTypeOK
  <2>3. QED BY <2>1, <2>2
<1>2. PICK m \in Nat : m = Cardinality(Askers) * accepts
  BY SizeOfAsking, OneMoreRound DEF CodesTypeOK
<1>3. /\ \A h \in Askers : ask[h].at \notin {"clear", "drop"}
      /\ issued + Cardinality(Putting) <= m + Cardinality(Askers) + faults
      /\ otps = <<>> => issued <= m + faults
  BY <1>1, <1>2 DEF ResendInv
<1>4. issued \in Nat /\ Len(otps) \in Nat
  BY CodeNumbers
<1>5. ASSUME NEW h \in Askers, Asking(h)
      PROVE  ask'[h].at \notin {"clear", "drop"}
  <2>1. CASE ask'[h].at = "clear"
    <3>1. otps # <<>> /\ ~ Cooling(Head(otps))
      BY <1>5, <2>1, AskTurn DEF Asking
    <3>2. QED BY <1>1, <3>1, FirstRow, RowsFresh
  <2>2. CASE ask'[h].at = "drop"
    <3>1. otps # <<>> /\ Expired(Head(otps))
      BY <1>5, <2>2, AskTurn DEF Asking
    <3>2. QED BY <1>1, <3>1, FirstRow, RowsFresh
  <2>3. QED BY <2>1, <2>2
<1>6. CASE \E h \in Askers : Asking(h)
  <2>1. PICK h \in Askers : Asking(h)
    BY <1>6
  <2>2. \A g \in Askers : ask'[g].at \notin {"clear", "drop"}
    BY <1>3, <1>5, <2>1, AskTurn
  <2>3. /\ Cardinality(Askers) \in Nat
        /\ Cardinality(Putting) \in Nat /\ Cardinality(Putting)' \in Nat
        /\ Cardinality(Putting)' <= Cardinality(Askers)
        /\ faults \in Nat /\ faults' \in Nat /\ faults <= faults'
    BY <2>1, PuttingTurn
  <2>4. ~ ClearOld(h) /\ ~ DropExpired(h)
    BY <1>3 DEF ClearOld, DropExpired
  <2>5. CASE AcceptCode(h)
    <3>1. issued' = issued /\ accepts' = accepts + 1 /\ ~ UpsertCode(h)
          /\ ~ SeekOld(h)
      BY <2>5 DEF AcceptCode, UpsertCode, SeekOld
    <3>2. Cardinality(Askers) * accepts' = m + Cardinality(Askers)
      BY <1>2, <2>3, <3>1, OneMoreRound DEF CodesTypeOK
    <3>3. Cardinality(Putting)' <= Cardinality(Putting)
      BY <2>1, <2>4, <3>1, PuttingTurn
    <3>4. issued + Cardinality(Putting) <= m + Cardinality(Askers) + faults
      BY <1>3
    <3>5. issued' + Cardinality(Putting)' <= m + Cardinality(Askers) + Cardinality(Askers) + faults'
      BY <1>4, <2>3, <3>1, <3>3, <3>4
    <3>6. issued' <= m + Cardinality(Askers) + faults'
      BY <1>4, <2>3, <3>1, <3>4
    <3>7. QED BY <2>2, <3>2, <3>5, <3>6
  <2>6. CASE UpsertCode(h)
    <3>1. /\ issued' = issued + 1 /\ accepts' = accepts
          /\ Cardinality(Putting)' = Cardinality(Putting) - 1
      BY <2>1, <2>6, PuttingTurn DEF UpsertCode, SeekOld, ClearOld
    <3>2. otps' # <<>>
      <4>1. Len(otps') # 0
        BY <2>6, UpsertRows
      <4>2. QED BY <4>1
    <3>3. issued + Cardinality(Putting) <= m + Cardinality(Askers) + faults
      BY <1>3
    <3>4. issued' + Cardinality(Putting)' <= m + Cardinality(Askers) + faults'
      BY SMTT(40), <1>4, <2>3, <3>1, <3>3
    <3>5. QED BY <1>2, <2>2, <3>1, <3>2, <3>4
  <2>7. CASE SeekOld(h)
    <3>1. UNCHANGED <<otps, issued, accepts>> /\ ~ UpsertCode(h)
      BY <2>7 DEF SeekOld, UpsertCode
    <3>2. \/ Cardinality(Putting)' <= Cardinality(Putting)
          \/ otps = <<>>
          \/ Cardinality(Putting)' <= Cardinality(Putting) + 1 /\ faults' = faults + 1
      BY <2>1, <3>1, PuttingTurn
    <3>3. issued' + Cardinality(Putting)' <= m + Cardinality(Askers) + faults'
      BY SMTT(40), <1>3, <1>4, <2>3, <3>1, <3>2
    <3>4. ASSUME otps' = <<>>
          PROVE  issued' <= m + faults'
      <4>1. issued <= m + faults
        BY <1>3, <3>1, <3>4
      <4>2. QED BY <1>2, <1>4, <2>3, <3>1, <4>1
    <3>5. QED BY <1>2, <2>2, <3>1, <3>3, <3>4
  <2>8. CASE ~ AcceptCode(h) /\ ~ UpsertCode(h) /\ ~ SeekOld(h)
    <3>1. UNCHANGED <<issued, accepts>>
      BY <2>1, <2>4, <2>8 DEF Asking, StartGenerate, StartVerify, FindCode, CountGuess, LockRow,
                              DropAsk
    <3>2. otps' = <<>> => otps = <<>>
      <4>1. CASE CountGuess(h) \/ LockRow(h)
        BY <4>1, FirstRowChanges
      <4>2. CASE ~ (CountGuess(h) \/ LockRow(h))
        BY <2>1, <2>4, <2>8, <4>2 DEF Asking, StartGenerate, StartVerify, FindCode, DropAsk
      <4>3. QED BY <4>1, <4>2
    <3>3. Cardinality(Putting)' <= Cardinality(Putting)
      BY <2>1, <2>4, <2>8, PuttingTurn
    <3>4. issued' + Cardinality(Putting)' <= m + Cardinality(Askers) + faults'
      BY <1>3, <1>4, <2>3, <3>1, <3>3
    <3>5. ASSUME otps' = <<>>
          PROVE  issued' <= m + faults'
      <4>1. issued <= m + faults
        BY <1>3, <3>2, <3>5
      <4>2. QED BY <1>2, <1>4, <2>3, <3>1, <4>1
    <3>6. QED BY <1>2, <2>2, <3>1, <3>4, <3>5
  <2>9. QED BY <2>5, <2>6, <2>7, <2>8
<1>7. CASE Tick \/ UNCHANGED codesVars
  <2>1. UNCHANGED <<otps, issued, ask, accepts, faults>>
    BY <1>7 DEF Tick, codesVars
  <2>2. Putting' = Putting
    BY <2>1 DEF Putting
  <2>3. QED BY <1>2, <1>3, <2>1, <2>2
<1>8. ASSUME NEW i \in DOMAIN otps, PurgeCode(i)
      PROVE  FALSE
  <2>1. i \in 1..Len(otps)
    BY <1>8, PurgeRows
  <2>2. clock > otps[i].born + TimeToLive
    BY <1>8 DEF PurgeCode
  <2>3. QED BY <1>1, <2>1, <2>2, RowsFresh
<1>9. QED BY <1>6, <1>7, <1>8 DEF CodesNext, Asking

-----------------------------------------------------------------------------
(* What the requests about one-time codes keep together. *)
CodesInv == CodesTypeOK /\ Numbered /\ UsesInv /\ GuessesInv /\ LiveInv /\ ResendInv

(* The invariant holds before any code is sent. *)
LEMMA CodesBegins ==
    ASSUME CodesInit
    PROVE  CodesInv
<1>1. /\ CodesTypeOK /\ otps = <<>> /\ \A h \in Askers : ask[h].at = "idle"
      /\ issued = 0 /\ tries = 0 /\ uses = 0 /\ accepts = 0 /\ faults = 0
  BY CodesBegin DEF CodesInit
<1>2. Len(otps) = 0
  BY <1>1
<1>3. Numbered
  BY <1>1, <1>2 DEF Numbered
<1>4. Accepting = {} /\ Guessing = {} /\ Putting = {}
  BY <1>1 DEF Accepting, Guessing, Putting
<1>5. Cardinality({}) = 0 /\ Cardinality(Askers) \in Nat /\ MaxFailed \in Nat \ {0}
  BY FS_EmptySet, CodesAssumption, FS_CardinalityType
<1>6. UsesInv
  BY <1>1, <1>4, <1>5 DEF UsesInv
<1>7. GuessesInv
  <2>1. ~ Open
    BY <1>1 DEF Open
  <2>2. QED BY <1>1, <1>5, <2>1 DEF GuessesInv, GuessesBounded
<1>8. LiveInv
  BY <1>1, <1>2, <1>4, <1>5 DEF LiveInv
<1>9. ResendInv
  <2>1. Cardinality(Askers) * accepts = 0
    BY <1>1, <1>5
  <2>2. QED BY <1>1, <1>4, <1>5, <2>1 DEF ResendInv
<1>10. QED BY <1>1, <1>3, <1>6, <1>7, <1>8, <1>9 DEF CodesInv

(* Every interleaving of the requests, the clock and the TTL index keeps the   *)
(* invariant of the codes.                                                   *)
THEOREM CodesInvariance == CodesSpec => []CodesInv
<1>1. CodesInit => CodesInv
  BY CodesBegins
<1>2. CodesInv /\ [CodesNext]_codesVars => CodesInv'
  <2>1. SUFFICES ASSUME CodesInv, [CodesNext]_codesVars
                 PROVE  CodesInv'
    OBVIOUS
  <2>2. CodesTypeOK /\ Numbered /\ UsesInv /\ GuessesInv /\ LiveInv /\ ResendInv
    BY <2>1 DEF CodesInv
  <2>3. CodesTypeOK'
    BY <2>1, <2>2, CodesTyped
  <2>4. Numbered'
    BY <2>1, <2>2, <2>3, NumberedStep
  <2>5. UsesInv'
    BY <2>1, <2>2, UsesStep
  <2>6. GuessesInv'
    BY <2>1, <2>2, <2>3, GuessesStep
  <2>7. LiveInv'
    BY <2>1, <2>2, <2>3, LiveStep
  <2>8. ResendInv'
    BY <2>1, <2>2, <2>3, ResendStep
  <2>9. QED BY <2>3, <2>4, <2>5, <2>6, <2>7, <2>8 DEF CodesInv
<1>3. QED BY <1>1, <1>2, PTL DEF CodesSpec

(* verify_otp judges no more wrong guesses against one code than              *)
(* OTP_MAX_FAILED_ATTEMPTS, one for each other request at the limit and one  *)
(* for each lost write, whatever number of requests, codes and instants.     *)
THEOREM GuessesBoundedHolds == CodesSpec => []GuessesBounded
<1>1. CodesInv => GuessesBounded
  BY DEF CodesInv, GuessesInv
<1>2. QED BY <1>1, CodesInvariance, PTL

(* No code is accepted by more requests than there are at a time: each of     *)
(* them read it before the first one deleted it.                             *)
THEOREM UsesBoundedHolds == CodesSpec => []UsesBounded
<1>1. CodesInv => UsesBounded
  <2>1. SUFFICES ASSUME CodesInv PROVE UsesBounded
    OBVIOUS
  <2>2. Accepting \in SUBSET Askers
    BY DEF Accepting
  <2>3. Cardinality(Accepting) \in Nat /\ Cardinality(Askers) \in Nat
    BY <2>2, SizeOfAsking
  <2>4. uses \in Nat /\ uses + Cardinality(Accepting) <= Cardinality(Askers)
    BY <2>1 DEF CodesInv, CodesTypeOK, UsesInv
  <2>5. QED BY <2>3, <2>4 DEF UsesBounded
<1>2. QED BY <1>1, CodesInvariance, PTL

(* An address has no more live codes than there are requests at a time, and   *)
(* one for each fault, though no index keeps its rows apart.                 *)
THEOREM LiveCodesBoundedHolds == CodesSpec => []LiveCodesBounded
<1>1. CodesInv => LiveCodesBounded
  <2>1. SUFFICES ASSUME CodesInv PROVE LiveCodesBounded
    OBVIOUS
  <2>2. Putting \in SUBSET Askers
    BY DEF Putting
  <2>3. Cardinality(Putting) \in Nat /\ Cardinality(Askers) \in Nat /\ Len(otps) \in Nat
        /\ faults \in Nat
    BY <2>1, <2>2, SizeOfAsking, CodeNumbers DEF CodesInv, CodesTypeOK
  <2>4. QED BY <2>1, <2>3 DEF CodesInv, LiveInv, LiveCodesBounded
<1>2. QED BY <1>1, CodesInvariance, PTL

(* The resend cooldown is not bypassed by guesses that lock or expire a code: *)
(* until the first one is over, only an accepted code lets each request send *)
(* another.                                                                  *)
THEOREM ResendBoundedHolds == CodesSpec => []ResendBounded
<1>1. CodesInv => ResendBounded
  <2>1. SUFFICES ASSUME CodesInv, clock < Cooldown
                 PROVE  issued <= Cardinality(Askers) * (accepts + 1) + faults
    BY DEF ResendBounded
  <2>2. Putting \in SUBSET Askers
    BY DEF Putting
  <2>3. /\ Cardinality(Putting) \in Nat /\ Cardinality(Askers) \in Nat /\ accepts \in Nat
        /\ issued \in Nat /\ faults \in Nat
    BY <2>1, <2>2, SizeOfAsking, CodeNumbers DEF CodesInv, CodesTypeOK
  <2>4. PICK m \in Nat : /\ m = Cardinality(Askers) * accepts
                         /\ Cardinality(Askers) * (accepts + 1) = m + Cardinality(Askers)
    BY <2>3, OneMoreRound
  <2>5. issued + Cardinality(Putting) <= m + Cardinality(Askers) + faults
    BY <2>1, <2>4 DEF CodesInv, ResendInv
  <2>6. QED BY <2>3, <2>4, <2>5
<1>2. QED BY <1>1, CodesInvariance, PTL

-----------------------------------------------------------------------------
(* UserAccounts *)

(* What a request needs has been found before the call that needs it; n        *)
(* accounts were made so far.                                                *)
NamedReq(r, n) ==
    /\ \/ r.at \in {"resolve", "insert"}
       \/ r.at = "free" /\ r.op # "move"
       \/ r.at = "byIdent" /\ r.op = "oauth"
       => r.email \in Emails
    /\ r.op = "move" /\ r.at # "endAll" => r.want \in Emails
    /\ r.at \in {"write", "session"} \/ (r.at = "free" /\ r.op = "move") => r.doc.email \in Emails
    /\ \/ r.at \in {"session", "write", "endSessions", "purge", "dropUser"}
       \/ r.at = "free" /\ r.op = "move"
       => r.id \in 1..n
    /\ r.at \in {"byEmail", "byIdent", "resolve"} => r.op \in {"login", "oauth", "x"}

(* Accounts that were not made yet have no document, and the others an         *)
(* address, unless they are gone.                                            *)
AccountsNamed ==
    /\ \A i \in Ids : users[i] = NoUser \/ users[i].email \in Emails
    /\ \A i \in Ids : i > made => users[i] = NoUser
    /\ \A h \in Requests : NamedReq(req[h], made)

(* The request that is over, and the document of no account. *)
LEMMA NoReqFields ==
    /\ NoUser \in User /\ NoUser.email = NoEmail
    /\ NoReq \in Req /\ NoReq.at = "idle" /\ NoReq.op = "none" /\ NoReq.want = NoEmail
    /\ \A n : NamedReq(NoReq, n)
<1>1. NoUser \in User /\ NoUser.email = NoEmail
  BY DEF NoUser, User
<1>2. /\ NoReq \in Req /\ NoReq.at = "idle" /\ NoReq.op = "none" /\ NoReq.want = NoEmail
  BY <1>1, AccountsAssumption DEF NoReq, Req, Op, Step
<1>3. QED BY <1>1, <1>2 DEF NamedReq

(* A request that goes on keeps what it holds. *)
LEMMA AdvanceFields ==
    ASSUME NEW r \in Req, NEW step \in Step
    PROVE  \E new \in Req : /\ new = [r EXCEPT !.at = step]
                            /\ new.at = step /\ new.op = r.op /\ new.email = r.email
                            /\ new.want = r.want /\ new.doc = r.doc /\ new.id = r.id
<1>1. /\ [r EXCEPT !.at = step] \in Req
      /\ [r EXCEPT !.at = step].at = step /\ [r EXCEPT !.at = step].op = r.op
      /\ [r EXCEPT !.at = step].email = r.email /\ [r EXCEPT !.at = step].want = r.want
      /\ [r EXCEPT !.at = step].doc = r.doc /\ [r EXCEPT !.at = step].id = r.id
  BY DEF Req
<1>2. QED BY <1>1

(* The document of which only the address is kept. *)
LEMMA AddressOnly ==
    ASSUME NEW e \in Emails \cup {NoEmail}
    PROVE  \E d \in User : d = [NoReq.doc EXCEPT !.email = e] /\ d.email = e
<1>1. PICK d \in User : d = NoReq.doc
  BY NoReqFields DEF NoReq
<1>2. [d EXCEPT !.email = e] \in User /\ [d EXCEPT !.email = e].email = e
  BY DEF User
<1>3. QED BY <1>1, <1>2

(* A request that found a document knows its _id, and unless it deletes the    *)
(* account, its address.                                                     *)
LEMMA FoundFields ==
    ASSUME AccountsTypeOK, NEW r \in Req, NEW i \in Ids, NEW step \in Step
    PROVE  \E new \in Req :
              /\ new = [Found(r, i) EXCEPT !.at = step]
              /\ new.at = step /\ new.id = i
              /\ r.op \notin {"delete", "adminDelete"} => new.doc.email = users[i].email
              /\ r.op = "move" => new.op = "move" /\ new.want = r.want
              /\ r.op # "move" => new.op # "move"
<1>0. i \in 0..MaxUsers
  BY AccountsAssumption DEF Ids
<1>1. /\ users[i] \in User
      /\ users[i].email \in Emails \cup {NoEmail}
  BY AccountsAssumption DEF AccountsTypeOK, Ids, User
<1>2. PICK none \in Req : none = NoReq
  BY NoReqFields
<1>3. PICK d \in User : d = users[i]
  BY <1>1
<1>4. PICK e \in Emails \cup {NoEmail} : e = users[i].email
  BY <1>1
<1>5. CASE r.op \in {"login", "oauth", "x"}
  <2>1. PICK a \in User : a = [none.doc EXCEPT !.email = e] /\ a.email = e
    BY <1>2, AddressOnly
  <2>2. "login" \in Op
    BY DEF Op
  <2>3. /\ [none EXCEPT !.op = "login", !.id = i, !.doc = a, !.at = step] \in Req
        /\ [none EXCEPT !.op = "login", !.id = i, !.doc = a, !.at = step].at = step
        /\ [none EXCEPT !.op = "login", !.id = i, !.doc = a, !.at = step].op = "login"
        /\ [none EXCEPT !.op = "login", !.id = i, !.doc = a, !.at = step].id = i
        /\ [none EXCEPT !.op = "login", !.id = i, !.doc = a, !.at = step].doc = a
    BY <1>0, <2>1, <2>2 DEF Req
  <2>4. Found(r, i) = [none EXCEPT !.op = "login", !.id = i, !.doc = a]
    BY <1>2, <1>4, <1>5, <2>1 DEF Found
  <2>5. [Found(r, i) EXCEPT !.at = step]
          = [none EXCEPT !.op = "login", !.id = i, !.doc = a, !.at = step]
    BY <2>4
  <2>6. QED BY <1>4, <1>5, <2>1, <2>3, <2>5
<1>6. CASE r.op \in {"delete", "adminDelete"}
  <2>1. r.op \in Op
    BY DEF Req
  <2>2. /\ [none EXCEPT !.op = r.op, !.id = i, !.at = step] \in Req
        /\ [none EXCEPT !.op = r.op, !.id = i, !.at = step].at = step
        /\ [none EXCEPT !.op = r.op, !.id = i, !.at = step].op = r.op
        /\ [none EXCEPT !.op = r.op, !.id = i, !.at = step].id = i
    BY <1>0, <2>1 DEF Req
  <2>3. [Found(r, i) EXCEPT !.at = step] = [none EXCEPT !.op = r.op, !.id = i, !.at = step]
    BY <1>2, <1>6 DEF Found
  <2>4. QED BY <1>6, <2>2, <2>3
<1>7. CASE r.op = "move"
  <2>2. /\ [r EXCEPT !.id = i, !.doc = d, !.at = step] \in Req
        /\ [r EXCEPT !.id = i, !.doc = d, !.at = step].at = step
        /\ [r EXCEPT !.id = i, !.doc = d, !.at = step].op = r.op
        /\ [r EXCEPT !.id = i, !.doc = d, !.at = step].id = i
        /\ [r EXCEPT !.id = i, !.doc = d, !.at = step].doc = d
        /\ [r EXCEPT !.id = i, !.doc = d, !.at = step].want = r.want
    BY <1>0, <1>3 DEF Req
  <2>3. [Found(r, i) EXCEPT !.at = step] = [r EXCEPT !.id = i, !.doc = d, !.at = step]
    BY <1>3, <1>7 DEF Found
  <2>4. QED BY <1>3, <1>7, <2>2, <2>3
<1>8. CASE r.op \notin {"login", "oauth", "x", "delete", "adminDelete", "move"}
  <2>1. PICK op \in Op : op = (IF r.op = "touchById" THEN "touch" ELSE r.op) /\ op # "move"
    BY <1>8 DEF Req, Op
  <2>2. /\ [none EXCEPT !.op = op, !.id = i, !.doc = d, !.at = step] \in Req
        /\ [none EXCEPT !.op = op, !.id = i, !.doc = d, !.at = step].at = step
        /\ [none EXCEPT !.op = op, !.id = i, !.doc = d, !.at = step].op = op
        /\ [none EXCEPT !.op = op, !.id = i, !.doc = d, !.at = step].id = i
        /\ [none EXCEPT !.op = op, !.id = i, !.doc = d, !.at = step].doc = d
    BY <1>0, <1>3, <2>1 DEF Req
  <2>3. [Found(r, i) EXCEPT !.at = step] = [none EXCEPT !.op = op, !.id = i, !.doc = d, !.at = step]
    BY <1>2, <1>3, <1>8, <2>1 DEF Found
  <2>4. QED BY ZenonT(40), <1>3, <1>8, <2>1, <2>2, <2>3
<1>9. QED BY <1>5, <1>6, <1>7, <1>8

(* A step of one request says what it does next, and touches no other. *)
LEMMA ReqEffect ==
    ASSUME AccountsTypeOK, NEW h \in Requests, NEW new \in Req,
           req' = [req EXCEPT ![h] = new]
    PROVE  /\ req' \in [Requests -> Req] /\ req'[h] = new
           /\ \A g \in Requests \ {h} : req'[g] = req[g]
BY DEF AccountsTypeOK

(* The first step of a request, and the steps that only read. *)
Starting(h) ==
    \/ \E e \in Emails : StartRegister(h, e) \/ StartLogin(h, e)
                         \/ StartGoogle(h, e) \/ StartGithub(h, e) \/ StartAdminDelete(h, e)
    \/ StartX(h)
    \/ \E s \in sessions :
          \/ \E e \in Emails : UpdateEmail(h, s, e)
          \/ UpdatePreferences(h, s) \/ UpdatePassword(h, s)
          \/ SwitchNetwork(h, s) \/ UpdateProfile(h, s)
          \/ StartLink(h, s) \/ GithubUnlink(h, s) \/ XUnlink(h, s) \/ StartDelete(h, s)

(* The calls that find or check, and change no account or session. *)
Looking(h) ==
    \/ FindFree(h) \/ FindByEmail(h) \/ FindByIdent(h) \/ ResolveOAuth(h)
    \/ CheckClaim(h) \/ CheckLinked(h) \/ ReadUser(h) \/ PurgeUserData(h)

(* A request starts with the address or the claims that it was sent. *)
LEMMA StartTurn ==
    ASSUME AccountsTypeOK, NEW h \in Requests, Starting(h)
    PROVE  /\ req' \in [Requests -> Req] /\ \A g \in Requests \ {h} : req'[g] = req[g]
           /\ NamedReq(req'[h], made)
           /\ req'[h].at \notin {"session", "purge", "dropUser", "endAll"}
           /\ req[h].at = "idle"
           /\ UNCHANGED <<users, made, sessions, logins, ended, disturbed>>
<1>1. ASSUME NEW op \in Op, NEW step \in Step, NEW e \in Emails \cup {NoEmail}, Start(h, op, step, e),
             \/ /\ <<op, step>> \in {<<"register", "free">>, <<"login", "byEmail">>,
                                     <<"oauth", "byIdent">>, <<"adminDelete", "read">>}
                /\ e \in Emails
             \/ <<op, step>> = <<"x", "byIdent">>
      PROVE  /\ req' \in [Requests -> Req] /\ \A g \in Requests \ {h} : req'[g] = req[g]
             /\ NamedReq(req'[h], made)
             /\ req'[h].at \notin {"session", "purge", "dropUser", "endAll"}
             /\ req[h].at = "idle"
             /\ UNCHANGED <<users, made, sessions, logins, ended, disturbed>>
  <2>1. PICK new \in Req : /\ new = [NoReq EXCEPT !.op = op, !.at = step, !.email = e]
                           /\ new.op = op /\ new.at = step /\ new.email = e
    <3>1. PICK r \in Req : r = NoReq
      BY NoReqFields
    <3>2. /\ [r EXCEPT !.op = op, !.at = step, !.email = e] \in Req
          /\ [r EXCEPT !.op = op, !.at = step, !.email = e].op = op
          /\ [r EXCEPT !.op = op, !.at = step, !.email = e].at = step
          /\ [r EXCEPT !.op = op, !.at = step, !.email = e].email = e
      BY DEF Req
    <3>3. QED BY <3>1, <3>2
  <2>2. req' = [req EXCEPT ![h] = new] /\ req[h].at = "idle"
        /\ UNCHANGED <<users, made, sessions, logins, ended, disturbed>>
    BY <1>1, <2>1 DEF Start
  <2>3. /\ req' \in [Requests -> Req] /\ req'[h] = new
        /\ \A g \in Requests \ {h} : req'[g] = req[g]
    BY <2>1, <2>2, ReqEffect
  <2>4. NamedReq(new, made) /\ new.at \notin {"session", "purge", "dropUser", "endAll"}
    BY <1>1, <2>1 DEF NamedReq
  <2>5. QED BY <2>2, <2>3, <2>4
<1>2. ASSUME NEW op \in Op, NEW step \in {"read", "claimed", "linked"}, NEW s \in sessions,
             NEW w \in Emails \cup {NoEmail}, StartEdit(h, s, op, step, w),
             op = "move" => w \in Emails
      PROVE  /\ req' \in [Requests -> Req] /\ \A g \in Requests \ {h} : req'[g] = req[g]
             /\ NamedReq(req'[h], made)
             /\ req'[h].at \notin {"session", "purge", "dropUser", "endAll"}
             /\ req[h].at = "idle"
             /\ UNCHANGED <<users, made, sessions, logins, ended, disturbed>>
  <2>1. s.user \in Ids /\ s.email \in Emails /\ step \in Step
    BY DEF AccountsTypeOK, Session, Step
  <2>2. PICK i \in Ids, e \in Emails : i = s.user /\ e = s.email
    BY <2>1
  <2>3. PICK new \in Req :
           /\ new = [NoReq EXCEPT !.op = op, !.at = step, !.sub = i, !.email = e, !.want = w]
           /\ new.op = op /\ new.at = step /\ new.want = w
    <3>1. PICK r \in Req : r = NoReq
      BY NoReqFields
    <3>2. i \in 0..MaxUsers
      BY AccountsAssumption DEF Ids
    <3>3. /\ [r EXCEPT !.op = op, !.at = step, !.sub = i, !.email = e, !.want = w] \in Req
          /\ [r EXCEPT !.op = op, !.at = step, !.sub = i, !.email = e, !.want = w].op = op
          /\ [r EXCEPT !.op = op, !.at = step, !.sub = i, !.email = e, !.want = w].at = step
          /\ [r EXCEPT !.op = op, !.at = step, !.sub = i, !.email = e, !.want = w].want = w
      BY <2>1, <3>2 DEF Req
    <3>4. QED BY <3>1, <3>3
  <2>4. req' = [req EXCEPT ![h] = new] /\ req[h].at = "idle"
        /\ UNCHANGED <<users, made, sessions, logins, ended, disturbed>>
    BY <1>2, <2>2, <2>3 DEF StartEdit
  <2>5. /\ req' \in [Requests -> Req] /\ req'[h] = new
        /\ \A g \in Requests \ {h} : req'[g] = req[g]
    BY <2>3, <2>4, ReqEffect
  <2>6. NamedReq(new, made) /\ new.at \notin {"session", "purge", "dropUser", "endAll"}
    BY <1>2, <2>3 DEF NamedReq
  <2>7. QED BY <2>4, <2>5, <2>6
<1>3. /\ "register" \in Op /\ "login" \in Op /\ "oauth" \in Op /\ "x" \in Op
      /\ "adminDelete" \in Op /\ "touch" \in Op /\ "touchById" \in Op /\ "link" \in Op
      /\ "unlink" \in Op /\ "move" \in Op /\ "delete" \in Op
      /\ "free" \in Step /\ "byEmail" \in Step /\ "byIdent" \in Step /\ "read" \in Step
  BY DEF Op, Step
<1>4. ASSUME NEW e \in Emails, StartRegister(h, e) \/ StartLogin(h, e)
                               \/ StartGoogle(h, e) \/ StartGithub(h, e) \/ StartAdminDelete(h, e)
      PROVE  \E op \in Op, step \in Step :
                Start(h, op, step, e)
                /\ <<op, step>> \in {<<"register", "free">>, <<"login", "byEmail">>,
                                     <<"oauth", "byIdent">>, <<"adminDelete", "read">>}
  BY <1>3, <1>4 DEF StartRegister, StartLogin, StartGoogle, StartGithub, StartAdminDelete
<1>5. ASSUME StartX(h)
      PROVE  \E op \in Op, step \in Step :
                Start(h, op, step, NoEmail) /\ <<op, step>> = <<"x", "byIdent">>
  BY <1>3, <1>5 DEF StartX
<1>6. ASSUME NEW s \in sessions,
             \/ \E e \in Emails : UpdateEmail(h, s, e)
             \/ UpdatePreferences(h, s) \/ UpdatePassword(h, s)
             \/ SwitchNetwork(h, s) \/ UpdateProfile(h, s)
             \/ StartLink(h, s) \/ GithubUnlink(h, s) \/ XUnlink(h, s) \/ StartDelete(h, s)
      PROVE  \E op \in Op, step \in {"read", "claimed", "linked"}, w \in Emails \cup {NoEmail} :
                StartEdit(h, s, op, step, w) /\ (op = "move" => w \in Emails)
  BY <1>3, <1>6 DEF UpdateEmail, UpdatePreferences, UpdatePassword, SwitchNetwork, UpdateProfile,
                    StartLink, GithubUnlink, XUnlink, StartDelete
<1>7. QED BY <1>1, <1>2, <1>4, <1>5, <1>6 DEF Starting

(* An account that is found has an address, and was made. *)
LEMMA PresentFields ==
    ASSUME AccountsTypeOK, AccountsNamed, NEW i \in Present
    PROVE  i \in Ids /\ i \in 1..made /\ users[i].email \in Emails
<1>1. i \in Ids /\ users[i] # NoUser
  BY DEF Present
<1>2. i \in Nat /\ 1 <= i /\ made \in Nat
  BY <1>1, AccountsAssumption DEF AccountsTypeOK, Ids
<1>3. QED BY <1>1, <1>2 DEF AccountsNamed

(* A request that holds the document it found. *)
LEMMA HoldTurn ==
    ASSUME AccountsTypeOK, AccountsNamed, NEW h \in Requests, NEW i \in Present, NEW step \in Step,
           Hold(h, i, step),
           \/ step = "session" /\ req[h].op \in {"login", "oauth", "x"}
           \/ step = AfterRead(req[h].op) /\ req[h].at = "read"
    PROVE  /\ req' \in [Requests -> Req] /\ \A g \in Requests \ {h} : req'[g] = req[g]
           /\ NamedReq(req'[h], made)
           /\ req'[h].at = "session" => /\ req'[h].id \in Ids
                                        /\ req'[h].doc.email = users[req'[h].id].email
           /\ req'[h].at \notin {"purge", "dropUser", "endAll"}
<1>1. i \in Ids /\ i \in 1..made /\ users[i].email \in Emails
  BY PresentFields
<1>2. req[h] \in Req
  BY DEF AccountsTypeOK
<1>3. PICK r \in Req : r = req[h]
  BY <1>2
<1>4. PICK new \in Req :
         /\ new = [Found(r, i) EXCEPT !.at = step]
         /\ new.at = step /\ new.id = i
         /\ r.op \notin {"delete", "adminDelete"} => new.doc.email = users[i].email
         /\ r.op = "move" => new.op = "move" /\ new.want = r.want
         /\ r.op # "move" => new.op # "move"
  BY <1>1, FoundFields
<1>5. req' = [req EXCEPT ![h] = new]
  BY <1>2, <1>3, <1>4 DEF Hold, AccountsTypeOK
<1>6. /\ req' \in [Requests -> Req] /\ req'[h] = new
      /\ \A g \in Requests \ {h} : req'[g] = req[g]
  BY <1>4, <1>5, ReqEffect
<1>7. r.op = "move" /\ r.at # "endAll" => r.want \in Emails
  BY <1>3 DEF AccountsNamed, NamedReq
<1>8. CASE step = "session" /\ r.op \in {"login", "oauth", "x"}
  <2>1. NamedReq(new, made)
    BY <1>1, <1>4, <1>8 DEF NamedReq
  <2>2. QED BY <1>1, <1>4, <1>6, <1>8, <2>1
<1>9. CASE step = AfterRead(r.op) /\ r.at = "read"
  <2>1. CASE r.op = "move"
    <3>1. step = "free"
      BY <1>9, <2>1 DEF AfterRead
    <3>2. new.at = "free" /\ new.op = "move" /\ new.want \in Emails /\ new.doc.email \in Emails
          /\ new.id \in 1..made
      BY <1>1, <1>4, <1>7, <1>9, <2>1, <3>1
    <3>3. NamedReq(new, made)
      BY <3>2 DEF NamedReq
    <3>4. QED BY <1>6, <3>2, <3>3
  <2>2. CASE r.op \in {"delete", "adminDelete"}
    <3>1. step = "endSessions"
      BY <1>9, <2>2 DEF AfterRead
    <3>2. NamedReq(new, made)
      BY <1>1, <1>4, <2>2, <3>1 DEF NamedReq
    <3>3. QED BY <1>4, <1>6, <3>1, <3>2
  <2>3. CASE r.op \notin {"move", "delete", "adminDelete"}
    <3>1. step = "write"
      BY <1>9, <2>3 DEF AfterRead
    <3>2. NamedReq(new, made)
      BY <1>1, <1>4, <2>3, <3>1 DEF NamedReq
    <3>3. QED BY <1>4, <1>6, <3>1, <3>2
  <2>4. QED BY <2>1, <2>2, <2>3
<1>10. QED BY <1>3, <1>8, <1>9

(* A request that goes on to its next call. *)
LEMMA AdvanceTurn ==
    ASSUME AccountsTypeOK, NEW h \in Requests, NEW step \in Step, Advance(h, step)
    PROVE  /\ req' \in [Requests -> Req] /\ \A g \in Requests \ {h} : req'[g] = req[g]
           /\ req'[h].at = step /\ req'[h].op = req[h].op /\ req'[h].email = req[h].email
           /\ req'[h].want = req[h].want /\ req'[h].doc = req[h].doc /\ req'[h].id = req[h].id
<1>1. PICK r \in Req : r = req[h]
  BY DEF AccountsTypeOK
<1>2. PICK new \in Req : /\ new = [r EXCEPT !.at = step]
                         /\ new.at = step /\ new.op = r.op /\ new.email = r.email
                         /\ new.want = r.want /\ new.doc = r.doc /\ new.id = r.id
  BY <1>1, AdvanceFields
<1>3. req' = [req EXCEPT ![h] = new]
  BY <1>1, <1>2 DEF Advance, AccountsTypeOK
<1>4. QED BY <1>1, <1>2, <1>3, ReqEffect

(* A request that is over. *)
LEMMA FinishTurn ==
    ASSUME AccountsTypeOK, NEW h \in Requests, Finish(h)
    PROVE  /\ req' \in [Requests -> Req] /\ \A g \in Requests \ {h} : req'[g] = req[g]
           /\ req'[h].at = "idle" /\ \A n : NamedReq(req'[h], n)
<1>1. NoReq \in Req /\ NoReq.at = "idle" /\ \A n : NamedReq(NoReq, n)
  BY NoReqFields
<1>2. req' = [req EXCEPT ![h] = NoReq]
  BY DEF Finish
<1>3. /\ req' \in [Requests -> Req] /\ req'[h] = NoReq
      /\ \A g \in Requests \ {h} : req'[g] = req[g]
  BY <1>1, <1>2, ReqEffect
<1>4. QED BY <1>1, <1>3

(* What a request reads leaves the accounts and the sessions as they are. *)
LEMMA LookTurn ==
    ASSUME AccountsTypeOK, AccountsNamed, NEW h \in Requests, Looking(h)
    PROVE  /\ req' \in [Requests -> Req] /\ \A g \in Requests \ {h} : req'[g] = req[g]
           /\ NamedReq(req'[h], made)
           /\ req'[h].at = "session" => /\ req'[h].id \in Ids
                                        /\ req'[h].doc.email = users[req'[h].id].email
           /\ req'[h].at \in {"purge", "dropUser"} => req[h].at = "purge" /\ req'[h].id = req[h].id
           /\ req'[h].at # "endAll" /\ req[h].at # "endAll"
           /\ UNCHANGED <<users, made, sessions, logins, ended, disturbed>>
<1> DEFINE Others == req' \in [Requests -> Req] /\ \A g \in Requests \ {h} : req'[g] = req[g]
           Reached ==
               /\ Others
               /\ NamedReq(req'[h], made)
               /\ req'[h].at = "session" => /\ req'[h].id \in Ids
                                            /\ req'[h].doc.email = users[req'[h].id].email
               /\ req'[h].at \in {"purge", "dropUser"} => req[h].at = "purge" /\ req'[h].id = req[h].id
               /\ req'[h].at # "endAll" /\ req[h].at # "endAll"
<1>1. UNCHANGED <<users, made, sessions, logins, ended, disturbed>>
  BY DEF Looking, FindFree, FindByEmail, FindByIdent, ResolveOAuth, CheckClaim, CheckLinked,
         ReadUser, PurgeUserData
<1>2. NamedReq(req[h], made) /\ req[h] \in Req
  BY DEF AccountsNamed, AccountsTypeOK
<1>3. ASSUME NEW i \in Present, NEW step \in Step, Hold(h, i, step), req[h].at # "endAll",
             \/ step = "session" /\ req[h].op \in {"login", "oauth", "x"}
             \/ step = AfterRead(req[h].op) /\ req[h].at = "read"
      PROVE  Reached
  <2>1. /\ Others /\ NamedReq(req'[h], made)
        /\ req'[h].at = "session" => /\ req'[h].id \in Ids
                                     /\ req'[h].doc.email = users[req'[h].id].email
        /\ req'[h].at \notin {"purge", "dropUser", "endAll"}
    BY <1>3, HoldTurn
  <2>2. QED BY <1>3, <2>1
<1>4. ASSUME NEW step \in {"write", "insert", "resolve", "read", "dropUser"}, Advance(h, step)
      PROVE  /\ Others
             /\ req'[h].at = step /\ req'[h].op = req[h].op /\ req'[h].email = req[h].email
             /\ req'[h].want = req[h].want /\ req'[h].doc = req[h].doc /\ req'[h].id = req[h].id
  <2>1. step \in Step
    BY DEF Step
  <2>2. QED BY <1>4, <2>1, AdvanceTurn
<1> HIDE DEF Others
<1>5. "session" \in Step /\ \A op : AfterRead(op) \in Step
  BY DEF Step, AfterRead
<1>6. ASSUME FindFree(h)
      PROVE  Reached
  <2>1. CASE req[h].op = "move"
    <3>1. Advance(h, "write") /\ req[h].at = "free"
      BY <1>6, <2>1 DEF FindFree
    <3>2. QED BY <1>2, <1>4, <2>1, <3>1 DEF NamedReq
  <2>2. CASE req[h].op # "move"
    <3>1. Advance(h, "insert") /\ req[h].at = "free"
      BY <1>6, <2>2 DEF FindFree
    <3>2. QED BY <1>2, <1>4, <2>2, <3>1 DEF NamedReq
  <2>3. QED BY <2>1, <2>2
<1>7. ASSUME FindByEmail(h)
      PROVE  Reached
  <2>1. PICK i \in ByEmail(req[h].email) : Hold(h, i, "session") /\ req[h].at = "byEmail"
    BY <1>7 DEF FindByEmail
  <2>2. i \in Present /\ req[h].op \in {"login", "oauth", "x"}
    BY <1>2, <2>1 DEF ByEmail, NamedReq
  <2>3. QED BY <1>3, <1>5, <2>1, <2>2
<1>8. ASSUME FindByIdent(h)
      PROVE  Reached
  <2>1. req[h].at = "byIdent" /\ req[h].op \in {"login", "oauth", "x"}
    BY <1>2, <1>8 DEF FindByIdent, NamedReq
  <2>2. CASE \E i \in ByIdent : Hold(h, i, "session")
    <3>1. PICK i \in ByIdent : Hold(h, i, "session")
      BY <2>2
    <3>2. i \in Present
      BY DEF ByIdent
    <3>3. QED BY <1>3, <1>5, <2>1, <3>1, <3>2
  <2>3. CASE req[h].op = "oauth" /\ Advance(h, "resolve")
    BY <1>2, <1>4, <2>1, <2>3 DEF NamedReq
  <2>4. QED BY <1>8, <2>2, <2>3 DEF FindByIdent
<1>9. ASSUME ResolveOAuth(h)
      PROVE  Reached
  <2>1. req[h].at = "resolve" /\ req[h].op \in {"login", "oauth", "x"}
    BY <1>2, <1>9 DEF ResolveOAuth, NamedReq
  <2>2. CASE \E i \in ByEmail(req[h].email) : Hold(h, i, "session")
    <3>1. PICK i \in ByEmail(req[h].email) : Hold(h, i, "session")
      BY <2>2
    <3>2. i \in Present
      BY DEF ByEmail
    <3>3. QED BY <1>3, <1>5, <2>1, <3>1, <3>2
  <2>3. CASE Advance(h, "insert")
    BY <1>2, <1>4, <2>1, <2>3 DEF NamedReq
  <2>4. QED BY <1>9, <2>2, <2>3 DEF ResolveOAuth
<1>10. ASSUME CheckClaim(h) \/ CheckLinked(h)
       PROVE  Reached
  <2>1. Advance(h, "read") /\ req[h].at \in {"claimed", "linked"}
    BY <1>10 DEF CheckClaim, CheckLinked
  <2>2. QED BY <1>2, <1>4, <2>1 DEF NamedReq
<1>11. ASSUME ReadUser(h)
       PROVE  Reached
  <2>1. PICK i \in Present : Hold(h, i, AfterRead(req[h].op)) /\ req[h].at = "read"
    BY <1>11 DEF ReadUser, ByEmail
  <2>2. QED BY <1>3, <1>5, <2>1
<1>12. ASSUME PurgeUserData(h)
       PROVE  Reached
  <2>1. Advance(h, "dropUser") /\ req[h].at = "purge"
    BY <1>12 DEF PurgeUserData
  <2>2. QED BY <1>2, <1>4, <2>1 DEF NamedReq
<1>13. Reached
  BY <1>6, <1>7, <1>8, <1>9, <1>10, <1>11, <1>12 DEF Looking
<1>14. QED BY <1>1, <1>13 DEF Others

(* A new account is stored under the next _id, and its session comes next. *)
LEMMA InsertTurn ==
    ASSUME AccountsTypeOK, AccountsNamed, NEW h \in Requests, InsertUser(h)
    PROVE  /\ req' \in [Requests -> Req] /\ \A g \in Requests \ {h} : req'[g] = req[g]
           /\ NamedReq(req'[h], made')
           /\ made' = made + 1 /\ made' \in Ids /\ users' \in [Ids -> User]
           /\ users'[made'].email \in Emails
           /\ \A i \in Ids \ {made'} : users'[i] = users[i]
           /\ req'[h].at = "session" /\ req'[h].id = made'
           /\ req'[h].doc.email = users'[made'].email
           /\ req[h].at = "insert"
           /\ UNCHANGED <<sessions, logins, ended, disturbed>>
<1>1. /\ req[h].at = "insert" /\ made < MaxUsers /\ made' = made + 1
      /\ UNCHANGED <<sessions, logins, ended, disturbed>>
  BY DEF InsertUser
<1>2. req[h].email \in Emails
  BY <1>1 DEF AccountsNamed, NamedReq
<1>3. made \in Nat /\ made' \in Ids /\ made' \in Nat /\ made' \in 1..made' /\ made + 1 \in 0..MaxUsers
  BY <1>1, AccountsAssumption DEF AccountsTypeOK, Ids
<1>4. PICK e \in Emails : e = req[h].email
  BY <1>2
<1>5. PICK d \in User : d = [email |-> e, ident |-> req[h].op = "oauth"] /\ d.email = e
  <2>1. PICK b \in BOOLEAN : b = (req[h].op = "oauth")
    OBVIOUS
  <2>2. [email |-> e, ident |-> b] \in User /\ [email |-> e, ident |-> b].email = e
    BY DEF User
  <2>3. [email |-> e, ident |-> b] = [email |-> e, ident |-> req[h].op = "oauth"]
    BY <2>1
  <2>4. QED BY <2>2, <2>3
<1>6. users' = [users EXCEPT ![made'] = d]
  BY <1>1, <1>4, <1>5 DEF InsertUser
<1>7. /\ users' \in [Ids -> User] /\ users'[made'] = d
      /\ \A i \in Ids \ {made'} : users'[i] = users[i]
  BY <1>3, <1>6 DEF AccountsTypeOK
<1>8. PICK r \in Req : r = NoReq
  BY NoReqFields
<1>9. PICK a \in User : a = [r.doc EXCEPT !.email = e] /\ a.email = e
  <2>1. e \in Emails \cup {NoEmail}
    OBVIOUS
  <2>2. QED BY <1>8, <2>1, AddressOnly
<1>10. PICK i \in 0..MaxUsers : i = made + 1
  BY <1>3
<1>11. /\ [r EXCEPT !.op = "login", !.at = "session", !.id = i, !.doc = a] \in Req
       /\ [r EXCEPT !.op = "login", !.at = "session", !.id = i, !.doc = a].at = "session"
       /\ [r EXCEPT !.op = "login", !.at = "session", !.id = i, !.doc = a].op = "login"
       /\ [r EXCEPT !.op = "login", !.at = "session", !.id = i, !.doc = a].id = i
       /\ [r EXCEPT !.op = "login", !.at = "session", !.id = i, !.doc = a].doc = a
  BY <1>9 DEF Req, Op, Step
<1>12. PICK new \in Req : /\ new = [r EXCEPT !.op = "login", !.at = "session", !.id = i, !.doc = a]
                          /\ new.at = "session" /\ new.op = "login" /\ new.id = i /\ new.doc = a
  BY <1>11
<1>13. req' = [req EXCEPT ![h] = new]
  BY <1>1, <1>4, <1>5, <1>8, <1>9, <1>10, <1>12 DEF InsertUser
<1>14. /\ req' \in [Requests -> Req] /\ req'[h] = new
       /\ \A g \in Requests \ {h} : req'[g] = req[g]
  BY <1>12, <1>13, ReqEffect
<1>15. NamedReq(new, made')
  BY <1>1, <1>3, <1>9, <1>10, <1>12 DEF NamedReq
<1>16. QED BY ZenonT(40), <1>1, <1>3, <1>5, <1>7, <1>9, <1>10, <1>12, <1>14, <1>15

(* What is written back has an address, and its account had one. *)
LEMMA WriteTurn ==
    ASSUME AccountsTypeOK, AccountsNamed, NEW h \in Requests, WriteUser(h)
    PROVE  /\ req' \in [Requests -> Req] /\ \A g \in Requests \ {h} : req'[g] = req[g]
           /\ NamedReq(req'[h], made)
           /\ req[h].at = "write" /\ req[h].id \in Ids
           /\ req'[h].at \in {"idle", "endAll"}
           /\ req[h].op = "move" => req'[h].at = "endAll" /\ req'[h].sub = req[h].sub
           /\ users' \in [Ids -> User]
           /\ \A i \in Ids \ {req[h].id} : users'[i] = users[i]
           /\ \/ UNCHANGED <<users, disturbed>>
              \/ /\ users[req[h].id] # NoUser /\ users'[req[h].id].email \in Emails
                 /\ disturbed' = (disturbed \/ /\ users[req[h].id].email # users'[req[h].id].email
                                               /\ ~ (req[h].op = "move" /\ req[h].sub = req[h].id))
           /\ UNCHANGED <<made, sessions, logins, ended>>
<1>1. /\ req[h].at = "write" /\ AfterWrite(h) /\ UNCHANGED <<made, sessions, logins, ended>>
  BY DEF WriteUser
<1>2. NamedReq(req[h], made) /\ req[h] \in Req /\ made \in Ids
  BY DEF AccountsNamed, AccountsTypeOK
<1>3. /\ req[h].doc.email \in Emails /\ req[h].id \in 1..made
      /\ req[h].op = "move" => req[h].want \in Emails
  BY <1>1, <1>2 DEF NamedReq
<1>4. req[h].id \in Ids
  <2>1. made \in Nat /\ MaxUsers \in Nat /\ made <= MaxUsers
    BY <1>2, AccountsAssumption DEF Ids
  <2>2. QED BY <1>3, <2>1 DEF Ids
<1>5. PICK d \in User : d = Edited(h) /\ d.email \in Emails
  <2>1. PICK doc \in User : doc = req[h].doc
    BY <1>2 DEF Req
  <2>2. CASE req[h].op = "link"
    <3>1. Edited(h) = [doc EXCEPT !.ident = TRUE]
      BY <2>1, <2>2 DEF Edited
    <3>2. [doc EXCEPT !.ident = TRUE] \in User /\ [doc EXCEPT !.ident = TRUE].email = doc.email
      BY DEF User
    <3>3. QED BY <1>3, <2>1, <3>1, <3>2
  <2>3. CASE req[h].op = "unlink"
    <3>1. Edited(h) = [doc EXCEPT !.ident = FALSE]
      BY <2>1, <2>3 DEF Edited
    <3>2. [doc EXCEPT !.ident = FALSE] \in User /\ [doc EXCEPT !.ident = FALSE].email = doc.email
      BY DEF User
    <3>3. QED BY <1>3, <2>1, <3>1, <3>2
  <2>4. CASE req[h].op = "move"
    <3>1. PICK w \in Emails : w = req[h].want
      BY <1>3, <2>4
    <3>2. Edited(h) = [doc EXCEPT !.email = w]
      BY <2>1, <2>4, <3>1 DEF Edited
    <3>3. [doc EXCEPT !.email = w] \in User /\ [doc EXCEPT !.email = w].email = w
      BY DEF User
    <3>4. QED BY <3>1, <3>2, <3>3
  <2>5. CASE req[h].op \notin {"link", "unlink", "move"}
    <3>1. Edited(h) = doc
      BY <2>1, <2>5 DEF Edited
    <3>2. QED BY <1>3, <2>1, <3>1
  <2>6. QED BY <2>2, <2>3, <2>4, <2>5
<1>6. /\ req' \in [Requests -> Req] /\ \A g \in Requests \ {h} : req'[g] = req[g]
      /\ NamedReq(req'[h], made) /\ req'[h].at \in {"idle", "endAll"}
      /\ req[h].op = "move" => req'[h].at = "endAll" /\ req'[h].sub = req[h].sub
  <2>1. CASE req[h].op # "move"
    <3>1. req' = [req EXCEPT ![h] = NoReq]
      BY <1>1, <2>1 DEF AfterWrite, AccountsTypeOK
    <3>2. Finish(h)
      BY <3>1 DEF Finish
    <3>3. QED BY <2>1, <3>2, FinishTurn
  <2>2. CASE req[h].op = "move"
    <3>1. PICK r \in Req : r = NoReq
      BY NoReqFields
    <3>2. PICK sub \in 0..MaxUsers : sub = req[h].sub
      BY <1>2 DEF Req
    <3>3. /\ [r EXCEPT !.op = "move", !.at = "endAll", !.sub = sub] \in Req
          /\ [r EXCEPT !.op = "move", !.at = "endAll", !.sub = sub].at = "endAll"
          /\ [r EXCEPT !.op = "move", !.at = "endAll", !.sub = sub].sub = sub
      BY DEF Req, Op, Step
    <3>4. PICK new \in Req : /\ new = [r EXCEPT !.op = "move", !.at = "endAll", !.sub = sub]
                             /\ new.at = "endAll" /\ new.sub = sub
      BY <3>3
    <3>5. req' = [req EXCEPT ![h] = new]
      BY <1>1, <2>2, <3>1, <3>2, <3>4 DEF AfterWrite, AccountsTypeOK
    <3>6. /\ req' \in [Requests -> Req] /\ req'[h] = new
          /\ \A g \in Requests \ {h} : req'[g] = req[g]
      BY <3>4, <3>5, ReqEffect
    <3>7. NamedReq(new, made)
      BY <3>4 DEF NamedReq
    <3>8. QED BY <3>2, <3>4, <3>6, <3>7
  <2>3. QED BY <2>1, <2>2
<1>7. CASE users[req[h].id] = NoUser
  <2>1. UNCHANGED <<users, disturbed>>
    BY <1>7 DEF WriteUser
  <2>2. QED BY <1>1, <1>4, <1>6, <2>1 DEF AccountsTypeOK
<1>8. CASE users[req[h].id] # NoUser
  <2>1. users' = [users EXCEPT ![req[h].id] = d] /\ disturbed' = (disturbed \/ Disturbs(h))
    BY <1>5, <1>8 DEF WriteUser
  <2>2. /\ users' \in [Ids -> User] /\ users'[req[h].id] = d
        /\ \A i \in Ids \ {req[h].id} : users'[i] = users[i]
    BY <1>4, <2>1 DEF AccountsTypeOK
  <2>3. disturbed' = (disturbed \/ /\ users[req[h].id].email # users'[req[h].id].email
                                   /\ ~ (req[h].op = "move" /\ req[h].sub = req[h].id))
    BY <1>5, <2>1, <2>2 DEF Disturbs
  <2>4. QED BY <1>1, <1>4, <1>5, <1>6, <1>8, <2>2, <2>3
<1>9. QED BY <1>7, <1>8

(* The calls of a deletion, of a login's session and of the last step of a     *)
(* change of address.                                                        *)
LEMMA EndingTurn ==
    ASSUME AccountsTypeOK, AccountsNamed, NEW h \in Requests,
           SaveSession(h) \/ EndAllSessions(h) \/ EndSessions(h) \/ DropUser(h) \/ Abandon(h)
    PROVE  /\ req' \in [Requests -> Req] /\ \A g \in Requests \ {h} : req'[g] = req[g]
           /\ NamedReq(req'[h], made)
           /\ SaveSession(h) \/ EndAllSessions(h) \/ DropUser(h) \/ Abandon(h) => req'[h].at = "idle"
           /\ EndSessions(h) => req'[h].at \in {"purge", "dropUser"} /\ req'[h].id = req[h].id
           /\ made' = made
           /\ ~ Abandon(h) /\ ~ EndAllSessions(h) => req[h].id \in Ids /\ req[h].id \in 1..made
<1>1. NamedReq(req[h], made) /\ made \in Ids
  BY DEF AccountsNamed, AccountsTypeOK
<1>2. made' = made
  BY DEF SaveSession, EndAllSessions, EndSessions, DropUser, Abandon
<1>3. ASSUME SaveSession(h) \/ EndSessions(h) \/ DropUser(h)
      PROVE  req[h].id \in Ids /\ req[h].id \in 1..made
  <2>1. req[h].at \in {"session", "endSessions", "dropUser"}
    BY <1>3 DEF SaveSession, EndSessions, DropUser
  <2>2. req[h].id \in 1..made
    BY <1>1, <2>1 DEF NamedReq
  <2>3. made \in Nat /\ MaxUsers \in Nat /\ made <= MaxUsers
    BY <1>1, AccountsAssumption DEF Ids
  <2>4. QED BY <2>2, <2>3 DEF Ids
<1>4. CASE SaveSession(h) \/ EndAllSessions(h) \/ DropUser(h) \/ Abandon(h)
  <2>1. Finish(h)
    BY <1>4 DEF SaveSession, EndAllSessions, DropUser, Abandon
  <2>2. req[h].at # "endSessions" \/ Abandon(h)
    BY <1>4 DEF SaveSession, EndAllSessions, DropUser
  <2>3. /\ req' \in [Requests -> Req] /\ \A g \in Requests \ {h} : req'[g] = req[g]
        /\ req'[h].at = "idle" /\ NamedReq(req'[h], made)
    BY <2>1, FinishTurn
  <2>4. ~ EndSessions(h)
    <3>1. EndSessions(h) => req'[h].at \in {"purge", "dropUser"}
      <4>1. SUFFICES ASSUME EndSessions(h) PROVE req'[h].at \in {"purge", "dropUser"}
        OBVIOUS
      <4>2. Advance(h, AfterSessions(req[h].op)) /\ AfterSessions(req[h].op) \in Step
        BY <4>1 DEF EndSessions, AfterSessions, Step
      <4>3. req'[h].at = AfterSessions(req[h].op)
        BY <4>2, AdvanceTurn
      <4>4. QED BY <4>3 DEF AfterSessions
    <3>2. QED BY <2>3, <3>1
  <2>5. QED BY <1>2, <1>3, <2>3, <2>4
<1>5. CASE EndSessions(h)
  <2>1. Advance(h, AfterSessions(req[h].op)) /\ AfterSessions(req[h].op) \in Step
        /\ AfterSessions(req[h].op) \in {"purge", "dropUser"} /\ req[h].at = "endSessions"
    BY <1>5 DEF EndSessions, AfterSessions, Step
  <2>2. /\ req' \in [Requests -> Req] /\ \A g \in Requests \ {h} : req'[g] = req[g]
        /\ req'[h].at = AfterSessions(req[h].op) /\ req'[h].op = req[h].op
        /\ req'[h].want = req[h].want /\ req'[h].id = req[h].id
    BY <2>1, AdvanceTurn
  <2>3. req'[h].at \in {"purge", "dropUser"}
    BY <2>1, <2>2
  <2>4. req[h].id \in 1..made
    BY <1>3, <1>5
  <2>5. req[h].op = "move" => req[h].want \in Emails
    BY <1>1, <2>1 DEF NamedReq
  <2>6. NamedReq(req'[h], made)
    BY <2>2, <2>3, <2>4, <2>5 DEF NamedReq
  <2>7. ~ SaveSession(h) /\ ~ EndAllSessions(h) /\ ~ DropUser(h) /\ ~ Abandon(h)
    <3>1. ~ SaveSession(h) /\ ~ EndAllSessions(h) /\ ~ DropUser(h)
      BY <2>1 DEF SaveSession, EndAllSessions, DropUser
    <3>2. Abandon(h) => req'[h].at = "idle"
      BY FinishTurn DEF Abandon
    <3>3. QED BY <2>3, <3>1, <3>2
  <2>8. QED BY <1>2, <1>3, <1>5, <2>2, <2>3, <2>6, <2>7
<1>6. QED BY <1>4, <1>5

(* The steps of the specification, by what they do. *)
Serving(h) ==
    \/ Starting(h) \/ Looking(h) \/ InsertUser(h) \/ WriteUser(h)
    \/ SaveSession(h) \/ EndAllSessions(h) \/ EndSessions(h) \/ DropUser(h) \/ Abandon(h)

(* Each step is of one request, or ends a session. *)
LEMMA AccountsSteps ==
    ASSUME AccountsNext
    PROVE  (\E h \in Requests : Serving(h)) \/ (\E s \in sessions : EndSession(s))
BY DEF AccountsNext, SignIn, EditAccount, DeleteAccount, Serving, Starting, Looking,
       Logout, RevokeSession, ExpireSession

(* What a request has found stays found. *)
LEMMA NamedLater ==
    ASSUME NEW r, NEW m \in Nat, NEW n \in Nat, m <= n, NamedReq(r, m)
    PROVE  NamedReq(r, n)
<1>1. 1..m \subseteq 1..n
  OBVIOUS
<1>2. QED BY <1>1 DEF NamedReq

(* The invariants of types and of what was found. *)
LEMMA AccountsTyped ==
    ASSUME AccountsTypeOK, AccountsNamed, [AccountsNext]_accountsVars
    PROVE  AccountsTypeOK' /\ AccountsNamed'
<1>1. /\ users \in [Ids -> User] /\ made \in Ids /\ sessions \subseteq Session
      /\ logins \in 0..MaxLogins /\ req \in [Requests -> Req]
      /\ ended \in [Ids -> 0..MaxLogins] /\ disturbed \in BOOLEAN
      /\ made \in Nat /\ logins \in Nat /\ MaxLogins \in Nat
  BY AccountsAssumption DEF AccountsTypeOK, Ids
<1>2. ASSUME NEW h \in Requests, made <= made', made' \in Nat,
             \A g \in Requests \ {h} : req'[g] = req[g], NamedReq(req'[h], made')
      PROVE  \A g \in Requests : NamedReq(req'[g], made')
  <2>1. SUFFICES ASSUME NEW g \in Requests \ {h}
                 PROVE  NamedReq(req'[g], made')
    BY <1>2
  <2>2. NamedReq(req[g], made) /\ req'[g] = req[g]
    BY <1>2 DEF AccountsNamed
  <2>3. NamedReq(req[g], made')
    BY <1>1, <1>2, <2>2, NamedLater
  <2>4. QED BY <2>2, <2>3
<1>3. ASSUME NEW h \in Requests, UNCHANGED <<users, made>>, sessions' \subseteq Session,
             logins' \in 0..MaxLogins, ended' \in [Ids -> 0..MaxLogins], disturbed' \in BOOLEAN,
             req' \in [Requests -> Req], \A g \in Requests \ {h} : req'[g] = req[g],
             NamedReq(req'[h], made)
      PROVE  AccountsTypeOK' /\ AccountsNamed'
  <2>1. made <= made' /\ made' \in Nat /\ NamedReq(req'[h], made')
    BY <1>1, <1>3
  <2>2. \A g \in Requests : NamedReq(req'[g], made')
    BY <1>2, <1>3, <2>1
  <2>3. AccountsNamed'
    BY <1>3, <2>2 DEF AccountsNamed
  <2>4. AccountsTypeOK'
    BY <1>1, <1>3 DEF AccountsTypeOK
  <2>5. QED BY <2>3, <2>4
<1>4. ASSUME NEW h \in Requests, Serving(h)
      PROVE  AccountsTypeOK' /\ AccountsNamed'
  <2>1. CASE Starting(h) \/ Looking(h)
    <3>1. /\ UNCHANGED <<users, made, sessions, logins, ended, disturbed>>
          /\ req' \in [Requests -> Req] /\ \A g \in Requests \ {h} : req'[g] = req[g]
          /\ NamedReq(req'[h], made)
      BY <2>1, StartTurn, LookTurn
    <3>2. QED BY <1>1, <1>3, <3>1
  <2>2. CASE InsertUser(h)
    <3>1. /\ req' \in [Requests -> Req] /\ \A g \in Requests \ {h} : req'[g] = req[g]
          /\ NamedReq(req'[h], made')
          /\ made' = made + 1 /\ made' \in Ids /\ users' \in [Ids -> User]
          /\ users'[made'].email \in Emails
          /\ \A i \in Ids \ {made'} : users'[i] = users[i]
          /\ UNCHANGED <<sessions, logins, ended, disturbed>>
      BY <2>2, InsertTurn
    <3>2. made <= made' /\ made' \in Nat
      BY <1>1, <3>1
    <3>3. \A g \in Requests : NamedReq(req'[g], made')
      BY <1>2, <3>1, <3>2
    <3>4. AccountsTypeOK'
      BY <1>1, <3>1 DEF AccountsTypeOK
    <3>5. \A i \in Ids : i > made' => i # made' /\ i > made
      BY <1>1, <3>1, AccountsAssumption DEF Ids
    <3>6. AccountsNamed'
      BY <3>1, <3>3, <3>5 DEF AccountsNamed
    <3>7. QED BY <3>4, <3>6
  <2>3. CASE WriteUser(h)
    <3>1. /\ req' \in [Requests -> Req] /\ \A g \in Requests \ {h} : req'[g] = req[g]
          /\ NamedReq(req'[h], made)
          /\ req[h].id \in Ids
          /\ users' \in [Ids -> User]
          /\ \A i \in Ids \ {req[h].id} : users'[i] = users[i]
          /\ UNCHANGED <<made, sessions, logins, ended>>
      BY <2>3, WriteTurn
    <3>2. \/ UNCHANGED <<users, disturbed>>
          \/ /\ users[req[h].id] # NoUser /\ users'[req[h].id].email \in Emails
             /\ disturbed' \in BOOLEAN
      BY <2>3, WriteTurn
    <3>3. \A g \in Requests : NamedReq(req'[g], made')
      BY <1>1, <1>2, <3>1
    <3>4. AccountsTypeOK'
      BY <1>1, <3>1, <3>2 DEF AccountsTypeOK
    <3>5. AccountsNamed'
      BY <3>1, <3>2, <3>3 DEF AccountsNamed
    <3>6. QED BY <3>4, <3>5
  <2>4. CASE SaveSession(h) \/ EndAllSessions(h) \/ EndSessions(h) \/ DropUser(h) \/ Abandon(h)
    <3>1. /\ req' \in [Requests -> Req] /\ \A g \in Requests \ {h} : req'[g] = req[g]
          /\ NamedReq(req'[h], made) /\ made' = made
          /\ ~ Abandon(h) /\ ~ EndAllSessions(h) => req[h].id \in Ids
      BY <2>4, EndingTurn
    <3>2. CASE SaveSession(h)
      <4>1. /\ req[h].at = "session" /\ logins < MaxLogins /\ logins' = logins + 1
            /\ sessions' = sessions \cup {Token(h)}
            /\ UNCHANGED <<users, made, ended, disturbed>>
        BY <3>2 DEF SaveSession
      <4>2. req[h].id \in 1..made /\ req[h].doc.email \in Emails
        BY <4>1 DEF AccountsNamed, NamedReq
      <4>3. req[h].id \in Ids
        BY <1>1, <4>2, AccountsAssumption DEF Ids
      <4>4. logins + 1 \in 1..MaxLogins /\ logins' \in 0..MaxLogins
        BY <1>1, <4>1
      <4>5. Token(h) \in Session
        BY <4>2, <4>3, <4>4 DEF Token, Session
      <4>6. sessions' \subseteq Session
        BY <1>1, <4>1, <4>5
      <4>7. QED BY <1>1, <1>3, <3>1, <4>1, <4>4, <4>6
    <3>3. CASE EndAllSessions(h)
      <4>1. /\ sessions' \subseteq sessions
            /\ UNCHANGED <<users, made, logins, ended, disturbed>>
        BY <3>3 DEF EndAllSessions
      <4>2. QED BY <1>1, <1>3, <3>1, <4>1
    <3>4. CASE EndSessions(h)
      <4>1. /\ sessions' \subseteq sessions /\ ended' = [ended EXCEPT ![req[h].id] = logins]
            /\ UNCHANGED <<users, made, logins, disturbed>>
        BY <3>4 DEF EndSessions
      <4>2. ended' \in [Ids -> 0..MaxLogins]
        BY <1>1, <4>1
      <4>3. QED BY <1>1, <1>3, <3>1, <4>1, <4>2
    <3>5. CASE DropUser(h)
      <4>1. /\ users' = [users EXCEPT ![req[h].id] = NoUser]
            /\ UNCHANGED <<made, sessions, logins, ended, disturbed>>
        BY <3>5 DEF DropUser
      <4>2. NoUser \in User
        BY NoReqFields
      <4>3. users' \in [Ids -> User] /\ \A i \in Ids : users'[i] = users[i] \/ users'[i] = NoUser
        BY <1>1, <4>1, <4>2
      <4>4. \A g \in Requests : NamedReq(req'[g], made')
        BY <1>1, <1>2, <3>1
      <4>5. AccountsTypeOK'
        BY <1>1, <3>1, <4>1, <4>3 DEF AccountsTypeOK
      <4>6. AccountsNamed'
        BY <3>1, <4>3, <4>4 DEF AccountsNamed
      <4>7. QED BY <4>5, <4>6
    <3>6. CASE Abandon(h)
      <4>1. /\ disturbed' = (disturbed \/ req[h].at = "endAll")
            /\ UNCHANGED <<users, made, sessions, logins, ended>>
        BY <3>6 DEF Abandon
      <4>2. disturbed' \in BOOLEAN
        BY <4>1
      <4>3. QED BY <1>1, <1>3, <3>1, <4>1, <4>2
    <3>7. QED BY <2>4, <3>2, <3>3, <3>4, <3>5, <3>6
  <2>5. QED BY <1>4, <2>1, <2>2, <2>3, <2>4 DEF Serving
<1>5. ASSUME NEW s \in sessions, EndSession(s)
      PROVE  AccountsTypeOK' /\ AccountsNamed'
  <2>1. sessions' \subseteq sessions /\ UNCHANGED <<users, made, logins, req, ended, disturbed>>
    BY <1>5 DEF EndSession
  <2>2. QED BY <2>1 DEF AccountsTypeOK, AccountsNamed
<1>6. CASE UNCHANGED accountsVars
  BY <1>6 DEF accountsVars, AccountsTypeOK, AccountsNamed
<1>7. CASE AccountsNext
  BY <1>4, <1>5, <1>7, AccountsSteps
<1>8. QED BY <1>6, <1>7

(* At first one account exists, and nothing is asked for. *)
LEMMA AccountsBegin ==
    ASSUME AccountsInit
    PROVE  AccountsTypeOK /\ AccountsNamed
<1>1. PICK e \in Emails :
         /\ users = [i \in Ids |-> IF i = 1 THEN [email |-> e, ident |-> FALSE] ELSE NoUser]
         /\ sessions = {[jti |-> 1, user |-> 1, email |-> e]}
  BY DEF AccountsInit
<1>2. /\ 1 \in Ids /\ 1 \in 1..MaxLogins /\ 1 \in 0..MaxLogins /\ 0 \in 0..MaxLogins
  BY AccountsAssumption DEF Ids
<1>3. /\ made = 1 /\ logins = 1 /\ req = [h \in Requests |-> NoReq]
      /\ ended = [i \in Ids |-> 0] /\ disturbed = FALSE
  BY DEF AccountsInit
<1>4. PICK d \in User : d = [email |-> e, ident |-> FALSE] /\ d.email = e
  <2>1. [email |-> e, ident |-> FALSE] \in User /\ [email |-> e, ident |-> FALSE].email = e
    BY DEF User
  <2>2. QED BY <2>1
<1>5. users = [i \in Ids |-> IF i = 1 THEN d ELSE NoUser]
  BY <1>1, <1>4
<1>6. [jti |-> 1, user |-> 1, email |-> e] \in Session
  BY <1>2 DEF Session
<1>7. AccountsTypeOK
  BY <1>1, <1>2, <1>3, <1>5, <1>6, NoReqFields DEF AccountsTypeOK
<1>8. \A i \in Ids : i > 1 => i # 1
  OBVIOUS
<1>9. \A h \in Requests : NamedReq(req[h], made)
  BY <1>3, NoReqFields
<1>10. AccountsNamed
  BY <1>3, <1>4, <1>5, <1>8, <1>9 DEF AccountsNamed
<1>11. QED BY <1>7, <1>10

(* The accounts have their types in every reachable state.                   *)
THEOREM AccountsInvariance == AccountsSpec => [](AccountsTypeOK /\ AccountsNamed)
<1>1. AccountsInit => AccountsTypeOK /\ AccountsNamed
  BY AccountsBegin
<1>2. AccountsTypeOK /\ AccountsNamed /\ [AccountsNext]_accountsVars
         => (AccountsTypeOK /\ AccountsNamed)'
  BY AccountsTyped
<1>3. QED BY <1>1, <1>2, PTL DEF AccountsSpec

(* AccountsTypeOK holds in every reachable state.                            *)
THEOREM AccountsTypeCorrect == AccountsSpec => []AccountsTypeOK
BY AccountsInvariance, PTL

(* A deleted account never comes back: whatever request takes a step, an       *)
(* account that was made and has no document has none after it either, though *)
(* a request may still hold the document it read before the deletion.        *)
THEOREM NoResurrectionHolds == AccountsSpec => NoResurrection
<1>1. ASSUME AccountsTypeOK, AccountsNamed, [AccountsNext]_accountsVars
      PROVE  \A i \in 1..made : users[i] = NoUser => users'[i] = NoUser
  <2>1. SUFFICES ASSUME NEW i \in 1..made, users[i] = NoUser
                 PROVE  users'[i] = NoUser
    OBVIOUS
  <2>2. i \in Ids /\ made \in Nat /\ i # made + 1
    BY <1>1, AccountsAssumption DEF AccountsTypeOK, Ids
  <2>3. ASSUME NEW h \in Requests, Serving(h)
        PROVE  users'[i] = NoUser
    <3>1. CASE Starting(h) \/ Looking(h)
      BY <1>1, <2>1, <3>1, StartTurn, LookTurn
    <3>2. CASE InsertUser(h)
      BY <2>1, <2>2, <3>2, <1>1, InsertTurn
    <3>3. CASE WriteUser(h)
      BY <1>1, <2>1, <2>2, <3>3, WriteTurn
    <3>4. CASE DropUser(h)
      BY <1>1, <2>1, <2>2, <3>4 DEF DropUser, AccountsTypeOK
    <3>5. CASE SaveSession(h) \/ EndAllSessions(h) \/ EndSessions(h) \/ Abandon(h)
      BY <2>1, <3>5 DEF SaveSession, EndAllSessions, EndSessions, Abandon
    <3>6. QED BY <2>3, <3>1, <3>2, <3>3, <3>4, <3>5 DEF Serving
  <2>4. ASSUME NEW s \in sessions, EndSession(s)
        PROVE  users'[i] = NoUser
    BY <2>1, <2>4 DEF EndSession
  <2>5. CASE UNCHANGED accountsVars
    BY <2>1, <2>5 DEF accountsVars
  <2>6. QED BY <1>1, <2>3, <2>4, <2>5, AccountsSteps
<1>2. AccountsTypeOK /\ AccountsNamed /\ [AccountsNext]_accountsVars
         => [\A i \in 1..made : users[i] = NoUser => users'[i] = NoUser]_accountsVars
  BY <1>1
<1>3. QED BY <1>2, AccountsInvariance, PTL DEF AccountsSpec, NoResurrection

(* A deletion that goes past the end of the sessions has left its mark, and so  *)
(* has one that dropped the account; a session that is there is newer.       *)
EndedInv ==
    /\ 0 < logins
    /\ \A s \in sessions : s.jti <= logins /\ s.user <= made /\ ended[s.user] < s.jti
    /\ \A i \in Ids : ended[i] <= logins
    /\ \A i \in 1..made : users[i] = NoUser => 0 < ended[i]
    /\ \A h \in Requests : req[h].at \in {"purge", "dropUser"} => 0 < ended[req[h].id]

(* An account with an address is not gone. *)
LEMMA AddressedIsThere ==
    ASSUME NEW d, d.email \in Emails
    PROVE  d # NoUser
BY NoReqFields, AccountsAssumption

(* One step keeps what is said of the deletions.                             *)
LEMMA EndedStep ==
    ASSUME AccountsTypeOK, AccountsNamed, EndedInv, [AccountsNext]_accountsVars
    PROVE  EndedInv'
<1>1. /\ users \in [Ids -> User] /\ made \in Ids /\ sessions \subseteq Session
      /\ logins \in Nat /\ req \in [Requests -> Req]
      /\ ended \in [Ids -> 0..MaxLogins]
      /\ made \in Nat /\ MaxLogins \in Nat /\ MaxUsers \in Nat /\ made <= MaxUsers
      /\ \A i \in Ids : ended[i] \in Nat
      /\ \A i \in 1..made : i \in Ids
  BY AccountsAssumption DEF AccountsTypeOK, Ids
<1>2. \A s \in sessions : s.jti \in Nat /\ s.user \in Ids /\ s.user \in Nat
  BY <1>1 DEF Session, Ids
<1>3. /\ 0 < logins
      /\ \A s \in sessions : s.jti <= logins /\ s.user <= made /\ ended[s.user] < s.jti
      /\ \A i \in Ids : ended[i] <= logins
      /\ \A i \in 1..made : users[i] = NoUser => 0 < ended[i]
      /\ \A h \in Requests : req[h].at \in {"purge", "dropUser"} => 0 < ended[req[h].id]
  BY DEF EndedInv
<1>4. ASSUME NEW h \in Requests, sessions' \subseteq sessions, UNCHANGED <<made, logins, ended>>,
             \A g \in Requests \ {h} : req'[g] = req[g],
             req'[h].at \in {"purge", "dropUser"} => 0 < ended[req'[h].id],
             \A i \in 1..made : users'[i] = NoUser => users[i] = NoUser \/ 0 < ended[i]
      PROVE  EndedInv'
  <2>1. \A s \in sessions' : s.jti <= logins' /\ s.user <= made' /\ ended'[s.user] < s.jti
    BY <1>3, <1>4
  <2>2. \A i \in 1..made' : users'[i] = NoUser => 0 < ended'[i]
    BY <1>3, <1>4
  <2>3. \A g \in Requests : req'[g].at \in {"purge", "dropUser"} => 0 < ended'[req'[g].id]
    BY <1>3, <1>4
  <2>4. QED BY <1>3, <1>4, <2>1, <2>2, <2>3 DEF EndedInv
<1>5. ASSUME NEW h \in Requests, Serving(h)
      PROVE  EndedInv'
  <2>1. CASE Starting(h)
    <3>1. /\ UNCHANGED <<users, made, sessions, logins, ended>>
          /\ \A g \in Requests \ {h} : req'[g] = req[g]
          /\ req'[h].at \notin {"purge", "dropUser"}
      BY <2>1, StartTurn
    <3>2. QED BY <1>4, <3>1
  <2>2. CASE Looking(h)
    <3>1. /\ UNCHANGED <<users, made, sessions, logins, ended>>
          /\ \A g \in Requests \ {h} : req'[g] = req[g]
          /\ req'[h].at \in {"purge", "dropUser"} => req[h].at = "purge" /\ req'[h].id = req[h].id
      BY <2>2, LookTurn
    <3>2. req'[h].at \in {"purge", "dropUser"} => 0 < ended[req'[h].id]
      BY <1>3, <3>1
    <3>3. QED BY <1>4, <3>1, <3>2
  <2>3. CASE InsertUser(h)
    <3>1. /\ \A g \in Requests \ {h} : req'[g] = req[g]
          /\ req'[h].at = "session"
          /\ made' = made + 1 /\ made' \in Ids /\ users'[made'].email \in Emails
          /\ \A i \in Ids \ {made'} : users'[i] = users[i]
          /\ UNCHANGED <<sessions, logins, ended>>
      BY <2>3, InsertTurn
    <3>2. users'[made'] # NoUser
      BY <3>1, AddressedIsThere
    <3>3. \A i \in 1..made' : users'[i] = NoUser => i \in 1..made /\ users[i] = NoUser
      <4>1. SUFFICES ASSUME NEW i \in 1..made', users'[i] = NoUser
                     PROVE  i \in 1..made /\ users[i] = NoUser
        OBVIOUS
      <4>2. i # made'
        BY <3>2, <4>1
      <4>3. i \in 1..made
        BY <1>1, <3>1, <4>2
      <4>4. QED BY <1>1, <3>1, <4>1, <4>2, <4>3
    <3>4. \A i \in 1..made' : users'[i] = NoUser => 0 < ended'[i]
      BY <1>3, <3>1, <3>3
    <3>5. \A g \in Requests : req'[g].at \in {"purge", "dropUser"} => 0 < ended'[req'[g].id]
      BY <1>3, <3>1
    <3>6. \A s \in sessions' : s.jti <= logins' /\ s.user <= made' /\ ended'[s.user] < s.jti
      BY <1>1, <1>2, <1>3, <3>1
    <3>7. QED BY <1>3, <3>1, <3>4, <3>5, <3>6 DEF EndedInv
  <2>4. CASE WriteUser(h)
    <3>1. /\ \A g \in Requests \ {h} : req'[g] = req[g]
          /\ req'[h].at \in {"idle", "endAll"} /\ req[h].id \in Ids
          /\ \A i \in Ids \ {req[h].id} : users'[i] = users[i]
          /\ users' = users \/ users'[req[h].id].email \in Emails
          /\ UNCHANGED <<made, sessions, logins, ended>>
      BY <2>4, WriteTurn
    <3>2. users' = users \/ users'[req[h].id] # NoUser
      BY <3>1, AddressedIsThere
    <3>3. \A i \in 1..made : users'[i] = NoUser => users[i] = NoUser
      BY <1>1, <3>1, <3>2
    <3>4. QED BY <1>4, <3>1, <3>3
  <2>5. CASE SaveSession(h)
    <3>1. /\ \A g \in Requests \ {h} : req'[g] = req[g]
          /\ req'[h].at = "idle" /\ req[h].id \in Ids /\ req[h].id \in 1..made
      <4>1. ~ Abandon(h) /\ ~ EndAllSessions(h)
        <5>1. sessions' = sessions \cup {Token(h)} /\ logins' = logins + 1
          BY <2>5 DEF SaveSession
        <5>2. Abandon(h) \/ EndAllSessions(h) => logins' = logins
          BY DEF Abandon, EndAllSessions
        <5>3. QED BY <1>1, <5>1, <5>2
      <4>2. QED BY <2>5, <4>1, EndingTurn
    <3>2. /\ logins' = logins + 1 /\ sessions' = sessions \cup {Token(h)}
          /\ UNCHANGED <<users, made, ended>>
      BY <2>5 DEF SaveSession
    <3>3. Token(h).jti = logins + 1 /\ Token(h).user = req[h].id
      BY DEF Token
    <3>4. /\ Token(h).jti <= logins' /\ Token(h).user <= made' /\ ended'[Token(h).user] < Token(h).jti
      BY <1>1, <1>3, <3>1, <3>2, <3>3
    <3>5. \A s \in sessions : s.jti <= logins' /\ s.user <= made' /\ ended'[s.user] < s.jti
      BY <1>1, <1>2, <1>3, <3>2
    <3>6. \A s \in sessions' : s.jti <= logins' /\ s.user <= made' /\ ended'[s.user] < s.jti
      BY <3>2, <3>4, <3>5
    <3>7. 0 < logins' /\ \A i \in Ids : ended'[i] <= logins'
      BY <1>1, <1>3, <3>2
    <3>8. \A g \in Requests : req'[g].at \in {"purge", "dropUser"} => 0 < ended'[req'[g].id]
      BY <1>3, <3>1, <3>2
    <3>9. QED BY <1>3, <3>2, <3>6, <3>7, <3>8 DEF EndedInv
  <2>6. CASE EndAllSessions(h)
    <3>1. /\ sessions' \subseteq sessions /\ UNCHANGED <<users, made, logins, ended>>
      BY <2>6 DEF EndAllSessions
    <3>2. /\ \A g \in Requests \ {h} : req'[g] = req[g]
          /\ req'[h].at = "idle"
      BY <2>6, EndingTurn
    <3>3. QED BY <1>4, <3>1, <3>2
  <2>7. CASE EndSessions(h)
    <3>1. /\ sessions' = {s \in sessions : s.user # req[h].id}
          /\ ended' = [ended EXCEPT ![req[h].id] = logins]
          /\ UNCHANGED <<users, made, logins>>
      BY <2>7 DEF EndSessions
    <3>2. /\ \A g \in Requests \ {h} : req'[g] = req[g]
          /\ req'[h].at \in {"purge", "dropUser"} /\ req'[h].id = req[h].id
      BY <2>7, EndingTurn
    <3>3. req[h].id \in Ids
      <4>1. req[h].at = "endSessions"
        BY <2>7 DEF EndSessions
      <4>2. req[h].id \in 1..made
        BY <4>1 DEF AccountsNamed, NamedReq
      <4>3. QED BY <1>1, <4>2
    <3>4. /\ ended'[req[h].id] = logins
          /\ \A i \in Ids \ {req[h].id} : ended'[i] = ended[i]
      BY <1>1, <3>1, <3>3
    <3>5. \A i \in Ids : ended'[i] <= logins /\ (0 < ended[i] => 0 < ended'[i])
      BY <1>1, <1>3, <3>4
    <3>6. \A s \in sessions' : s.jti <= logins' /\ s.user <= made' /\ ended'[s.user] < s.jti
      BY <1>2, <1>3, <3>1, <3>4
    <3>7. \A i \in 1..made' : users'[i] = NoUser => 0 < ended'[i]
      BY <1>1, <1>3, <3>1, <3>5
    <3>8. \A g \in Requests : req'[g].at \in {"purge", "dropUser"} => 0 < ended'[req'[g].id]
      <4>1. 0 < ended'[req'[h].id]
        BY <1>3, <3>2, <3>4
      <4>2. \A g \in Requests : req[g].at \in {"purge", "dropUser"} => req[g].id \in 1..made
        BY DEF AccountsNamed, NamedReq
      <4>3. \A g \in Requests \ {h} : req'[g].at \in {"purge", "dropUser"} => 0 < ended'[req'[g].id]
        BY <1>1, <1>3, <3>2, <3>5, <4>2
      <4>4. QED BY <4>1, <4>3
    <3>9. QED BY <1>3, <3>1, <3>5, <3>6, <3>7, <3>8 DEF EndedInv
  <2>8. CASE DropUser(h)
    <3>1. /\ req[h].at = "dropUser" /\ users' = [users EXCEPT ![req[h].id] = NoUser]
          /\ UNCHANGED <<made, sessions, logins, ended>>
      BY <2>8 DEF DropUser
    <3>2. /\ \A g \in Requests \ {h} : req'[g] = req[g]
          /\ req'[h].at = "idle"
      BY <2>8, EndingTurn
    <3>3. 0 < ended[req[h].id]
      BY <1>3, <3>1
    <3>4. \A i \in 1..made : users'[i] = NoUser => users[i] = NoUser \/ 0 < ended[i]
      BY <1>1, <3>1, <3>3
    <3>5. QED BY <1>4, <3>1, <3>2, <3>4
  <2>9. CASE Abandon(h)
    <3>1. UNCHANGED <<users, made, sessions, logins, ended>>
      BY <2>9 DEF Abandon
    <3>2. /\ \A g \in Requests \ {h} : req'[g] = req[g]
          /\ req'[h].at = "idle"
      BY <2>9, EndingTurn
    <3>3. QED BY <1>4, <3>1, <3>2
  <2>10. QED
    BY <1>5, <2>1, <2>2, <2>3, <2>4, <2>5, <2>6, <2>7, <2>8, <2>9 DEF Serving
<1>6. ASSUME NEW s \in sessions, EndSession(s)
      PROVE  EndedInv'
  <2>1. sessions' \subseteq sessions /\ UNCHANGED <<users, made, logins, req, ended>>
    BY <1>6 DEF EndSession
  <2>2. QED BY <1>3, <2>1 DEF EndedInv
<1>7. CASE UNCHANGED accountsVars
  BY <1>7 DEF accountsVars, EndedInv
<1>8. CASE AccountsNext
  BY <1>5, <1>6, <1>8, AccountsSteps
<1>9. QED BY <1>7, <1>8

(* Nothing was deleted at first.                                             *)
LEMMA EndedBegins ==
    ASSUME AccountsInit
    PROVE  EndedInv
<1>1. PICK e \in Emails :
         /\ users = [i \in Ids |-> IF i = 1 THEN [email |-> e, ident |-> FALSE] ELSE NoUser]
         /\ sessions = {[jti |-> 1, user |-> 1, email |-> e]}
  BY DEF AccountsInit
<1>2. 1 \in Ids
  BY AccountsAssumption DEF Ids
<1>3. /\ made = 1 /\ logins = 1 /\ req = [h \in Requests |-> NoReq]
      /\ ended = [i \in Ids |-> 0]
  BY DEF AccountsInit
<1>4. users[1].email = e
  BY <1>1, <1>2
<1>5. \A i \in 1..made : users[i] # NoUser
  BY <1>3, <1>4, AddressedIsThere
<1>6. \A h \in Requests : req[h].at = "idle"
  BY <1>3, NoReqFields
<1>7. \A s \in sessions : s.jti = 1 /\ s.user = 1
  BY <1>1
<1>8. QED BY <1>2, <1>3, <1>5, <1>6, <1>7 DEF EndedInv

(* Wherever a deletion stopped, of an account that is gone no session is left  *)
(* that was there when its deletion ended them.                              *)
THEOREM DeletionEndsSessionsHolds == AccountsSpec => []DeletionEndsSessions
<1>1. AccountsTypeOK /\ AccountsNamed /\ EndedInv => DeletionEndsSessions
  <2>1. SUFFICES ASSUME AccountsTypeOK, EndedInv, NEW s \in sessions, users[s.user] = NoUser
                 PROVE  0 < ended[s.user] /\ ended[s.user] < s.jti
    BY DEF DeletionEndsSessions
  <2>2. s.user \in Ids
    BY <2>1 DEF AccountsTypeOK, Session
  <2>3. s.user \in 1..made
    BY <2>1, <2>2, AccountsAssumption DEF EndedInv, AccountsTypeOK, Ids
  <2>4. QED BY <2>1, <2>3 DEF EndedInv
<1>2. AccountsTypeOK /\ AccountsNamed /\ EndedInv /\ [AccountsNext]_accountsVars
         => (AccountsTypeOK /\ AccountsNamed /\ EndedInv)'
  BY AccountsTyped, EndedStep
<1>3. AccountsInit => AccountsTypeOK /\ AccountsNamed /\ EndedInv
  BY AccountsBegin, EndedBegins
<1>4. QED BY <1>1, <1>2, <1>3, PTL DEF AccountsSpec

(* Logins that found an account before its address changed, and have not       *)
(* saved their session.                                                      *)
Missed(i) ==
    {h \in Requests : /\ req[h].at = "session" /\ req[h].id = i /\ users[i] # NoUser
                      /\ req[h].doc.email # users[i].email}

(* The change of address of the account is about to end its sessions. *)
EndingFor(i) == \E h \in Requests : req[h].at = "endAll" /\ req[h].sub = i

(* A session is late at a login's expense: the request that changed the        *)
(* address is none of those that missed the change.                          *)
StaleAt(i) ==
    \/ disturbed
    \/ EndingFor(i)
    \/ Cardinality(Late(i)) + Cardinality(Missed(i)) < Cardinality(Requests)

(* So it is for every account; sessions are of accounts that were made. *)
StaleInv ==
    /\ IsFiniteSet(sessions)
    /\ \A s \in sessions : s.user <= made
    /\ \A i \in Ids : StaleAt(i)

(* The sets that are counted are finite. *)
LEMMA StaleSizes ==
    ASSUME IsFiniteSet(sessions), NEW i \in Ids
    PROVE  /\ IsFiniteSet(Late(i)) /\ Cardinality(Late(i)) \in Nat
           /\ IsFiniteSet(Missed(i)) /\ Cardinality(Missed(i)) \in Nat
           /\ Cardinality(Requests) \in Nat /\ Cardinality(Missed(i)) <= Cardinality(Requests)
<1>1. Late(i) \in SUBSET sessions /\ Missed(i) \in SUBSET Requests
  BY DEF Late, Missed
<1>2. QED BY <1>1, PartSize, AccountsAssumption

(* Fewer late sessions and fewer logins that missed the change.              *)
LEMMA StaleShrinks ==
    ASSUME IsFiniteSet(sessions), NEW i \in Ids, Late(i)' \subseteq Late(i),
           Missed(i)' \subseteq Missed(i),
           Cardinality(Late(i)) + Cardinality(Missed(i)) < Cardinality(Requests)
    PROVE  Cardinality(Late(i)') + Cardinality(Missed(i)') < Cardinality(Requests)
<1>1. /\ IsFiniteSet(Late(i)) /\ Cardinality(Late(i)) \in Nat
      /\ IsFiniteSet(Missed(i)) /\ Cardinality(Missed(i)) \in Nat
      /\ Cardinality(Requests) \in Nat
  BY StaleSizes
<1>2. /\ Cardinality(Late(i)') \in Nat /\ Cardinality(Late(i)') <= Cardinality(Late(i))
      /\ Cardinality(Missed(i)') \in Nat /\ Cardinality(Missed(i)') <= Cardinality(Missed(i))
  BY <1>1, PartSize
<1>3. QED BY <1>1, <1>2

(* A step that leaves the accounts alone, or one account's change of          *)
(* address to come.                                                          *)
LEMMA StaleQuiet ==
    ASSUME StaleInv, NEW h \in Requests, NEW i \in Ids,
           sessions' \subseteq sessions,
           \/ users'[i] = NoUser \/ users'[i] = users[i]
           \/ users[i] # NoUser /\ users'[i].email = users[i].email,
           \A g \in Requests \ {h} : req'[g] = req[g],
           req'[h].at = "session" /\ req'[h].id = i => req'[h].doc.email = users'[i].email,
           disturbed => disturbed',
           req[h].at = "endAll" /\ req[h].sub = i => disturbed'
    PROVE  StaleAt(i)'
<1>1. Late(i)' \subseteq Late(i)
  BY DEF Late
<1>2. Missed(i)' \subseteq Missed(i)
  BY DEF Missed
<1>3. CASE disturbed
  BY <1>3 DEF StaleAt
<1>4. CASE EndingFor(i)
  <2>1. PICK g \in Requests : req[g].at = "endAll" /\ req[g].sub = i
    BY <1>4 DEF EndingFor
  <2>2. g = h \/ req'[g] = req[g]
    OBVIOUS
  <2>3. QED BY <2>1, <2>2 DEF StaleAt, EndingFor
<1>5. CASE Cardinality(Late(i)) + Cardinality(Missed(i)) < Cardinality(Requests)
  BY <1>1, <1>2, <1>5, StaleShrinks DEF StaleAt, StaleInv
<1>6. QED BY <1>3, <1>4, <1>5 DEF StaleInv, StaleAt

(* A login that saves its session: if it missed the change it is one of the    *)
(* late ones no longer, and its session is.                                  *)
LEMMA StaleSaved ==
    ASSUME AccountsTypeOK, AccountsNamed, StaleInv, NEW h \in Requests, NEW i \in Ids, SaveSession(h)
    PROVE  StaleAt(i)'
<1>1. /\ req[h].at = "session" /\ sessions' = sessions \cup {Token(h)}
      /\ UNCHANGED <<users, made, ended, disturbed>> /\ Finish(h)
  BY DEF SaveSession
<1>2. /\ \A g \in Requests \ {h} : req'[g] = req[g]
      /\ req'[h].at = "idle"
  BY <1>1, FinishTurn
<1>3. /\ IsFiniteSet(sessions) /\ IsFiniteSet(Late(i)) /\ Cardinality(Late(i)) \in Nat
      /\ IsFiniteSet(Missed(i)) /\ Cardinality(Missed(i)) \in Nat
      /\ Cardinality(Requests) \in Nat
  BY StaleSizes DEF StaleInv
<1>4. CASE disturbed
  BY <1>1, <1>4 DEF StaleAt
<1>5. CASE EndingFor(i)
  <2>1. PICK g \in Requests : req[g].at = "endAll" /\ req[g].sub = i
    BY <1>5 DEF EndingFor
  <2>2. req'[g] = req[g]
    BY <1>1, <1>2, <2>1
  <2>3. QED BY <2>1, <2>2 DEF StaleAt, EndingFor
<1>6. CASE Cardinality(Late(i)) + Cardinality(Missed(i)) < Cardinality(Requests)
  <2>1. CASE h \in Missed(i)
    <3>1. Missed(i)' \subseteq Missed(i) \ {h}
      BY <1>1, <1>2 DEF Missed
    <3>2. Late(i)' \subseteq Late(i) \cup {Token(h)}
      BY <1>1 DEF Late
    <3>3. /\ IsFiniteSet(Missed(i) \ {h})
          /\ Cardinality(Missed(i) \ {h}) = Cardinality(Missed(i)) - 1
      BY <1>3, <2>1, SizeLess
    <3>4. /\ IsFiniteSet(Late(i) \cup {Token(h)})
          /\ Cardinality(Late(i) \cup {Token(h)}) \in Nat
          /\ Cardinality(Late(i) \cup {Token(h)}) <= Cardinality(Late(i)) + 1
      BY <1>3, SizeJoined
    <3>5. /\ Cardinality(Missed(i)') \in Nat
          /\ Cardinality(Missed(i)') <= Cardinality(Missed(i) \ {h})
      BY <3>1, <3>3, PartSize
    <3>6. /\ Cardinality(Late(i)') \in Nat
          /\ Cardinality(Late(i)') <= Cardinality(Late(i) \cup {Token(h)})
      BY <3>2, <3>4, PartSize
    <3>7. Cardinality(Late(i)') + Cardinality(Missed(i)') < Cardinality(Requests)
      BY <1>3, <1>6, <3>3, <3>4, <3>5, <3>6
    <3>8. QED BY <3>7 DEF StaleAt
  <2>2. CASE h \notin Missed(i)
    <3>1. Missed(i)' \subseteq Missed(i)
      BY <1>1, <1>2 DEF Missed
    <3>2. ~ (Token(h).user = i /\ users[i] # NoUser /\ users[i].email # Token(h).email)
      BY <1>1, <2>2 DEF Missed, Token
    <3>3. Late(i)' \subseteq Late(i)
      BY <1>1, <3>2 DEF Late
    <3>4. QED BY <1>3, <1>6, <3>1, <3>3, StaleShrinks DEF StaleAt
  <2>3. QED BY <2>1, <2>2
<1>7. QED BY <1>4, <1>5, <1>6 DEF StaleInv, StaleAt

(* An account nobody knew yet has no late session.                           *)
LEMMA StaleNew ==
    ASSUME AccountsTypeOK, AccountsNamed, StaleInv, NEW h \in Requests, NEW i \in Ids, InsertUser(h)
    PROVE  StaleAt(i)'
<1>1. /\ \A g \in Requests \ {h} : req'[g] = req[g]
      /\ made' = made + 1 /\ made' \in Ids
      /\ \A j \in Ids \ {made'} : users'[j] = users[j]
      /\ req'[h].at = "session" /\ req'[h].id = made'
      /\ req'[h].doc.email = users'[made'].email
      /\ req[h].at = "insert"
      /\ UNCHANGED <<sessions, logins, ended, disturbed>>
  BY InsertTurn
<1>2. made \in Nat /\ \A s \in sessions : s.user \in Nat
  BY AccountsAssumption DEF AccountsTypeOK, Session, Ids
<1>3. CASE i # made'
  <2>1. users'[i] = users[i] /\ (req'[h].at = "session" => req'[h].id # i)
    BY <1>1, <1>3
  <2>2. disturbed => disturbed'
    BY <1>1
  <2>3. QED BY <1>1, <2>1, <2>2, StaleQuiet
<1>4. CASE i = made'
  <2>1. Late(i)' = {}
    <3>1. \A s \in sessions : s.user # i
      BY <1>1, <1>2, <1>4 DEF StaleInv
    <3>2. QED BY <1>1, <3>1 DEF Late
  <2>2. Missed(i)' = {}
    <3>1. \A g \in Requests \ {h} : req[g].at = "session" => req[g].id # i
      <4>1. SUFFICES ASSUME NEW g \in Requests, req[g].at = "session"
                     PROVE  req[g].id # i
        OBVIOUS
      <4>2. req[g].id \in 1..made
        BY <4>1 DEF AccountsNamed, NamedReq
      <4>3. QED BY <1>1, <1>2, <1>4, <4>2
    <3>2. QED BY <1>1, <1>4, <3>1 DEF Missed
  <2>3. Cardinality(Requests) \in Nat /\ Cardinality(Requests) # 0 /\ Cardinality({}) = 0
    BY AccountsAssumption, FS_CardinalityType, FS_EmptySet
  <2>4. Cardinality(Late(i)') + Cardinality(Missed(i)') < Cardinality(Requests)
    BY <2>1, <2>2, <2>3
  <2>5. QED BY <2>4 DEF StaleAt
<1>5. QED BY <1>3, <1>4

(* A change of address is disturbed, or has its last call still to make.     *)
LEMMA StaleWritten ==
    ASSUME AccountsTypeOK, AccountsNamed, StaleInv, NEW h \in Requests, NEW i \in Ids, WriteUser(h)
    PROVE  StaleAt(i)'
<1> DEFINE j == req[h].id
<1>1. /\ \A g \in Requests \ {h} : req'[g] = req[g]
      /\ req[h].at = "write" /\ j \in Ids
      /\ req'[h].at \in {"idle", "endAll"}
      /\ req[h].op = "move" => req'[h].at = "endAll" /\ req'[h].sub = req[h].sub
      /\ \A k \in Ids \ {j} : users'[k] = users[k]
      /\ UNCHANGED <<made, sessions, logins, ended>>
  BY WriteTurn
<1>2. \/ UNCHANGED <<users, disturbed>>
      \/ /\ users[j] # NoUser
         /\ disturbed' = (disturbed \/ /\ users[j].email # users'[j].email
                                       /\ ~ (req[h].op = "move" /\ req[h].sub = j))
  BY WriteTurn
<1> HIDE DEF j
<1>3. disturbed => disturbed'
  BY <1>2
<1>4. CASE users'[i] = users[i]
  <2>1. QED BY <1>1, <1>3, <1>4, StaleQuiet
<1>5. CASE users'[i] # users[i]
  <2>1. i = j /\ users[i] # NoUser
    BY <1>1, <1>2, <1>5
  <2>2. CASE users'[i].email = users[i].email
    BY <1>1, <1>3, <2>1, <2>2, StaleQuiet
  <2>3. CASE users'[i].email # users[i].email
    <3>1. disturbed' \/ (req[h].op = "move" /\ req[h].sub = i)
      BY <1>2, <1>5, <2>1, <2>3
    <3>2. CASE req[h].op = "move" /\ req[h].sub = i
      BY <1>1, <3>2 DEF StaleAt, EndingFor
    <3>3. CASE disturbed'
      BY <3>3 DEF StaleAt
    <3>4. QED BY <3>1, <3>2, <3>3
  <2>4. QED BY <2>2, <2>3
<1>6. QED BY <1>4, <1>5

(* Once the sessions are ended, only other requests can have missed the        *)
(* change.                                                                   *)
LEMMA StaleEnded ==
    ASSUME AccountsTypeOK, AccountsNamed, StaleInv, NEW h \in Requests, NEW i \in Ids,
           EndAllSessions(h)
    PROVE  StaleAt(i)'
<1>1. /\ req[h].at = "endAll" /\ sessions' = {s \in sessions : s.user # req[h].sub}
      /\ UNCHANGED <<users, made, logins, ended, disturbed>> /\ Finish(h)
  BY DEF EndAllSessions
<1>2. /\ \A g \in Requests \ {h} : req'[g] = req[g]
      /\ req'[h].at = "idle"
  BY <1>1, FinishTurn
<1>3. CASE req[h].sub = i
  <2>1. Late(i)' = {}
    BY <1>1, <1>3 DEF Late
  <2>2. Missed(i)' \in SUBSET (Requests \ {h})
    BY <1>2 DEF Missed
  <2>3. Cardinality(Missed(i)') \in Nat /\ Cardinality(Missed(i)') + 1 <= Cardinality(Requests)
    BY <2>2, PartWithout, AccountsAssumption
  <2>4. Cardinality({}) = 0 /\ Cardinality(Requests) \in Nat
    BY AccountsAssumption, FS_CardinalityType, FS_EmptySet
  <2>5. Cardinality(Late(i)') + Cardinality(Missed(i)') < Cardinality(Requests)
    BY <2>1, <2>3, <2>4
  <2>6. QED BY <2>5 DEF StaleAt
<1>4. CASE req[h].sub # i
  <2>1. QED BY <1>1, <1>2, <1>4, StaleQuiet
<1>5. QED BY <1>3, <1>4

(* One step keeps the bound of every account.                                *)
LEMMA StaleStep ==
    ASSUME AccountsTypeOK, AccountsNamed, StaleInv, [AccountsNext]_accountsVars
    PROVE  StaleInv'
<1>1. /\ users \in [Ids -> User] /\ made \in Nat
      /\ \A s \in sessions : s.user \in Nat
      /\ IsFiniteSet(sessions) /\ \A s \in sessions : s.user <= made
  BY AccountsAssumption DEF AccountsTypeOK, StaleInv, Session, Ids
<1>2. ASSUME sessions' \subseteq sessions, made' = made
      PROVE  IsFiniteSet(sessions') /\ \A s \in sessions' : s.user <= made'
  BY <1>1, <1>2, FS_Subset
<1>3. ASSUME NEW h \in Requests, NEW i \in Ids, Serving(h)
      PROVE  StaleAt(i)'
  <2>1. CASE Starting(h)
    <3>1. /\ \A g \in Requests \ {h} : req'[g] = req[g]
          /\ req'[h].at # "session" /\ req[h].at = "idle"
          /\ UNCHANGED <<users, sessions, disturbed>>
      BY <2>1, StartTurn
    <3>2. QED BY <3>1, StaleQuiet
  <2>2. CASE Looking(h)
    <3>1. /\ \A g \in Requests \ {h} : req'[g] = req[g]
          /\ req'[h].at = "session" => req'[h].doc.email = users[req'[h].id].email
          /\ req[h].at # "endAll"
          /\ UNCHANGED <<users, sessions, disturbed>>
      BY <2>2, LookTurn
    <3>2. QED BY <3>1, StaleQuiet
  <2>3. CASE InsertUser(h) \/ WriteUser(h) \/ SaveSession(h) \/ EndAllSessions(h)
    BY <2>3, StaleNew, StaleWritten, StaleSaved, StaleEnded
  <2>4. CASE EndSessions(h)
    <3>1. /\ sessions' \subseteq sessions /\ req[h].at = "endSessions"
          /\ UNCHANGED <<users, disturbed>>
      BY <2>4 DEF EndSessions
    <3>2. /\ \A g \in Requests \ {h} : req'[g] = req[g]
          /\ req'[h].at \in {"purge", "dropUser"}
      BY <2>4, EndingTurn
    <3>3. QED BY <3>1, <3>2, StaleQuiet
  <2>5. CASE DropUser(h)
    <3>1. /\ UNCHANGED <<sessions, disturbed>> /\ req[h].at = "dropUser"
          /\ users'[i] = NoUser \/ users'[i] = users[i]
      BY <1>1, <2>5 DEF DropUser
    <3>2. /\ \A g \in Requests \ {h} : req'[g] = req[g]
          /\ req'[h].at = "idle"
      BY <2>5, EndingTurn
    <3>3. QED BY <3>1, <3>2, StaleQuiet
  <2>6. CASE Abandon(h)
    <3>1. /\ disturbed' = (disturbed \/ req[h].at = "endAll")
          /\ UNCHANGED <<users, sessions>>
      BY <2>6 DEF Abandon
    <3>2. /\ \A g \in Requests \ {h} : req'[g] = req[g]
          /\ req'[h].at = "idle"
      BY <2>6, EndingTurn
    <3>3. QED BY <3>1, <3>2, StaleQuiet
  <2>7. QED BY <1>3, <2>1, <2>2, <2>3, <2>4, <2>5, <2>6 DEF Serving
<1>4. ASSUME NEW h \in Requests, Serving(h)
      PROVE  IsFiniteSet(sessions') /\ \A s \in sessions' : s.user <= made'
  <2>1. CASE Starting(h) \/ Looking(h)
    <3>1. UNCHANGED <<made, sessions>>
      BY <2>1, StartTurn, LookTurn
    <3>2. QED BY <1>1, <3>1
  <2>2. CASE InsertUser(h)
    <3>1. sessions' = sessions /\ made' = made + 1
      BY <2>2, InsertTurn
    <3>2. QED BY <1>1, <3>1
  <2>3. CASE SaveSession(h)
    <3>1. sessions' = sessions \cup {Token(h)} /\ made' = made /\ req[h].at = "session"
      BY <2>3 DEF SaveSession
    <3>2. req[h].id \in 1..made
      BY <3>1 DEF AccountsNamed, NamedReq
    <3>3. Token(h).user <= made
      BY <1>1, <3>2 DEF Token
    <3>4. IsFiniteSet(sessions')
      BY <1>1, <3>1, FS_AddElement
    <3>5. QED BY <1>1, <3>1, <3>3, <3>4
  <2>4. CASE WriteUser(h) \/ EndAllSessions(h) \/ EndSessions(h) \/ DropUser(h) \/ Abandon(h)
    <3>1. sessions' \subseteq sessions /\ made' = made
      BY <2>4 DEF WriteUser, EndAllSessions, EndSessions, DropUser, Abandon
    <3>2. QED BY <1>2, <3>1
  <2>5. QED BY <1>4, <2>1, <2>2, <2>3, <2>4 DEF Serving
<1>5. CASE \E h \in Requests : Serving(h)
  BY <1>3, <1>4, <1>5 DEF StaleInv
<1>6. ASSUME NEW s \in sessions, EndSession(s), NEW i \in Ids
      PROVE  StaleAt(i)'
  <2>1. sessions' \subseteq sessions /\ UNCHANGED <<users, made, req, disturbed>>
    BY <1>6 DEF EndSession
  <2>2. Late(i)' \subseteq Late(i) /\ Missed(i)' \subseteq Missed(i)
    BY <2>1 DEF Late, Missed
  <2>3. StaleAt(i) /\ (EndingFor(i) => EndingFor(i)')
    BY <2>1 DEF StaleInv, EndingFor
  <2>4. QED BY <1>1, <2>1, <2>2, <2>3, StaleShrinks DEF StaleAt
<1>7. CASE \E s \in sessions : EndSession(s)
  <2>1. sessions' \subseteq sessions /\ made' = made
    BY <1>7 DEF EndSession
  <2>2. QED BY <1>2, <1>6, <1>7, <2>1 DEF StaleInv
<1>8. CASE UNCHANGED accountsVars
  BY <1>8 DEF accountsVars, StaleInv, StaleAt, EndingFor, Late, Missed
<1>9. CASE AccountsNext
  BY <1>5, <1>7, <1>9, AccountsSteps
<1>10. QED BY <1>8, <1>9

(* The first session carries the first account's address.                    *)
LEMMA StaleBegins ==
    ASSUME AccountsInit
    PROVE  StaleInv
<1>1. PICK e \in Emails :
         /\ users = [i \in Ids |-> IF i = 1 THEN [email |-> e, ident |-> FALSE] ELSE NoUser]
         /\ sessions = {[jti |-> 1, user |-> 1, email |-> e]}
  BY DEF AccountsInit
<1>2. 1 \in Ids /\ made = 1 /\ req = [h \in Requests |-> NoReq]
  BY AccountsAssumption DEF Ids, AccountsInit
<1>3. users[1].email = e
  BY <1>1, <1>2
<1>4. \A s \in sessions : s.user = 1 /\ s.email = e
  BY <1>1
<1>5. IsFiniteSet(sessions)
  BY <1>1, FS_Singleton
<1>6. \A h \in Requests : req[h].at = "idle"
  BY <1>2, NoReqFields
<1>7. Cardinality(Requests) \in Nat /\ Cardinality(Requests) # 0 /\ Cardinality({}) = 0
  BY AccountsAssumption, FS_CardinalityType, FS_EmptySet
<1>8. ASSUME NEW i \in Ids
      PROVE  StaleAt(i)
  <2>1. Late(i) = {}
    BY <1>3, <1>4 DEF Late
  <2>2. Missed(i) = {}
    BY <1>6 DEF Missed
  <2>3. QED BY <1>7, <2>1, <2>2 DEF StaleAt
<1>9. QED BY <1>2, <1>4, <1>5, <1>8 DEF StaleInv

(* However the requests interleave, the sessions of an account that still      *)
(* carry an old address stay fewer than the requests, unless an address        *)
(* changed some other way or its owner's change has them still to end.       *)
THEOREM StaleSessionsBoundedHolds == AccountsSpec => []StaleSessionsBounded
<1>1. AccountsTypeOK /\ AccountsNamed /\ StaleInv => StaleSessionsBounded
  <2>1. SUFFICES ASSUME StaleInv, NEW i \in Ids
                 PROVE  \/ disturbed
                        \/ \E h \in Requests : req[h].at = "endAll" /\ req[h].sub = i
                        \/ Cardinality(Late(i)) < Cardinality(Requests)
    BY DEF StaleSessionsBounded
  <2>2. /\ Cardinality(Late(i)) \in Nat /\ Cardinality(Missed(i)) \in Nat
        /\ Cardinality(Requests) \in Nat
    BY <2>1, StaleSizes DEF StaleInv
  <2>3. CASE disturbed \/ EndingFor(i)
    BY <2>3 DEF EndingFor
  <2>4. CASE Cardinality(Late(i)) + Cardinality(Missed(i)) < Cardinality(Requests)
    BY <2>2, <2>4
  <2>5. QED BY <2>1, <2>3, <2>4 DEF StaleInv, StaleAt
<1>2. AccountsTypeOK /\ AccountsNamed /\ StaleInv /\ [AccountsNext]_accountsVars
         => (AccountsTypeOK /\ AccountsNamed /\ StaleInv)'
  BY AccountsTyped, StaleStep
<1>3. AccountsInit => AccountsTypeOK /\ AccountsNamed /\ StaleInv
  BY AccountsBegin, StaleBegins
<1>4. QED BY <1>1, <1>2, <1>3, PTL DEF AccountsSpec

-----------------------------------------------------------------------------
(* The composition that TLC runs.                                            *)

(* A behaviour of the run is one of each component, which moves or stands      *)
(* still.                                                                    *)
THEOREM PartsFollowed == Spec => AccountsSpec /\ CodesSpec /\ LockoutSpec
<1>1. Init => AccountsInit /\ CodesInit /\ LockoutInit
  BY DEF Init
<1>2. [Next]_<<accountsVars, codesVars, lockoutVars, part>>
         => /\ [AccountsNext]_accountsVars /\ [CodesNext]_codesVars /\ [LockoutNext]_lockoutVars
  BY DEF Next
<1>3. QED BY <1>1, <1>2, PTL DEF Spec, AccountsSpec, CodesSpec, LockoutSpec

(* TypeOK holds in every reachable state of the three.                       *)
THEOREM TypeCorrect == Spec => []TypeOK
<1>1. AccountsTypeOK /\ CodesTypeOK /\ LockoutInv => TypeOK
  BY DEF TypeOK, LockoutInv
<1>2. QED BY <1>1, PartsFollowed, AccountsTypeCorrect, CodesTypeCorrect, LockoutInvariance, PTL
===============================================================================
