------------------------------- MODULE MCSignIn -------------------------------
(* Small instances of UserAccounts, OneTimeCodes and LoginLockout for TLC.     *)
(* They touch where an account is found, and where a code resets a password:  *)
(* each has its own part of that.  A behaviour follows one of the three, and  *)
(* the others stay as they began.                                            *)
EXTENDS UserAccounts, OneTimeCodes, LoginLockout, TLC

VARIABLE part    \* the one the behaviour follows

Init ==
    /\ AccountsInit /\ CodesInit /\ LockoutInit
    /\ part \in {"accounts", "codes", "lockout"}
    /\ part # "codes" => followed = 1

Next ==
    \/ part = "accounts" /\ AccountsNext /\ UNCHANGED <<codesVars, lockoutVars, part>>
    \/ part = "codes" /\ CodesNext /\ UNCHANGED <<accountsVars, lockoutVars, part>>
    \/ part = "lockout" /\ LockoutNext /\ UNCHANGED <<accountsVars, codesVars, part>>

Spec == Init /\ [][Next]_<<accountsVars, codesVars, lockoutVars, part>>

TypeOK == AccountsTypeOK /\ CodesTypeOK /\ LockoutTypeOK

(* No action tells one request from another, or one address; the three share  *)
(* the names of their requests.                                              *)
Symmetry == Permutations(Requests \cup Askers \cup Callers) \cup Permutations(Emails)
===============================================================================
