-------------------------------- MODULE MCTx --------------------------------
(* Small instances of TxExecution for TLC: one session key and one wallet,   *)
(* shared by every request and task, which is where executions interfere.    *)
(* What is at stake in a behaviour is an idempotency key, a cap or the tasks *)
(* of the scheduler: PartSpec follows one of them and leaves out the actions *)
(* that only multiply its states.                                            *)
EXTENDS TxExecution, TLC

CONSTANTS key, wallet, lone    \* lone: the task there is beside a request

OneKeyOf == [x \in Bodies \cup Tasks |-> key]
OneWalletOf == [k \in SessionKeys |-> wallet]

VARIABLE part    \* what is at stake

PartInit ==
    /\ Init
    /\ part \in {"keys", "cap", "tasks"}
    /\ \A w \in Wallets : part = "keys" => cap[w] = None
    /\ \A w \in Wallets : part = "cap" => cap[w] # None

(* Requests under one key, without tasks and without a policy. *)
Keys == UNCHANGED <<status, due, cap>>

(* Requests without a key, all with one body, and one task, on a wallet that *)
(* keeps a cap; no session key is revoked and no task paused meanwhile.       *)
Cap == /\ idem' = idem
       /\ \A w \in Wallets : cap'[w] # None
       /\ \A k \in SessionKeys : keys'[k] # "over"
       /\ \A t \in Tasks : status'[t] = "absent" \/ (t = lone /\ status'[t] = "active")
       /\ \A g, h \in Handlers : run'[g].tpl = run'[h].tpl \/ None \in {run'[g].tpl, run'[h].tpl}

(* The scheduler alone, with a task of each kind. *)
Tick == /\ idem' = idem
        /\ \A h \in Handlers : run'[h].at = "idle"

PartNext ==
    /\ Next
    /\ part = "keys" => Keys
    /\ part = "cap" => Cap
    /\ part = "tasks" => Tick
    /\ UNCHANGED part

PartSpec == PartInit /\ [][PartNext]_<<vars, part>>

HandlerSymmetry == Permutations(Handlers)
Symmetry == HandlerSymmetry \cup Permutations(Bodies)
==============================================================================
