------------------------------- MODULE MCEdges --------------------------------
(* Small instances of RequestHistory, BridgeOrders and ApiKeyGate for TLC.    *)
(* No call or document is common to the three, so a behaviour follows one of *)
(* them and the others stay as they began.                                   *)
EXTENDS RequestHistory, BridgeOrders, ApiKeyGate, TLC

VARIABLE part    \* the one the behaviour follows

Init ==
    /\ HistoryInit /\ BridgeInit /\ GateInit
    /\ part \in {"history", "bridge", "gate"}
    /\ part # "gate" => window = 0 /\ followed = CHOOSE k \in Keys : TRUE

Next ==
    \/ part = "history" /\ HistoryNext /\ UNCHANGED <<bridgeVars, gateVars, part>>
    \/ part = "bridge" /\ BridgeNext /\ UNCHANGED <<historyVars, gateVars, part>>
    \/ part = "gate" /\ GateNext /\ UNCHANGED <<historyVars, bridgeVars, part>>

Spec == Init /\ [][Next]_<<historyVars, bridgeVars, gateVars, part>>

TypeOK == HistoryTypeOK /\ BridgeTypeOK /\ GateTypeOK

(* No action tells one request from another; the three share their names. *)
Symmetry == Permutations(Recorders \cup Traders \cup Clients)
===============================================================================
