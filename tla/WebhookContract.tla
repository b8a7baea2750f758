--------------------------- MODULE WebhookContract ---------------------------
(***************************************************************************)
(* What the webhook queue promises a subscriber about each delivery, with   *)
(* no workers, leases, attempts or faults in sight: a queued delivery stays *)
(* open until it is delivered, given up or aged out; it is delivered only   *)
(* after the receiver accepted it since it was last queued; and what is     *)
(* finished stays finished until the user asks for a redelivery.            *)
(***************************************************************************)
CONSTANT Delivery

VARIABLES
    view,      \* what the delivery log shows of each delivery
    accepted   \* deliveries the receiver accepted since they were last queued

vars == <<view, accepted>>

View == {"absent", "open", "delivered", "dead", "expired"}

Init ==
    /\ view = [d \in Delivery |-> "absent"]
    /\ accepted = {}

Queue(d) ==
    /\ view[d] = "absent"
    /\ view' = [view EXCEPT ![d] = "open"]
    /\ UNCHANGED accepted

(* A delivery already on its way may be accepted after its row aged out. *)
Accept(d) ==
    /\ view[d] \in {"open", "expired"}
    /\ accepted' = accepted \cup {d}
    /\ UNCHANGED view

Deliver(d) ==
    /\ view[d] = "open"
    /\ d \in accepted
    /\ view' = [view EXCEPT ![d] = "delivered"]
    /\ UNCHANGED accepted

GiveUp(d) ==
    /\ view[d] = "open"
    /\ view' = [view EXCEPT ![d] = "dead"]
    /\ UNCHANGED accepted

Redeliver(d) ==
    /\ view[d] \in {"delivered", "dead"}
    /\ view' = [view EXCEPT ![d] = "open"]
    /\ accepted' = accepted \ {d}

AgeOut(d) ==
    /\ view[d] \in {"open", "delivered", "dead"}
    /\ view' = [view EXCEPT ![d] = "expired"]
    /\ UNCHANGED accepted

Next ==
    \E d \in Delivery :
        Queue(d) \/ Accept(d) \/ Deliver(d) \/ GiveUp(d) \/ Redeliver(d) \/ AgeOut(d)

Spec == Init /\ [][Next]_vars
==============================================================================
