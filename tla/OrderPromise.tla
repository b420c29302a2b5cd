---------------------------- MODULE OrderPromise ----------------------------
(***************************************************************************)
(* What the execution service promises about its durable record of orders, *)
(* whatever the venue, the network, the user channel and crashes do: an    *)
(* order is decided once, is either refused or handed to the venue, stays  *)
(* in doubt until it is settled, and never moves again once it is refused  *)
(* or closed.  After the kill switch no decided order reaches the venue.   *)
(***************************************************************************)
CONSTANT Orders

VARIABLES phase, stopped

Phases == {"new", "decided", "refused", "working", "doubtful", "closed"}

Init == phase = [o \in Orders |-> "new"] /\ stopped = FALSE

Move(o, from, to) ==
    /\ phase[o] \in from
    /\ phase' \in {[phase EXCEPT ![o] = p] : p \in to}
    /\ UNCHANGED stopped

Decide(o) == Move(o, {"new"}, {"decided"})
Refuse(o) == Move(o, {"decided"}, {"refused"})
HandOver(o) == ~stopped /\ Move(o, {"decided"}, {"working", "doubtful"})
Doubt(o) == Move(o, {"working"}, {"doubtful"})
Settle(o) == Move(o, {"doubtful"}, {"working", "refused", "closed"})
Close(o) == Move(o, {"working"}, {"closed"})
Stop == ~stopped /\ stopped' = TRUE /\ UNCHANGED phase

Next ==
    \/ \E o \in Orders :
         Decide(o) \/ Refuse(o) \/ HandOver(o) \/ Doubt(o) \/ Settle(o) \/ Close(o)
    \/ Stop

Spec == Init /\ [][Next]_<<phase, stopped>>
=============================================================================
