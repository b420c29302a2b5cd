--------------------------- MODULE PlacementCycle ---------------------------
(***************************************************************************)
(* What one market's execution promises: in one life of the strategy there *)
(* is at most one placement; shares are bought only while it works, and    *)
(* never more than were planned; what was bought stays when it has ended.  *)
(* Only a strategy that is not alive is made new.                          *)
(***************************************************************************)
EXTENDS Integers

CONSTANT MaxPlanned     \* the most shares one placement may plan

VARIABLES live, stage, bought, planned

Init == live = FALSE /\ stage = "waiting" /\ bought = 0 /\ planned = 0

Toggle == live' = ~live /\ UNCHANGED <<stage, bought, planned>>

Place ==
    /\ live /\ stage = "waiting"
    /\ stage' \in {"working", "ended"}
    /\ planned' \in 1 .. MaxPlanned
    /\ UNCHANGED <<live, bought>>

Buy ==
    /\ live /\ stage = "working"
    /\ bought' \in bought + 1 .. planned
    /\ stage' = IF bought' = planned THEN "ended" ELSE "working"
    /\ UNCHANGED <<live, planned>>

End == live /\ stage = "working" /\ stage' = "ended" /\ UNCHANGED <<live, bought, planned>>

Renew ==
    /\ ~live
    /\ stage' = "waiting" /\ bought' = 0 /\ planned' = 0
    /\ UNCHANGED live

Next == Toggle \/ Place \/ Buy \/ End \/ Renew

Spec == Init /\ [][Next]_<<live, stage, bought, planned>>
=============================================================================
