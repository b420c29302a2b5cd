---------------------------- MODULE EvidenceLog ----------------------------
(* What a collector promises about the events it has accepted: it holds    *)
(* each one until it is kept for good, several at a time, and forgets one  *)
(* only by going down.                                                     *)
CONSTANT Events

VARIABLES up, held, kept
vars == <<up, held, kept>>

Init == up = TRUE /\ held = {} /\ kept = {}

Accept(e) ==
    /\ up /\ e \notin held \cup kept
    /\ held' = held \cup {e}
    /\ UNCHANGED <<up, kept>>

Keep(batch) ==
    /\ up /\ batch \subseteq held
    /\ held' = held \ batch
    /\ kept' = kept \cup batch
    /\ UNCHANGED up

GoDown ==
    /\ up /\ up' = FALSE
    /\ held' = {}
    /\ UNCHANGED kept

ComeUp ==
    /\ ~up /\ up' = TRUE
    /\ UNCHANGED <<held, kept>>

Next ==
    \/ \E e \in Events : Accept(e)
    \/ \E batch \in SUBSET held : Keep(batch)
    \/ GoDown \/ ComeUp

Spec == Init /\ [][Next]_vars
=============================================================================
