------------------------- MODULE MCOpeningStrategy -------------------------
(***************************************************************************)
(* OpeningStrategy for TLC.                                                *)
(***************************************************************************)
EXTENDS OpeningStrategy

CONSTANTS up, down

OneSide == {up}
BothSides == {up, down}

OneLayer == <<2>>
TwoLayers == <<2, 1>>

Fresh == {0}
FreshOrLate == {0, 9}
=============================================================================
