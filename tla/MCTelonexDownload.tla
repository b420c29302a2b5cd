------------------------- MODULE MCTelonexDownload -------------------------
(* Two days that share a part file.                                        *)
EXTENDS TelonexDownload

CONSTANTS d1, d2, m1

MCMonths == {m1}
MCDays == {d1, d2}
MCMonth == [d \in MCDays |-> m1]
=============================================================================
