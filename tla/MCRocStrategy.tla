--------------------------- MODULE MCRocStrategy ---------------------------
(* Instances of RocStrategy for TLC. *)
EXTENDS RocStrategyProps

CONSTANTS t1, t2

MCThread == {t1, t2}
MCProfit == {-2, 0}
MCLoss == {-2}
MCFlat == {0}
=============================================================================
