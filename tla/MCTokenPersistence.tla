------------------------- MODULE MCTokenPersistence -------------------------
(***************************************************************************)
(* Values for the constants of TokenPersistence: columns whose baselines   *)
(* are too low and two others; a place with and one without a pool.        *)
(***************************************************************************)
EXTENDS TokenPersistence, TLC

CONSTANTS low, c1, c2, open, set, a1, a2

MCValues == [saved : Columns, place : Places]
MCLifted == [c \in Columns |-> IF c = low THEN c1 ELSE c]
=============================================================================
