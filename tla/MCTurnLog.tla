------------------------------- MODULE MCTurnLog -------------------------------
(***************************************************************************)
(* Instances of TurnLog for TLC: two sessions of one spirit, around a      *)
(* midnight, with a live context of two turns and a window of one.         *)
(***************************************************************************)
EXTENDS TurnLog, TLC

CONSTANTS s1, s2
MCSymmetry == Permutations({s1, s2})
=============================================================================
