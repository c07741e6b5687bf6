---------------------------- MODULE MCSourceLanes ----------------------------
(***************************************************************************)
(* Instances of SourceLanes for TLC: the lexical source and two lanes.     *)
(***************************************************************************)
EXTENDS SourceLanes

MCLanes == {"content", "date"}
MCRuns == MCLanes \union {Lexical}
=============================================================================
