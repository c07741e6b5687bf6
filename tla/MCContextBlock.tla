---------------------------- MODULE MCContextBlock ----------------------------
(***************************************************************************)
(* Instances of ContextBlock for TLC, with the limits of the code: a whole *)
(* file is longer than the budget and is clipped, two of them leave little *)
(* room, the excerpts of rows (800 characters of a dated memory, a chunk,  *)
(* a range of lines) fit, and one canon entry has a summary that is larger *)
(* than the budget. Two clipped files and a content chunk fill it exactly. *)
(***************************************************************************)
EXTENDS ContextBlock

CONSTANTS f1, f2, oath, saga

MCPointsTo == [t \in Terms |-> IF t = oath THEN <<Source("lines", f1, 1)>> ELSE <<>>]
MCLengthOf ==
  [s \in Sources |->
     CASE s.kind = "file" -> 9000
       [] s.kind = "date" -> 800
       [] s.kind = "term" -> IF s.of = saga THEN 9000 ELSE 1200
       [] s.kind = "lines" -> 1500
       [] s.kind = "content" -> 1014
       [] OTHER -> 1200]
=============================================================================
