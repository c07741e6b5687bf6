---------------------------- MODULE MCLessonStore ----------------------------
(***************************************************************************)
(* Instances of LessonStore for TLC: two or three callers meet on one row  *)
(* of each table, with two titles and two values of the other columns.     *)
(***************************************************************************)
EXTENDS LessonStore, TLC

CONSTANTS c1, c2, c3, a, b

MCKinds == {"coding-lesson", "project-lesson"}
MCIds == 0 .. 1
MCColumns == {"title", "lesson", "negation_of"}
MCAllowed == "coding-lesson" :> MCColumns @@ "project-lesson" :> {"title", "lesson"}
\* b is a value negation_of may not have, and the empty title is none of these.
MCLegal == "title" :> {a, b} @@ "lesson" :> {a, b} @@ "negation_of" :> {a}

MCRow == [col \in MCColumns |-> a]
MCInitial == [k \in MCKinds \X MCIds |-> IF k[2] = 1 THEN MCRow ELSE NoRow]

Call(op, kind, id, expected, patch) ==
  [op |-> op, kind |-> kind, id |-> id, expected |-> expected, patch |-> patch]
Nothing == [col \in {} |-> a]

MCRequests ==
  LET coding == "coding-lesson"
  IN  { Call("update", coding, 1, a, "title" :> b),
        Call("update", coding, 1, b, "title" :> a @@ "negation_of" :> a),
        Call("update", coding, 1, a, "lesson" :> b),
        Call("update", coding, 1, b, Nothing),
        Call("update", "project-lesson", 1, a, "negation_of" :> a),
        Call("delete", coding, 1, a, Nothing),
        Call("delete", coding, 1, b, Nothing),
        Call("delete", coding, 0, a, Nothing),
        Call("delete", "lesson", 1, a, Nothing) }

MCSymmetry == Permutations(Callers)
=============================================================================
