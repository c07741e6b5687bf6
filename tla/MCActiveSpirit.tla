---------------------------- MODULE MCActiveSpirit ----------------------------
(***************************************************************************)
(* Two sessions in two rooms and calls without a session; one contract is  *)
(* written and edited meanwhile. The requests: nothing to save; an         *)
(* operator and a spirit that is refused; a spirit that is accepted; and,  *)
(* from a caller of saveState, a spirit that is not normalized.            *)
(***************************************************************************)
EXTENDS ActiveSpirit, TLC

CONSTANTS s1, s2, operator, default, muse, slash, nobody, kodo, kintsu, noRoom

MCRoomOf == s1 :> kodo @@ s2 :> kintsu @@ Nameless :> noRoom

Directives(o, e, d) == [operator |-> o, embody |-> e, dismiss |-> d]
MCRequests ==
  { NoState,
    Updates(Directives(operator, slash, FALSE)),
    Updates(Directives(nobody, muse, TRUE)),
    [f \in {"embodied"} |-> slash] }
=============================================================================
