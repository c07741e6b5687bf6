------------------------------ MODULE SessionRules ------------------------------
(***************************************************************************)
(* The state a session keeps about its operator and its spirit             *)
(* (defaultState in src/directives.ts), what a user message changes in it, *)
(* and how partial states are laid over one another.                       *)
(* Names and values are model values; agentName, version and the time      *)
(* stamps are left out, since no rule below looks at them.                 *)
(***************************************************************************)
CONSTANTS
  Sessions,       \* sessions that have an ID, and so a file of their own
  Operators,      \* names an "Operator:" line may give
  Spirits,        \* names safeIdentityName accepts
  Unsafe,         \* names it refuses: with a slash, ".", ".."
  DefaultSpirit,  \* DEFAULT_SPIRIT
  Nobody,         \* null
  Requests        \* the partial states a call may save; the empty one only loads

Nameless == "no session"
Callers == Sessions \union {Nameless}

Fields == {"operator", "embodied", "ignored"}
Values == Operators \union Spirits \union Unsafe \union {Nobody}
States == {st \in [Fields -> Values] : st["embodied"] \in Spirits}
Partials == UNION {[F -> Values] : F \in SUBSET Fields}
NoState == [f \in {} |-> Nobody]

ASSUME RulesAssumption ==
  /\ Nameless \notin Sessions
  /\ DefaultSpirit \in Spirits
  /\ Requests \subseteq Partials

DefaultState ==
  [f \in Fields |-> IF f = "embodied" THEN DefaultSpirit ELSE Nobody]

(* { ...base, ...part }                                                    *)
Overlay(base, part) == [f \in Fields |-> IF f \in DOMAIN part THEN part[f] ELSE base[f]]

(* normalizeSpirit, with the default for a name it refuses.                *)
Normalized(st) ==
  [st EXCEPT !["embodied"] = IF st["embodied"] \in Spirits THEN @ ELSE DefaultSpirit]

Merged(st, part) == Normalized(Overlay(st, part))

(* recordDirectives: what the Operator, EMBODY and DISMISS lines of a      *)
(* message change. A name that is refused is kept as ignored; a name that  *)
(* is accepted, or a DISMISS, clears what was ignored.                     *)
Updates(d) ==
  LET fields == {"operator" : x \in {d.operator} \ {Nobody}}
                \union {"embodied" : x \in {d.embody} \intersect Spirits}
                \union {"ignored" : x \in IF d.dismiss THEN {d} ELSE {d.embody} \ {Nobody}}
  IN  [f \in fields |->
        CASE f = "operator" -> d.operator
          [] f = "embodied" -> d.embody
          [] f = "ignored" -> IF d.embody \in Unsafe THEN d.embody ELSE Nobody]
=============================================================================
