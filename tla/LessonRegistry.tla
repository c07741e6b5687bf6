---------------------------- MODULE LessonRegistry ----------------------------
(***************************************************************************)
(* What update_lesson and delete_lesson promise their callers: a call is   *)
(* answered once; it changes its row, or it is refused and changes nothing.*)
(* Both happen in the same step, on the row as it is then. Only where the  *)
(* acknowledgement of a change may be lost is a change answered "refused". *)
(***************************************************************************)
EXTENDS Lessons

VARIABLES
  rows,           \* the committed rows
  call,           \* call[c]: what c last asked for
  outcome         \* outcome[c]: "idle", "waiting", "ok" or "refused"

registryVars == <<rows, call, outcome>>

Init ==
  /\ rows = Initial
  /\ call = [c \in Callers |-> NoCall]
  /\ outcome = [c \in Callers |-> "idle"]

Ask(c, r) ==
  /\ outcome[c] = "idle"
  /\ outcome' = [outcome EXCEPT ![c] = "waiting"]
  /\ call' = [call EXCEPT ![c] = r]
  /\ UNCHANGED rows

Serve(c) ==
  LET r == call[c]
  IN  /\ outcome[c] = "waiting"
      /\ WellFormed(r) /\ Confirms(rows[Key(r)], r)
      /\ rows' = [rows EXCEPT ![Key(r)] = Left(rows[Key(r)], r)]
      /\ \E answer \in {"ok"} \union (IF LoseAck THEN {"refused"} ELSE {}) :
           outcome' = [outcome EXCEPT ![c] = answer]
      /\ UNCHANGED call

Refuse(c) ==
  LET r == call[c]
  IN  /\ outcome[c] = "waiting"
      /\ MayFail \/ ~WellFormed(r) \/ ~Confirms(rows[Key(r)], r)
      /\ outcome' = [outcome EXCEPT ![c] = "refused"]
      /\ UNCHANGED <<rows, call>>

Return(c) ==
  /\ outcome[c] \in {"ok", "refused"}
  /\ outcome' = [outcome EXCEPT ![c] = "idle"]
  /\ UNCHANGED <<rows, call>>

Next == \E c \in Callers :
  \/ \E r \in Requests : Ask(c, r)
  \/ Serve(c) \/ Refuse(c) \/ Return(c)

Spec == Init /\ [][Next]_registryVars
=============================================================================
