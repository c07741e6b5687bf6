---------------------------- MODULE SessionRegister ----------------------------
(***************************************************************************)
(* What the state files of src/directives.ts promise: each session has a   *)
(* register. A call that saves changes the register of its own session     *)
(* only, from the state the register had; where the register was empty it  *)
(* starts from a state that has been shared. Every saved state is shared   *)
(* before it is the session's. A register is lost only by a call of its    *)
(* session that fails.                                                     *)
(***************************************************************************)
EXTENDS SessionRules

VARIABLES
  register,       \* register[s]: the state of session s, or NoState
  shared,         \* the states the global file has offered
  status,         \* status[c]: "idle", "waiting" or "answered"
  request,        \* request[c]: the partial state c's call saves
  reply           \* reply[c]: the state c's call returned

registerVars == <<register, shared, status, request, reply>>

(* What a call may start from.                                             *)
Starting(c) ==
  IF c \in Sessions /\ register[c] # NoState THEN {register[c]} ELSE shared

Becomes(c, from, to) == status[c] = from /\ status' = [status EXCEPT ![c] = to]

Init ==
  /\ register = [s \in Sessions |-> NoState]
  /\ shared = {DefaultState}
  /\ status = [c \in Callers |-> "idle"]
  /\ request = [c \in Callers |-> NoState]
  /\ reply = [c \in Callers |-> NoState]

Ask(c, u) ==
  /\ Becomes(c, "idle", "waiting")
  /\ request' = [request EXCEPT ![c] = u]
  /\ UNCHANGED <<register, shared, reply>>

Load(c) ==
  /\ Becomes(c, "waiting", "answered") /\ request[c] = NoState
  /\ \E st \in Starting(c) : reply' = [reply EXCEPT ![c] = st]
  /\ UNCHANGED <<register, shared, request>>

Share(c) ==
  /\ c \in Sessions /\ status[c] = "waiting" /\ request[c] # NoState
  /\ \E st \in Starting(c) : shared' = shared \union {Merged(st, request[c])}
  /\ UNCHANGED <<register, status, request, reply>>

(* Without a session sharing is all there is to a save.                    *)
Save(c) ==
  /\ Becomes(c, "waiting", "answered") /\ request[c] # NoState
  /\ \E st \in Starting(c) :
       LET next == Merged(st, request[c])
       IN  /\ IF c \in Sessions THEN next \in shared /\ UNCHANGED shared
                                ELSE shared' = shared \union {next}
           /\ reply' = [reply EXCEPT ![c] = next]
           /\ register' = [s \in Sessions |-> IF s = c THEN next ELSE register[s]]
  /\ UNCHANGED request

(* A call that saves and fails may take the state of its session with it.  *)
Fail(c) ==
  /\ Becomes(c, "waiting", "idle")
  /\ \/ UNCHANGED register
     \/ /\ request[c] # NoState
        /\ register' = [s \in Sessions |-> IF s = c THEN NoState ELSE register[s]]
  /\ request' = [request EXCEPT ![c] = NoState]
  /\ UNCHANGED <<shared, reply>>

Return(c) ==
  /\ Becomes(c, "answered", "idle")
  /\ request' = [request EXCEPT ![c] = NoState]
  /\ reply' = [reply EXCEPT ![c] = NoState]
  /\ UNCHANGED <<register, shared>>

Next == \E c \in Callers :
  \/ \E u \in Requests : Ask(c, u)
  \/ Load(c) \/ Share(c) \/ Save(c) \/ Fail(c) \/ Return(c)

Spec == Init /\ [][Next]_registerVars
=============================================================================
