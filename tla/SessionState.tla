------------------------------ MODULE SessionState ------------------------------
(***************************************************************************)
(* loadState and saveState of src/directives.ts at the grain of their      *)
(* awaits. Every session has a state file; all of them share the global    *)
(* one, which a session without a file starts from and every save writes   *)
(* first. No lock protects it: calls of different sessions come between    *)
(* any two steps. The host runs the calls of one session one after the     *)
(* other (external). A call without a session ID knows the global file     *)
(* only.                                                                   *)
(***************************************************************************)
EXTENDS SessionRules, JsonFile, Naturals

CONSTANTS
  Faults,         \* TRUE: a call may be cut off, or a write of it fail
  MaxCalls        \* bound: calls made in a behaviour

ASSUME CallAssumption == Faults \in BOOLEAN /\ MaxCalls \in Nat

VARIABLES
  global,         \* the global state file
  file,           \* file[s]: the state file of session s
  pc,             \* pc[c]: where the call of c is
  partial,        \* partial[c]: what c's call is to save
  mine,           \* mine[c]: the state c's call has put together
  calls,          \* calls made so far
  published,      \* history: the states a reader may have found in global
  held            \* history: held[s], what file[s] held when s's call opened it

stateVars == <<global, file, pc, partial, mine, calls, published, held>>

Phases == {"idle", "loading", "merging", "saving", "opened", "shared", "reopened", "answered"}
Goto(c, from, to) == pc[c] = from /\ pc' = [pc EXCEPT ![c] = to]

Init ==
  /\ global = Emptied(DefaultState)
  /\ file = [s \in Sessions |-> Emptied(NoState)]
  /\ pc = [c \in Callers |-> "idle"]
  /\ partial = [c \in Callers |-> NoState]
  /\ mine = [c \in Callers |-> NoState]
  /\ calls = 0
  /\ published = {DefaultState}
  /\ held = [s \in Sessions |-> NoState]

(* recordDirectives, saveState or loadState is called. The loadState with  *)
(* which recordDirectives starts decides nothing when there is something   *)
(* to save, because saveState loads again; when there is nothing it is the *)
(* call's answer.                                                          *)
Ask(c, u) ==
  /\ calls < MaxCalls
  /\ Goto(c, "idle", "loading")
  /\ partial' = [partial EXCEPT ![c] = u]
  /\ calls' = calls + 1
  /\ UNCHANGED <<global, file, mine, published, held>>

(* loadGlobalState                                                         *)
ReadGlobal(c) ==
  /\ Goto(c, "loading", "merging")
  /\ mine' = [mine EXCEPT ![c] = Overlay(DefaultState, ReadJson(global, DefaultState))]
  /\ UNCHANGED <<global, file, partial, calls, published, held>>

(* What the session's own file adds, if the call has a session.            *)
Found(c) == IF c \in Sessions THEN ReadJson(file[c], NoState) ELSE NoState

\* A variant with a bug: the global state is laid over the session's.
MergeSwapped(c) ==
  LET current == IF Found(c) = NoState THEN mine[c] ELSE Overlay(Found(c), mine[c])
  IN  /\ Goto(c, "merging", IF partial[c] = NoState THEN "answered" ELSE "saving")
      /\ mine' = [mine EXCEPT ![c] =
           IF partial[c] = NoState THEN current ELSE Merged(current, partial[c])]
      /\ UNCHANGED <<global, file, partial, calls, published, held>>

(* The rest of loadState and, in a call that saves, the next state.        *)
Merge(c) ==
  LET current == Overlay(mine[c], Found(c))
  IN  /\ Goto(c, "merging", IF partial[c] = NoState THEN "answered" ELSE "saving")
      /\ mine' = [mine EXCEPT ![c] =
           IF partial[c] = NoState THEN current ELSE Merged(current, partial[c])]
      /\ UNCHANGED <<global, file, partial, calls, published, held>>

(* saveState writes the global file, and then the file of the session.     *)
OpenGlobal(c) ==
  /\ Goto(c, "saving", "opened")
  /\ global' = Emptied(DefaultState)
  /\ UNCHANGED <<file, partial, mine, calls, published, held>>

WriteGlobal(c) ==
  /\ Goto(c, "opened", IF c \in Sessions THEN "shared" ELSE "answered")
  /\ global' \in AfterWrite(global, mine[c], DefaultState)
  /\ published' = published \union {mine[c]}
  /\ UNCHANGED <<file, partial, mine, calls, held>>

OpenFile(c) ==
  /\ Goto(c, "shared", "reopened")
  /\ held' = [held EXCEPT ![c] = ReadJson(file[c], NoState)]
  /\ file' = [file EXCEPT ![c] = Emptied(NoState)]
  /\ UNCHANGED <<global, partial, mine, calls, published>>

WriteFile(c) ==
  /\ Goto(c, "reopened", "answered")
  /\ \E f \in AfterWrite(file[c], mine[c], NoState) : file' = [file EXCEPT ![c] = f]
  /\ held' = [held EXCEPT ![c] = NoState]
  /\ UNCHANGED <<global, partial, mine, calls, published>>

Forget(c) ==
  /\ pc' = [pc EXCEPT ![c] = "idle"]
  /\ partial' = [partial EXCEPT ![c] = NoState]
  /\ mine' = [mine EXCEPT ![c] = NoState]

(* The host has the state the call returned.                               *)
Return(c) ==
  /\ pc[c] = "answered"
  /\ Forget(c)
  /\ UNCHANGED <<global, file, calls, published, held>>

(* The process ends, or a write fails: what was opened stays empty.        *)
CutOff(c) ==
  /\ Faults
  /\ pc[c] \in Phases \ {"idle", "answered"}
  /\ Forget(c)
  /\ held' = [s \in Sessions |-> IF s = c THEN NoState ELSE held[s]]
  /\ UNCHANGED <<global, file, calls, published>>

Advance(c) ==
  \/ ReadGlobal(c) \/ Merge(c) \/ OpenGlobal(c) \/ WriteGlobal(c)
  \/ OpenFile(c) \/ WriteFile(c)

Next == \E c \in Callers :
  \/ \E u \in Requests : Ask(c, u)
  \/ Advance(c) \/ Return(c) \/ CutOff(c)

Spec == Init /\ [][Next]_stateVars
-----------------------------------------------------------------------------
TypeOK ==
  /\ global \in JsonFiles(States)
  /\ file \in [Sessions -> JsonFiles(States \union {NoState})]
  /\ pc \in [Callers -> Phases]
  /\ partial \in [Callers -> Requests \union {NoState}]
  /\ mine \in [Callers -> States \union {NoState}]
  /\ calls \in Nat
  /\ published \subseteq States
  /\ held \in [Sessions -> States \union {NoState}]

(* The register of a session is what its file holds or, while its own call *)
(* has the file open, what the file held.                                  *)
Register ==
  [s \in Sessions |-> IF pc[s] = "reopened" THEN held[s] ELSE ReadJson(file[s], NoState)]
Status ==
  [c \in Callers |-> CASE pc[c] = "idle" -> "idle"
                       [] pc[c] = "answered" -> "answered"
                       [] OTHER -> "waiting"]
Reply == [c \in Callers |-> IF pc[c] = "answered" THEN mine[c] ELSE NoState]

Abstract == INSTANCE SessionRegister WITH
  register <- Register, shared <- published, status <- Status,
  request <- partial, reply <- Reply

(* "global + per-session overlay" (src/directives.ts:1): whatever other    *)
(* sessions save meanwhile and wherever calls are cut off, a session reads *)
(* and changes its own state, and its saves take effect in one step.       *)
RefinesRegister == Abstract!Spec
=============================================================================
