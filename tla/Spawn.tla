--------------------------------- MODULE Spawn ---------------------------------
(***************************************************************************)
(* runWsl (src/wsl.ts): a child process, a kill timer and a promise that   *)
(* the first of three callbacks settles. The child and the pipe are        *)
(* external: what it writes arrives in pieces, later, and 'close' is       *)
(* emitted once it is gone and its pipes are read to the end.              *)
(***************************************************************************)
EXTENDS Naturals

CONSTANTS
  Runs,           \* calls of runWsl
  Pieces,         \* bound: pieces the child's whole answer arrives in
  SpawnMayThrow,  \* TRUE: spawn may throw (an argument list the system refuses)
  SpawnMayFail    \* TRUE: the program may be missing

ASSUME SpawnAssumption ==
  /\ Pieces \in Nat /\ SpawnMayThrow \in BOOLEAN /\ SpawnMayFail \in BOOLEAN

VARIABLES
  promise,        \* promise[r]: "none", "pending", "resolved" or "rejected"
  outcome,        \* outcome[r]: what the promise of r is resolved to
  timer,          \* timer[r]: "off", "armed", "cleared" or "fired"
  child,          \* child[r]: "none", "missing", "running", "dying", "gone" or
                  \* "closed", once 'close' was emitted
  code,           \* code[r]: the exit code of the child, once it is gone
  written,        \* written[r]: pieces of its answer the child wrote
  stdout          \* stdout[r]: pieces the data callback has accumulated

spawnVars == <<promise, outcome, timer, child, code, written, stdout>>

NoCode == 256            \* null: an exit code is a byte
Codes == {0, 1}
Outcomes == [timedOut: BOOLEAN, spawnError: BOOLEAN, code: Codes \union {NoCode},
             stdout: 0 .. Pieces]
NoOutcome == [timedOut |-> FALSE, spawnError |-> FALSE, code |-> NoCode, stdout |-> 0]

SpawnInit ==
  /\ promise = [r \in Runs |-> "none"]
  /\ outcome = [r \in Runs |-> NoOutcome]
  /\ timer = [r \in Runs |-> "off"]
  /\ child = [r \in Runs |-> "none"]
  /\ code = [r \in Runs |-> NoCode]
  /\ written = [r \in Runs |-> 0]
  /\ stdout = [r \in Runs |-> 0]

(* The runs of R are called, one after the other in the same turn of the   *)
(* event loop; those of Threw throw in the promise's executor, those of    *)
(* Missing will report an error.                                           *)
Launch(R, Threw, Missing) ==
  /\ Threw \subseteq R /\ Missing \subseteq R \ Threw
  /\ SpawnMayThrow \/ Threw = {}
  /\ SpawnMayFail \/ Missing = {}
  /\ promise' = [r \in Runs |-> IF r \in Threw THEN "rejected"
                                ELSE IF r \in R THEN "pending" ELSE promise[r]]
  /\ timer' = [r \in Runs |-> IF r \in R \ Threw THEN "armed" ELSE timer[r]]
  /\ child' = [r \in Runs |-> IF r \in Missing THEN "missing"
                              ELSE IF r \in R \ Threw THEN "running" ELSE child[r]]
  /\ UNCHANGED <<outcome, code, written, stdout>>

(* settle: the first call resolves the promise and clears the timer, later *)
(* calls do nothing.                                                       *)
Settle(r, value, timerLeft) ==
  IF promise[r] = "pending"
  THEN /\ promise' = [promise EXCEPT ![r] = "resolved"]
       /\ outcome' = [outcome EXCEPT ![r] = value]
       /\ timer' = [timer EXCEPT ![r] = timerLeft]
  ELSE UNCHANGED <<promise, outcome, timer>>

\* A variant with a bug: the child of a run that is given up is not killed.
GiveUp(r) ==
  /\ timer[r] = "armed"
  /\ Settle(r, [NoOutcome EXCEPT !.timedOut = TRUE, !.stdout = stdout[r]], "fired")
  /\ UNCHANGED <<child, code, written, stdout>>

OnTimeout(r) ==
  /\ timer[r] = "armed"
  /\ child' = [child EXCEPT ![r] = IF child[r] = "running" THEN "dying" ELSE child[r]]
  /\ Settle(r, [NoOutcome EXCEPT !.timedOut = TRUE, !.stdout = stdout[r]], "fired")
  /\ UNCHANGED <<code, written, stdout>>

OnData(r) ==
  /\ stdout[r] < written[r]
  /\ stdout' = [stdout EXCEPT ![r] = stdout[r] + 1]
  /\ UNCHANGED <<promise, outcome, timer, child, code, written>>

(* 'error' is followed by a 'close' of its own, with a code that is not 0. *)
OnError(r) ==
  /\ child[r] = "missing"
  /\ child' = [child EXCEPT ![r] = "gone"]
  /\ code' = [code EXCEPT ![r] = 1]
  /\ Settle(r, [NoOutcome EXCEPT !.spawnError = TRUE, !.stdout = stdout[r]], "cleared")
  /\ UNCHANGED <<written, stdout>>

\* A variant with a bug: listening to 'exit', which does not wait for the pipes.
OnExit(r) ==
  /\ child[r] = "gone"
  /\ child' = [child EXCEPT ![r] = "closed"]
  /\ Settle(r, [NoOutcome EXCEPT !.code = code[r], !.stdout = stdout[r]], "cleared")
  /\ UNCHANGED <<code, written, stdout>>

OnClose(r) ==
  /\ child[r] = "gone" /\ stdout[r] = written[r]
  /\ child' = [child EXCEPT ![r] = "closed"]
  /\ Settle(r, [NoOutcome EXCEPT !.code = code[r], !.stdout = stdout[r]], "cleared")
  /\ UNCHANGED <<code, written, stdout>>

(* The source prints its answer, one JSON text, at the end; it exits 0     *)
(* only after that.                                                        *)
ChildWrites(r) ==
  /\ child[r] = "running" /\ written[r] < Pieces
  /\ written' = [written EXCEPT ![r] = written[r] + 1]
  /\ UNCHANGED <<promise, outcome, timer, child, code, stdout>>

ChildExits(r) ==
  /\ child[r] \in {"running", "dying"}
  /\ child' = [child EXCEPT ![r] = "gone"]
  /\ \E c \in Codes :
       /\ c = 0 => child[r] = "running" /\ written[r] = Pieces
       /\ code' = [code EXCEPT ![r] = c]
  /\ UNCHANGED <<promise, outcome, timer, written, stdout>>

Callbacks(r) == OnTimeout(r) \/ OnData(r) \/ OnError(r) \/ OnClose(r)
-----------------------------------------------------------------------------
\* A variant with a bug: the exit code is not looked at.
OkAnyCode(r) ==
  LET o == outcome[r] IN ~o.timedOut /\ ~o.spawnError /\ o.stdout = Pieces

(* spawnPostgresSource: the answer of a run whose promise is resolved. A   *)
(* text that is not whole is no JSON.                                      *)
Ok(r) ==
  LET o == outcome[r]
  IN  ~o.timedOut /\ ~o.spawnError /\ o.code = 0 /\ o.stdout = Pieces
=============================================================================
