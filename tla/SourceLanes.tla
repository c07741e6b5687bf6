------------------------------ MODULE SourceLanes ------------------------------
(***************************************************************************)
(* How a retrieval turn gathers its sources (loadMemoryLexicalSources and  *)
(* the Promise.all of src/memory.ts): the lexical index from the database  *)
(* or, failing that, from the room's JSON index; then the other lanes side *)
(* by side, each a process of its own.                                     *)
(***************************************************************************)
EXTENDS Spawn

CONSTANTS
  Lanes           \* the runs of the second stage: semantic, content and date

Lexical == "lexical"

ASSUME LaneAssumption == Lexical \notin Lanes /\ Runs = Lanes \union {Lexical}

VARIABLES
  stage,          \* where the gathering is
  index,          \* the source of the index: "none", "postgres" or "json"
  wanted,         \* the lanes this turn calls
  found           \* found[l]: what lane l gave: "nothing", "chunks" or "unavailable"

vars == <<spawnVars, stage, index, wanted, found>>
gatherVars == <<stage, index, wanted, found>>

Init ==
  /\ SpawnInit
  /\ stage = "idle"
  /\ index = "none"
  /\ wanted = {}
  /\ found = [l \in Lanes |-> "nothing"]

Throws(R) == {r \in R : promise'[r] = "rejected"}

(* The turn calls the lexical source, unless the JSON source is forced.    *)
Gather ==
  /\ stage = "idle"
  /\ \E Threw, Missing \in SUBSET {Lexical} : Launch({Lexical}, Threw, Missing)
  /\ stage' = IF Throws({Lexical}) = {} THEN "lexical" ELSE "threw"
  /\ UNCHANGED <<index, wanted, found>>

(* The index is the database's if it answered, else the JSON one if there  *)
(* is one. The lanes the route, the active files and the dates of the      *)
(* prompt call for are launched; with no index the turn is over.           *)
UseIndex(source) ==
  /\ stage = "lexical" /\ promise[Lexical] = "resolved"
  /\ source \in (IF Ok(Lexical) THEN {"postgres"} ELSE {"json", "none"})
  /\ index' = source
  /\ IF source = "none"
     THEN stage' = "empty" /\ UNCHANGED <<spawnVars, wanted>>
     ELSE \E called \in SUBSET Lanes :
            \E Threw, Missing \in SUBSET called :
              /\ Launch(called, Threw, Missing)
              /\ wanted' = called
              /\ stage' = "lanes"
  /\ UNCHANGED found

\* A variant with a bug: a lane that failed is waited for.
AllGood ==
  /\ stage = "lanes"
  /\ \A l \in wanted : Ok(l)
  /\ stage' = "gathered"
  /\ found' = [l \in Lanes |-> IF l \in wanted THEN "chunks" ELSE "nothing"]
  /\ UNCHANGED <<spawnVars, index, wanted>>

(* Promise.all: every lane has answered, and one that failed gave nothing. *)
AllAnswered ==
  /\ stage = "lanes"
  /\ \A l \in wanted : promise[l] = "resolved"
  /\ stage' = "gathered"
  /\ found' = [l \in Lanes |-> IF l \notin wanted THEN "nothing"
                               ELSE IF Ok(l) THEN "chunks" ELSE "unavailable"]
  /\ UNCHANGED <<spawnVars, index, wanted>>

(* Promise.all: one rejection rejects the whole at once, whatever the      *)
(* others do; the turn returns empty.                                      *)
OneRejected ==
  /\ stage = "lanes"
  /\ \E l \in wanted : promise[l] = "rejected"
  /\ stage' = "threw"
  /\ UNCHANGED <<spawnVars, index, wanted, found>>

Loop ==
  \/ Gather \/ (\E source \in {"postgres", "json", "none"} : UseIndex(source))
  \/ AllAnswered \/ OneRejected

Runtime(r) == Callbacks(r) /\ UNCHANGED gatherVars
Child(r) == (ChildWrites(r) \/ ChildExits(r)) /\ UNCHANGED gatherVars

Next == Loop \/ \E r \in Runs : Runtime(r) \/ Child(r)

Spec == Init /\ [][Next]_vars

(* The event loop runs what is ready, and time passes, so that an armed    *)
(* timer fires. A child owes nothing, except to die when it is killed.     *)
Fairness ==
  /\ WF_vars(Loop)
  /\ \A r \in Runs : WF_vars(Runtime(r)) /\ WF_vars(child[r] = "dying" /\ Child(r))

FairSpec == Spec /\ Fairness
-----------------------------------------------------------------------------
TypeOK ==
  /\ promise \in [Runs -> {"none", "pending", "resolved", "rejected"}]
  /\ outcome \in [Runs -> Outcomes]
  /\ timer \in [Runs -> {"off", "armed", "cleared", "fired"}]
  /\ child \in [Runs -> {"none", "missing", "running", "dying", "gone", "closed"}]
  /\ code \in [Runs -> Codes \union {NoCode}]
  /\ written \in [Runs -> 0 .. Pieces] /\ stdout \in [Runs -> 0 .. Pieces]
  /\ stage \in {"idle", "lexical", "lanes", "gathered", "empty", "threw"}
  /\ index \in {"none", "postgres", "json"}
  /\ wanted \subseteq Lanes
  /\ found \in [Lanes -> {"nothing", "chunks", "unavailable"}]

(* A source that exited 0 is reported as failed only if its time was up.   *)
GoodAnswerKept ==
  \A r \in Runs : promise[r] = "resolved" /\ code[r] = 0 => Ok(r) \/ outcome[r].timedOut

(* What a lane gives the turn is the whole answer of a source that exited  *)
(* 0: never a truncated one, nor one of a process that failed.             *)
ChunksAreWhole ==
  \A l \in Lanes : found[l] = "chunks" => code[l] = 0 /\ stdout[l] = Pieces

(* "Source failures are logged and do not block the conversation"          *)
(* (docs/RETRIEVAL.md:71): the gathering ends if no source ever answers.   *)
GatheringEnds == stage = "lexical" ~> stage \in {"gathered", "empty", "threw"}

(* No process outlives its time, even if the turn has gone on without it.  *)
NoProcessLeft == \A r \in Runs : child[r] = "running" ~> child[r] = "gone"
=============================================================================
