------------------------------ MODULE LaneProofs ------------------------------
(***************************************************************************)
(* The lanes of a retrieval: what a turn is told by them, and what recall  *)
(* makes of the rows they answer.                                          *)
(*                                                                         *)
(* SourceLanes, for any lanes and any number of pieces: a promise that was *)
(* settled by 'close' has the exit code and the whole output of a child    *)
(* that is gone, whatever timer, error and close raced for it. That is why *)
(* an answer that counts is a whole one.                                   *)
(*                                                                         *)
(* Recall, for any rows, queries, caps and canon index: every candidate    *)
(* has the evidence and the scores of all its rows; the sort is a strict   *)
(* total order; and what an answer lacks is outranked. The totals and the  *)
(* selection of canon entries are recursive functions: what they are is    *)
(* shown by taking the least index at which it could fail.                 *)
(***************************************************************************)
EXTENDS SourceLanes, Recall, FiniteSetTheorems, SequenceTheorems,
        WellFoundedInduction, TLAPS

(* What is not called yet has done nothing.                                *)
Untouched(r) ==
  child[r] = "none" /\ code[r] = NoCode /\ timer[r] = "off" /\ written[r] = 0 /\ stdout[r] = 0
NotCalled ==
  /\ stage = "idle" => \A r \in Runs : promise[r] = "none"
  /\ stage = "lexical" => \A l \in Lanes : promise[l] = "none"
  /\ stage \in {"idle", "lexical"} => \A l \in Lanes : found[l] = "nothing"
  /\ \A r \in Runs : promise[r] = "none" => Untouched(r)

(* How the fields of a run hang together: by its child, by its code and by *)
(* what its promise was settled with.                                      *)
RunAgrees(r) ==
  /\ code[r] # NoCode => child[r] \in {"gone", "closed"}
  /\ code[r] = 0 => written[r] = Pieces
  /\ stdout[r] <= written[r]
  /\ child[r] = "closed" => stdout[r] = written[r]
  /\ promise[r] = "resolved" =>
       \/ outcome[r].timedOut
       \/ outcome[r].spawnError /\ code[r] = 1
       \/ /\ child[r] = "closed" /\ ~outcome[r].timedOut /\ ~outcome[r].spawnError
          /\ outcome[r].code = code[r] /\ outcome[r].stdout = stdout[r]

Found ==
  \A l \in Lanes : found[l] = "chunks" =>
    child[l] = "closed" /\ code[l] = 0 /\ stdout[l] = Pieces

IInv == TypeOK /\ NotCalled /\ (\A r \in Runs : RunAgrees(r)) /\ Found
-----------------------------------------------------------------------------
LEMMA RunsAre == Lanes \subseteq Runs /\ Lexical \in Runs /\ Lexical \notin Lanes
BY LaneAssumption

LEMMA PiecesAre == Pieces \in Nat /\ NoCode \notin Codes /\ Codes = {0, 1}
BY SpawnAssumption DEF NoCode, Codes

LEMMA NoOutcomeTyped == NoOutcome \in Outcomes
BY PiecesAre DEF NoOutcome, Outcomes

LEMMA InitInv == Init => IInv
<1> SUFFICES ASSUME Init PROVE IInv
  OBVIOUS
<1>1. TypeOK
  BY NoOutcomeTyped, PiecesAre DEF Init, SpawnInit, TypeOK
<1>2. NotCalled /\ Found
  BY RunsAre DEF Init, SpawnInit, NotCalled, Found, Untouched
<1>3. ASSUME NEW r \in Runs PROVE RunAgrees(r)
  <2>1. promise[r] = "none" /\ child[r] = "none" /\ code[r] = NoCode /\ written[r] = 0 /\ stdout[r] = 0
    BY DEF Init, SpawnInit
  <2> QED BY <2>1 DEF RunAgrees, NoCode
<1> QED BY <1>1, <1>2, <1>3 DEF IInv

(* Runs are launched once.                                                 *)
LEMMA LaunchInv ==
  ASSUME IInv, NEW R \in SUBSET Runs, NEW Threw, NEW Missing, Launch(R, Threw, Missing),
         \A r \in R : promise[r] = "none"
  PROVE  /\ promise' \in [Runs -> {"none", "pending", "resolved", "rejected"}]
         /\ timer' \in [Runs -> {"off", "armed", "cleared", "fired"}]
         /\ child' \in [Runs -> {"none", "missing", "running", "dying", "gone", "closed"}]
         /\ UNCHANGED <<outcome, code, written, stdout>>
         /\ \A r \in R : promise'[r] # "none"
         /\ \A r \in Runs \ R : promise'[r] = promise[r] /\ child'[r] = child[r]
         /\ \A r \in Runs : RunAgrees(r)'
         /\ \A r \in Runs : promise'[r] = "none" => Untouched(r)'
<1>1. UNCHANGED <<outcome, code, written, stdout>>
  BY DEF Launch
<1>2. \A r \in R : /\ child[r] = "none" /\ code[r] = NoCode
                   /\ promise'[r] \in {"pending", "rejected"}
                   /\ child'[r] \in {"none", "missing", "running"}
                   /\ written[r] = 0 /\ stdout[r] = 0
  BY DEF IInv, NotCalled, Launch, Untouched
<1>3. \A r \in Runs \ R : promise'[r] = promise[r] /\ child'[r] = child[r]
  BY DEF Launch, IInv, TypeOK
<1>4. /\ promise' \in [Runs -> {"none", "pending", "resolved", "rejected"}]
      /\ timer' \in [Runs -> {"off", "armed", "cleared", "fired"}]
      /\ child' \in [Runs -> {"none", "missing", "running", "dying", "gone", "closed"}]
  BY DEF Launch, IInv, TypeOK
<1>5. ASSUME NEW r \in Runs PROVE RunAgrees(r)'
  <2>1. RunAgrees(r)
    BY DEF IInv
  <2>2. CASE r \in R
    BY <1>1, <1>2, <2>1, <2>2 DEF RunAgrees, NoCode
  <2>3. CASE r \notin R
    BY <1>1, <1>3, <2>1, <2>3 DEF RunAgrees
  <2> QED BY <2>2, <2>3
<1>6. ASSUME NEW r \in Runs, promise'[r] = "none" PROVE Untouched(r)'
  <2>1. r \notin R /\ promise[r] = "none"
    BY <1>2, <1>3, <1>6
  <2>2. timer'[r] = timer[r] /\ Untouched(r)
    BY <2>1 DEF Launch, IInv, TypeOK, NotCalled
  <2> QED BY <1>1, <1>3, <2>1, <2>2 DEF Untouched
<1> QED BY <1>1, <1>2, <1>3, <1>4, <1>5, <1>6

LEMMA GatherInv ==
  ASSUME IInv, Gather
  PROVE  IInv'
<1>1. PICK Threw, Missing \in SUBSET {Lexical} : Launch({Lexical}, Threw, Missing)
  BY DEF Gather
<1>2. stage = "idle" /\ stage' \in {"lexical", "threw"} /\ UNCHANGED <<index, wanted, found>>
  BY DEF Gather
<1>3. {Lexical} \in SUBSET Runs /\ \A r \in {Lexical} : promise[r] = "none"
  BY <1>2, RunsAre DEF IInv, NotCalled
<1>4. TypeOK' /\ \A r \in Runs : RunAgrees(r)'
  BY <1>1, <1>2, <1>3, LaunchInv DEF IInv, TypeOK
<1>5. \A l \in Lanes : promise'[l] = "none" /\ found'[l] = "nothing"
  <2>1. \A l \in Lanes : l \in Runs \ {Lexical}
    BY RunsAre
  <2> QED BY <1>1, <1>2, <1>3, <2>1, LaunchInv DEF IInv, NotCalled
<1>6. NotCalled'
  BY <1>1, <1>2, <1>3, <1>5, LaunchInv DEF NotCalled
<1>7. Found'
  BY <1>5 DEF Found
<1> QED BY <1>4, <1>6, <1>7 DEF IInv

LEMMA UseIndexInv ==
  ASSUME IInv, NEW source \in {"postgres", "json", "none"}, UseIndex(source)
  PROVE  IInv'
<1>1. stage = "lexical" /\ index' = source /\ found' = found
  BY DEF UseIndex
<1>2. CASE stage' = "empty" /\ UNCHANGED <<spawnVars, wanted>>
  <2>1. TypeOK'
    BY <1>1, <1>2 DEF IInv, TypeOK, spawnVars
  <2>2. NotCalled' /\ Found'
    BY <1>1, <1>2 DEF IInv, NotCalled, Found, Untouched, spawnVars
  <2>3. \A r \in Runs : RunAgrees(r)'
    BY <1>2 DEF IInv, RunAgrees, spawnVars
  <2> QED BY <2>1, <2>2, <2>3 DEF IInv
<1>3. ASSUME NEW called \in SUBSET Lanes, NEW Threw, NEW Missing, Launch(called, Threw, Missing),
             wanted' = called, stage' = "lanes"
      PROVE  IInv'
  <2>1. called \in SUBSET Runs /\ \A r \in called : promise[r] = "none"
    BY <1>1, RunsAre DEF IInv, NotCalled
  <2>2. TypeOK' /\ \A r \in Runs : RunAgrees(r)'
    BY <1>1, <1>3, <2>1, LaunchInv DEF IInv, TypeOK
  <2>3. \A l \in Lanes : found'[l] = "nothing"
    BY <1>1 DEF IInv, NotCalled
  <2>4. NotCalled'
    BY <1>3, <2>1, LaunchInv DEF NotCalled
  <2>5. Found'
    BY <2>3 DEF Found
  <2> QED BY <2>2, <2>4, <2>5 DEF IInv
<1> QED BY <1>2, <1>3 DEF UseIndex
-----------------------------------------------------------------------------
(* A callback or a step of the child concerns one run.                     *)
LEMMA OneRun ==
  ASSUME IInv, NEW r \in Runs, UNCHANGED gatherVars, TypeOK',
         \A q \in Runs \ {r} :
           /\ promise'[q] = promise[q] /\ outcome'[q] = outcome[q] /\ child'[q] = child[q]
           /\ code'[q] = code[q] /\ written'[q] = written[q] /\ stdout'[q] = stdout[q]
           /\ timer'[q] = timer[q],
         promise[r] # "none", promise'[r] # "none", RunAgrees(r)',
         child[r] = "closed" /\ stdout[r] = Pieces =>
           child'[r] = "closed" /\ code'[r] = code[r] /\ stdout'[r] = Pieces
  PROVE  IInv'
<1>1. ASSUME NEW q \in Runs PROVE RunAgrees(q)'
  BY <1>1 DEF IInv, RunAgrees
<1>2. NotCalled'
  <2>1. \A q \in Runs : promise[q] = "none" <=> promise'[q] = "none"
    OBVIOUS
  <2>2. \A q \in Runs : promise'[q] = "none" => q # r
    OBVIOUS
  <2> QED BY <2>1, <2>2, RunsAre DEF IInv, NotCalled, Untouched, gatherVars
<1>3. Found'
  BY RunsAre DEF IInv, Found, gatherVars
<1> QED BY <1>1, <1>2, <1>3 DEF IInv

LEMMA CalledRun ==
  ASSUME IInv, NEW r \in Runs, child[r] # "none" \/ stdout[r] < written[r] \/ timer[r] = "armed"
  PROVE  promise[r] # "none"
BY DEF IInv, NotCalled, Untouched

(* What settle does: the first caller decides.                             *)
LEMMA SettleOnce ==
  ASSUME TypeOK, NEW r \in Runs, NEW value \in Outcomes, NEW left \in {"cleared", "fired"},
         Settle(r, value, left), promise[r] # "none"
  PROVE  /\ promise' \in [Runs -> {"none", "pending", "resolved", "rejected"}]
         /\ outcome' \in [Runs -> Outcomes]
         /\ timer' \in [Runs -> {"off", "armed", "cleared", "fired"}]
         /\ promise'[r] # "none"
         /\ \A q \in Runs \ {r} :
              promise'[q] = promise[q] /\ outcome'[q] = outcome[q] /\ timer'[q] = timer[q]
         /\ promise'[r] = "resolved" =>
              \/ promise[r] = "resolved" /\ outcome'[r] = outcome[r]
              \/ promise[r] = "pending" /\ outcome'[r] = value
BY DEF Settle, TypeOK

LEMMA TimeoutInv ==
  ASSUME IInv, NEW r \in Runs, OnTimeout(r), UNCHANGED gatherVars
  PROVE  IInv'
<1> DEFINE value == [NoOutcome EXCEPT !.timedOut = TRUE, !.stdout = stdout[r]]
<1>1. promise[r] # "none"
  BY CalledRun DEF OnTimeout
<1>2. value \in Outcomes /\ value.timedOut
  BY NoOutcomeTyped DEF IInv, TypeOK, Outcomes
<1>3. Settle(r, value, "fired") /\ UNCHANGED <<code, written, stdout>>
  BY DEF OnTimeout
<1>4. child' = [child EXCEPT ![r] = IF child[r] = "running" THEN "dying" ELSE child[r]]
  BY DEF OnTimeout
<1> HIDE DEF value
<1>5. TypeOK'
  BY <1>1, <1>2, <1>3, <1>4, SettleOnce DEF IInv, TypeOK, gatherVars
<1>6. RunAgrees(r)'
  BY <1>1, <1>2, <1>3, <1>4, SettleOnce DEF IInv, TypeOK, RunAgrees
<1>7. child'[r] = "closed" <=> child[r] = "closed"
  BY <1>4 DEF IInv, TypeOK
<1>8. \A q \in Runs \ {r} : child'[q] = child[q]
  BY <1>4 DEF IInv, TypeOK
<1> QED BY <1>1, <1>2, <1>3, <1>5, <1>6, <1>7, <1>8, SettleOnce, OneRun DEF IInv

(* The last piece comes before 'close'.                                    *)
LEMMA DataInv ==
  ASSUME IInv, NEW r \in Runs, OnData(r), UNCHANGED gatherVars
  PROVE  IInv'
<1>1. promise[r] # "none"
  BY CalledRun DEF OnData
<1>2. /\ stdout[r] < written[r] /\ stdout' = [stdout EXCEPT ![r] = stdout[r] + 1]
      /\ UNCHANGED <<promise, outcome, timer, child, code, written>>
  BY DEF OnData
<1>3. stdout[r] \in Nat /\ written[r] \in Nat /\ written[r] <= Pieces /\ child[r] # "closed"
  BY <1>2, PiecesAre DEF IInv, TypeOK, RunAgrees
<1>4. stdout'[r] = stdout[r] + 1 /\ stdout'[r] \in 0 .. Pieces /\ stdout'[r] <= written[r]
  BY <1>2, <1>3, PiecesAre DEF IInv, TypeOK
<1>5. TypeOK'
  BY <1>2, <1>4 DEF IInv, TypeOK, gatherVars
<1>6. RunAgrees(r)'
  BY <1>2, <1>3, <1>4 DEF IInv, RunAgrees
<1>7. \A q \in Runs \ {r} : stdout'[q] = stdout[q]
  BY <1>2 DEF IInv, TypeOK
<1> QED BY <1>1, <1>2, <1>3, <1>5, <1>6, <1>7, OneRun

LEMMA ErrorInv ==
  ASSUME IInv, NEW r \in Runs, OnError(r), UNCHANGED gatherVars
  PROVE  IInv'
<1> DEFINE value == [NoOutcome EXCEPT !.spawnError = TRUE, !.stdout = stdout[r]]
<1>1. child[r] = "missing" /\ promise[r] # "none"
  BY CalledRun DEF OnError
<1>2. value \in Outcomes /\ value.spawnError
  BY NoOutcomeTyped DEF IInv, TypeOK, Outcomes
<1>3. /\ Settle(r, value, "cleared") /\ UNCHANGED <<written, stdout>>
      /\ child' = [child EXCEPT ![r] = "gone"] /\ code' = [code EXCEPT ![r] = 1]
  BY DEF OnError
<1> HIDE DEF value
<1>4. child'[r] = "gone" /\ code'[r] = 1
  BY <1>3 DEF IInv, TypeOK
<1>5. code[r] = NoCode
  BY <1>1 DEF IInv, RunAgrees
<1>6. TypeOK'
  BY <1>1, <1>2, <1>3, <1>4, SettleOnce, PiecesAre DEF IInv, TypeOK, gatherVars
<1>7. RunAgrees(r)'
  <2>1. promise[r] = "resolved" => outcome[r].timedOut
    BY <1>1, <1>5 DEF IInv, RunAgrees, NoCode
  <2>2. promise'[r] = "resolved" => outcome'[r].timedOut \/ outcome'[r].spawnError
    BY <1>1, <1>2, <1>3, <2>1, SettleOnce DEF IInv
  <2>3. stdout'[r] <= written'[r] /\ (code'[r] = 0 => FALSE) /\ child'[r] # "closed"
    BY <1>3, <1>4 DEF IInv, RunAgrees
  <2> QED BY <1>4, <2>2, <2>3 DEF RunAgrees
<1>8. \A q \in Runs \ {r} : child'[q] = child[q] /\ code'[q] = code[q]
  BY <1>3 DEF IInv, TypeOK
<1> QED BY <1>1, <1>2, <1>3, <1>6, <1>7, <1>8, SettleOnce, OneRun DEF IInv

(* 'close' settles with the code of the child and all it wrote.            *)
LEMMA CloseInv ==
  ASSUME IInv, NEW r \in Runs, OnClose(r), UNCHANGED gatherVars
  PROVE  IInv'
<1> DEFINE value == [NoOutcome EXCEPT !.code = code[r], !.stdout = stdout[r]]
<1>1. child[r] = "gone" /\ stdout[r] = written[r] /\ promise[r] # "none"
  BY CalledRun DEF OnClose
<1>2. /\ value \in Outcomes /\ ~value.timedOut /\ ~value.spawnError
      /\ value.code = code[r] /\ value.stdout = stdout[r]
  BY NoOutcomeTyped DEF IInv, TypeOK, Outcomes, NoOutcome
<1>3. /\ Settle(r, value, "cleared") /\ UNCHANGED <<code, written, stdout>>
      /\ child' = [child EXCEPT ![r] = "closed"]
  BY DEF OnClose
<1> HIDE DEF value
<1>4. child'[r] = "closed"
  BY <1>3 DEF IInv, TypeOK
<1>5. TypeOK'
  BY <1>1, <1>2, <1>3, <1>4, SettleOnce DEF IInv, TypeOK, gatherVars
<1>6. RunAgrees(r)'
  <2>1. promise[r] = "resolved" => outcome[r].timedOut \/ (outcome[r].spawnError /\ code[r] = 1)
    BY <1>1 DEF IInv, RunAgrees
  <2>2. CASE promise[r] = "resolved"
    BY <1>1, <1>2, <1>3, <1>4, <2>1, <2>2, SettleOnce DEF IInv, RunAgrees
  <2>3. CASE promise[r] # "resolved"
    BY <1>1, <1>2, <1>3, <1>4, <2>3, SettleOnce DEF IInv, RunAgrees
  <2> QED BY <2>2, <2>3
<1>7. \A q \in Runs \ {r} : child'[q] = child[q]
  BY <1>3 DEF IInv, TypeOK
<1> QED BY <1>1, <1>2, <1>3, <1>4, <1>5, <1>6, <1>7, SettleOnce, OneRun DEF IInv

LEMMA ChildInv ==
  ASSUME IInv, NEW r \in Runs, ChildWrites(r) \/ ChildExits(r), UNCHANGED gatherVars
  PROVE  IInv'
<1>1. child[r] \in {"running", "dying"} /\ promise[r] # "none" /\ code[r] = NoCode
  BY CalledRun DEF ChildWrites, ChildExits, IInv, RunAgrees
<1>2. promise[r] = "resolved" => outcome[r].timedOut
  BY <1>1 DEF IInv, RunAgrees, NoCode
<1>3. UNCHANGED <<promise, outcome, timer, stdout>>
  BY DEF ChildWrites, ChildExits
<1>4. CASE ChildWrites(r)
  <2>1. /\ written[r] < Pieces /\ written' = [written EXCEPT ![r] = written[r] + 1]
        /\ UNCHANGED <<child, code>>
    BY <1>4 DEF ChildWrites
  <2>2. written'[r] \in 0 .. Pieces /\ stdout[r] <= written'[r]
    BY <2>1, PiecesAre DEF IInv, TypeOK, RunAgrees
  <2>3. TypeOK'
    BY <1>3, <2>1, <2>2 DEF IInv, TypeOK, gatherVars
  <2>4. RunAgrees(r)'
    BY <1>1, <1>2, <1>3, <2>1, <2>2 DEF RunAgrees, NoCode
  <2>5. \A q \in Runs \ {r} : written'[q] = written[q]
    BY <2>1 DEF IInv, TypeOK
  <2> QED BY <1>1, <1>3, <2>1, <2>3, <2>4, <2>5, OneRun
<1>5. CASE ChildExits(r)
  <2>1. PICK c \in Codes : /\ c = 0 => written[r] = Pieces
                           /\ code' = [code EXCEPT ![r] = c]
    BY <1>5 DEF ChildExits
  <2>2. child' = [child EXCEPT ![r] = "gone"] /\ written' = written
    BY <1>5 DEF ChildExits
  <2>3. TypeOK'
    BY <1>3, <2>1, <2>2 DEF IInv, TypeOK, gatherVars
  <2>4. child'[r] = "gone" /\ code'[r] = c
    BY <2>1, <2>2 DEF IInv, TypeOK
  <2>5. RunAgrees(r)'
    BY <1>2, <1>3, <2>1, <2>2, <2>4 DEF IInv, RunAgrees
  <2>6. \A q \in Runs \ {r} : child'[q] = child[q] /\ code'[q] = code[q]
    BY <2>1, <2>2 DEF IInv, TypeOK
  <2> QED BY <1>1, <1>3, <2>2, <2>3, <2>5, <2>6, OneRun
<1> QED BY <1>4, <1>5

(* A lane that is taken has a good answer, and so a whole one.             *)
LEMMA AllAnsweredInv ==
  ASSUME IInv, AllAnswered
  PROVE  IInv'
<1>1. /\ \A l \in wanted : promise[l] = "resolved"
      /\ stage' = "gathered" /\ UNCHANGED <<spawnVars, index, wanted>>
      /\ found' = [l \in Lanes |-> IF l \notin wanted THEN "nothing"
                                   ELSE IF Ok(l) THEN "chunks" ELSE "unavailable"]
  BY DEF AllAnswered
<1>2. ASSUME NEW l \in Lanes, found'[l] = "chunks"
      PROVE  child[l] = "closed" /\ code[l] = 0 /\ stdout[l] = Pieces
  <2>1. l \in wanted /\ Ok(l)
    BY <1>1, <1>2
  <2>2. RunAgrees(l) /\ promise[l] = "resolved"
    BY <1>1, <2>1, RunsAre DEF IInv
  <2> QED BY <2>1, <2>2 DEF RunAgrees, Ok
<1>3. TypeOK'
  BY <1>1 DEF IInv, TypeOK, spawnVars
<1>4. NotCalled' /\ \A r \in Runs : RunAgrees(r)'
  BY <1>1 DEF IInv, NotCalled, Untouched, RunAgrees, spawnVars
<1>5. Found'
  BY <1>1, <1>2 DEF Found, spawnVars
<1> QED BY <1>3, <1>4, <1>5 DEF IInv

LEMMA OneRejectedInv ==
  ASSUME IInv, OneRejected
  PROVE  IInv'
BY DEF OneRejected, IInv, TypeOK, NotCalled, Untouched, RunAgrees, Found, spawnVars

LEMMA StepInv == IInv /\ [Next]_vars => IInv'
<1> SUFFICES ASSUME IInv, [Next]_vars PROVE IInv'
  OBVIOUS
<1>1. CASE UNCHANGED vars
  BY <1>1 DEF IInv, TypeOK, NotCalled, Untouched, RunAgrees, Found, vars, spawnVars
<1>2. CASE Loop
  BY <1>2, GatherInv, UseIndexInv, AllAnsweredInv, OneRejectedInv DEF Loop
<1>3. ASSUME NEW r \in Runs, Runtime(r) \/ Child(r) PROVE IInv'
  BY <1>3, TimeoutInv, DataInv, ErrorInv, CloseInv, ChildInv DEF Runtime, Child, Callbacks
<1> QED BY <1>1, <1>2, <1>3 DEF Next

LEMMA LanesInvariant == Spec => []IInv
BY InitInv, StepInv, PTL DEF Spec
-----------------------------------------------------------------------------
(* Type correctness of the runs and of what the lanes found.               *)
THEOREM TypeCorrect == Spec => []TypeOK
<1>1. IInv => TypeOK
  BY DEF IInv
<1> QED BY <1>1, LanesInvariant, PTL

(* A source that exited 0 is reported as failed only if its time was up:   *)
(* 'close' waits for the last piece (src/wsl.ts).                          *)
THEOREM GoodAnswers == Spec => []GoodAnswerKept
<1>1. IInv => GoodAnswerKept
  BY DEF IInv, RunAgrees, GoodAnswerKept, Ok
<1> QED BY <1>1, LanesInvariant, PTL

(* No lane gives the turn a truncated answer, or one of a failed process.  *)
THEOREM WholeChunks == Spec => []ChunksAreWhole
<1>1. IInv => ChunksAreWhole
  BY DEF IInv, Found, ChunksAreWhole
<1> QED BY <1>1, LanesInvariant, PTL
-----------------------------------------------------------------------------
(* What makes the gathering end: a promise that is still open has a timer  *)
(* that will settle it, and so has a child that still runs one that will   *)
(* kill it.                                                                *)
Timed(r) ==
  /\ promise[r] = "pending" <=> timer[r] = "armed"
  /\ child[r] = "running" => promise[r] = "pending"
Launched ==
  /\ stage = "lexical" => promise[Lexical] \in {"pending", "resolved"}
  /\ stage = "lanes" => \A l \in wanted : promise[l] # "none"
Watch == (\A r \in Runs : Timed(r)) /\ Launched

LEMMA LaunchTimed ==
  ASSUME IInv, Watch, NEW R \in SUBSET Runs, NEW Threw, NEW Missing,
         Launch(R, Threw, Missing), \A r \in R : promise[r] = "none"
  PROVE  \A r \in Runs : Timed(r)'
<1> SUFFICES ASSUME NEW r \in Runs PROVE Timed(r)'
  OBVIOUS
<1>1. Timed(r) /\ (promise[r] = "none" => timer[r] = "off" /\ child[r] = "none")
  BY DEF Watch, IInv, NotCalled, Untouched
<1>2. /\ promise'[r] = IF r \in Threw THEN "rejected" ELSE IF r \in R THEN "pending" ELSE promise[r]
      /\ timer'[r] = IF r \in R \ Threw THEN "armed" ELSE timer[r]
      /\ child'[r] = IF r \in Missing THEN "missing"
                     ELSE IF r \in R \ Threw THEN "running" ELSE child[r]
      /\ Threw \subseteq R /\ Missing \subseteq R \ Threw
  BY DEF Launch
<1>3. CASE r \in R
  BY <1>1, <1>2, <1>3 DEF Timed
<1>4. CASE r \notin R
  BY <1>1, <1>2, <1>4 DEF Timed
<1> QED BY <1>3, <1>4

LEMMA GatherWatch ==
  ASSUME IInv, Watch, Gather
  PROVE  Watch'
<1>1. PICK Threw, Missing \in SUBSET {Lexical} : Launch({Lexical}, Threw, Missing)
  BY DEF Gather
<1>2. {Lexical} \in SUBSET Runs /\ \A r \in {Lexical} : promise[r] = "none"
  BY RunsAre DEF IInv, NotCalled, Gather
<1>3. \A r \in Runs : Timed(r)'
  BY <1>1, <1>2, LaunchTimed
<1>4. Launched'
  <2>1. stage' = IF Throws({Lexical}) = {} THEN "lexical" ELSE "threw"
    BY DEF Gather
  <2>2. promise'[Lexical] \in {"pending", "rejected"}
    BY <1>1, RunsAre DEF Launch
  <2>3. stage' = "lexical" => promise'[Lexical] = "pending"
    BY <2>1, <2>2 DEF Throws
  <2>4. stage' # "lanes"
    BY <2>1
  <2> QED BY <2>3, <2>4 DEF Launched
<1> QED BY <1>3, <1>4 DEF Watch

LEMMA UseIndexWatch ==
  ASSUME IInv, Watch, NEW source \in {"postgres", "json", "none"}, UseIndex(source)
  PROVE  Watch'
<1>1. CASE stage' = "empty" /\ UNCHANGED <<spawnVars, wanted>>
  BY <1>1 DEF Watch, Timed, Launched, spawnVars
<1>2. ASSUME NEW called \in SUBSET Lanes, NEW Threw, NEW Missing, Launch(called, Threw, Missing),
             wanted' = called, stage' = "lanes"
      PROVE  Watch'
  <2>1. called \in SUBSET Runs /\ \A r \in called : promise[r] = "none"
    BY RunsAre DEF IInv, NotCalled, UseIndex
  <2>2. \A r \in Runs : Timed(r)'
    BY <1>2, <2>1, LaunchTimed
  <2>3. Launched'
    BY <1>2, <2>1, LaunchInv DEF Launched
  <2> QED BY <2>2, <2>3 DEF Watch
<1> QED BY <1>1, <1>2 DEF UseIndex

(* A callback settles a promise and clears its timer in one step.          *)
LEMMA SettleTimed ==
  ASSUME TypeOK, NEW r \in Runs, NEW value, NEW left \in {"cleared", "fired"},
         Settle(r, value, left), Timed(r)
  PROVE  /\ promise'[r] = (IF promise[r] = "pending" THEN "resolved" ELSE promise[r])
         /\ promise'[r] # "pending" /\ timer'[r] # "armed"
         /\ \A q \in Runs \ {r} : promise'[q] = promise[q] /\ timer'[q] = timer[q]
<1>1. CASE promise[r] = "pending"
  BY <1>1 DEF Settle, TypeOK
<1>2. CASE promise[r] # "pending"
  BY <1>2 DEF Settle, Timed
<1> QED BY <1>1, <1>2

LEMMA RunWatch ==
  ASSUME IInv, Watch, NEW r \in Runs, Runtime(r) \/ Child(r)
  PROVE  Watch'
<1>1. TypeOK /\ Timed(r) /\ UNCHANGED gatherVars
  BY DEF IInv, Watch, Runtime, Child
<1>2. /\ Timed(r)'
      /\ promise'[r] = promise[r] \/ (promise[r] = "pending" /\ promise'[r] = "resolved")
      /\ \A q \in Runs \ {r} :
           promise'[q] = promise[q] /\ timer'[q] = timer[q] /\ child'[q] = child[q]
  <2>1. CASE OnTimeout(r)
    <3>1. PICK value : Settle(r, value, "fired")
      BY <2>1 DEF OnTimeout
    <3>2. child' = [child EXCEPT ![r] = IF child[r] = "running" THEN "dying" ELSE child[r]]
      BY <2>1 DEF OnTimeout
    <3>3. child'[r] # "running" /\ \A q \in Runs \ {r} : child'[q] = child[q]
      BY <1>1, <3>2 DEF TypeOK
    <3> QED BY <1>1, <3>1, <3>3, SettleTimed DEF Timed
  <2>2. CASE OnError(r)
    <3>1. PICK value : Settle(r, value, "cleared")
      BY <2>2 DEF OnError
    <3>2. child' = [child EXCEPT ![r] = "gone"]
      BY <2>2 DEF OnError
    <3>3. child'[r] # "running" /\ \A q \in Runs \ {r} : child'[q] = child[q]
      BY <1>1, <3>2 DEF TypeOK
    <3> QED BY <1>1, <3>1, <3>3, SettleTimed DEF Timed
  <2>3. CASE OnClose(r)
    <3>1. PICK value : Settle(r, value, "cleared")
      BY <2>3 DEF OnClose
    <3>2. child' = [child EXCEPT ![r] = "closed"]
      BY <2>3 DEF OnClose
    <3>3. child'[r] # "running" /\ \A q \in Runs \ {r} : child'[q] = child[q]
      BY <1>1, <3>2 DEF TypeOK
    <3> QED BY <1>1, <3>1, <3>3, SettleTimed DEF Timed
  <2>4. CASE OnData(r) \/ ChildWrites(r)
    BY <1>1, <2>4 DEF OnData, ChildWrites, Timed
  <2>5. CASE ChildExits(r)
    <3>1. child' = [child EXCEPT ![r] = "gone"] /\ UNCHANGED <<promise, timer>>
      BY <2>5 DEF ChildExits
    <3>2. child'[r] # "running" /\ \A q \in Runs \ {r} : child'[q] = child[q]
      BY <1>1, <3>1 DEF TypeOK
    <3> QED BY <1>1, <3>1, <3>2 DEF Timed
  <2> QED BY <2>1, <2>2, <2>3, <2>4, <2>5 DEF Runtime, Child, Callbacks
<1>3. \A q \in Runs : Timed(q)'
  BY <1>2 DEF Watch, Timed
<1>4. Launched'
  <2>1. \A q \in Runs : \/ promise'[q] = promise[q]
                        \/ promise[q] = "pending" /\ promise'[q] = "resolved"
    BY <1>2
  <2>2. Lexical \in Runs /\ wanted \subseteq Runs
    BY RunsAre DEF IInv, TypeOK
  <2> QED BY <1>1, <2>1, <2>2 DEF Watch, Launched, gatherVars
<1> QED BY <1>3, <1>4 DEF Watch

LEMMA WatchInit == Init => Watch
BY RunsAre DEF Init, SpawnInit, Watch, Timed, Launched

LEMMA WatchStep == IInv /\ Watch /\ [Next]_vars => Watch'
<1> SUFFICES ASSUME IInv, Watch, [Next]_vars PROVE Watch'
  OBVIOUS
<1>1. CASE UNCHANGED vars
  BY <1>1 DEF Watch, Timed, Launched, vars, spawnVars
<1>2. CASE AllAnswered \/ OneRejected
  BY <1>2 DEF AllAnswered, OneRejected, Watch, Timed, Launched, spawnVars
<1> QED BY <1>1, <1>2, GatherWatch, UseIndexWatch, RunWatch DEF Next, Loop

LEMMA WatchInvariant == Spec => []Watch
<1>1. Spec => [](IInv /\ Watch)
  BY InitInv, StepInv, WatchInit, WatchStep, PTL DEF Spec
<1> QED BY <1>1, PTL

(* No process and no promise of runWsl is without its timer (src/wsl.ts):  *)
(* a child that runs can still be killed by the timer of its call, and an  *)
(* open promise can still be settled by it. What of NoProcessLeft does not *)
(* depend on fairness.                                                     *)
THEOREM ChildrenAreTimed ==
  Spec => [](\A r \in Runs : promise[r] = "pending" \/ child[r] = "running" => timer[r] = "armed")
<1>1. Watch => \A r \in Runs : promise[r] = "pending" \/ child[r] = "running" => timer[r] = "armed"
  BY DEF Watch, Timed
<1> QED BY <1>1, WatchInvariant, PTL

(* The gathering never waits for nothing: while it waits, the promise it   *)
(* waits for is settled already, or one of them has a timer that will fire.*)
(* What of GatheringEnds does not depend on fairness.                      *)
THEOREM GatheringIsTimed ==
  Spec => [](/\ stage = "lexical" => promise[Lexical] = "resolved" \/ timer[Lexical] = "armed"
             /\ stage = "lanes" =>
                  \/ \A l \in wanted : promise[l] = "resolved"
                  \/ \E l \in wanted : promise[l] = "rejected" \/ timer[l] = "armed")
<1> DEFINE Waits ==
      /\ stage = "lexical" => promise[Lexical] = "resolved" \/ timer[Lexical] = "armed"
      /\ stage = "lanes" =>
           \/ \A l \in wanted : promise[l] = "resolved"
           \/ \E l \in wanted : promise[l] = "rejected" \/ timer[l] = "armed"
<1>1. IInv /\ Watch => Waits
  <2> SUFFICES ASSUME IInv, Watch PROVE Waits
    OBVIOUS
  <2>1. Lexical \in Runs /\ wanted \subseteq Runs
    BY RunsAre DEF IInv, TypeOK
  <2>2. \A r \in Runs : /\ promise[r] \in {"none", "pending", "resolved", "rejected"}
                        /\ promise[r] = "pending" => timer[r] = "armed"
    BY DEF IInv, TypeOK, Watch, Timed
  <2> QED BY <2>1, <2>2 DEF Watch, Launched
<1> QED BY <1>1, LanesInvariant, WatchInvariant, PTL

-----------------------------------------------------------------------------
(* Recall. A set of naturals has a least one: induction without an         *)
(* operator for what is shown.                                             *)
LEMMA LeastNatural ==
  ASSUME NEW T \in SUBSET Nat, T # {}
  PROVE  \E n \in T : \A m \in T : n <= m
<1> DEFINE R == OpToRel(<, Nat)
<1>1. IsWellFoundedOn(R, Nat)
  BY NatLessThanWellFounded
<1>2. PICK n \in T : \A m \in T : <<m, n>> \notin R
  <2> HIDE DEF R
  <2> QED BY <1>1, WFMin
<1>3. ASSUME NEW m \in T, m < n PROVE FALSE
  BY <1>2, <1>3 DEF OpToRel
<1>4. n \in Nat /\ \A m \in T : m \in Nat
  OBVIOUS
<1>5. QED BY <1>3, <1>4

-----------------------------------------------------------------------------
(* Types of the operators of the fusion.                                   *)
LEMMA RowFields ==
  ASSUME NEW row \in Rows
  PROVE  /\ row \in RowType
         /\ row.lane \in LaneNames /\ row.source \in Sources
         /\ {row.path, row.title, row.excerpt} \subseteq Texts
         /\ row.strength \in Nat /\ row.matched \subseteq Words
         /\ row.in \in [Fields -> SUBSET Words]
         /\ {row.exact, row.weighty, row.archived, row.superseded} \subseteq BOOLEAN
BY RecallAssumption DEF RowType

LEMMA MatchedType ==
  ASSUME NEW row \in Rows, NEW terms \in SUBSET Words
  PROVE  Matched(row, terms) \subseteq Words /\ Cardinality(Matched(row, terms)) \in Nat
<1>1. Matched(row, terms) \subseteq Words
  BY RowFields DEF Matched, Hits
<1>2. QED BY <1>1, RecallAssumption, FS_Subset, FS_CardinalityType

LEMMA CoverageType ==
  ASSUME NEW row \in Rows, NEW terms \in SUBSET Words
  PROVE  Coverage(row, terms) \in Int
<1>1. CASE terms = {}
  BY <1>1 DEF Coverage
<1>2. CASE terms # {}
  <2>1. IsFiniteSet(terms) /\ Cardinality(terms) \in Nat
    BY RecallAssumption, FS_Subset, FS_CardinalityType
  <2>2. Cardinality(terms) > 0
    BY <1>2, <2>1, FS_EmptySet
  <2>3. Tenths(60) * Cardinality(Matched(row, terms)) \in Int
    BY MatchedType DEF Tenths
  <2>4. QED BY <1>2, <2>1, <2>2, <2>3 DEF Coverage
<1>3. QED BY <1>1, <1>2

LEMMA ScoreType ==
  ASSUME NEW row \in Rows, NEW rank \in Nat, NEW terms \in SUBSET Words, NEW technical \in BOOLEAN
  PROVE  Score(row, rank, terms, technical) \in Int
<1>1. Prior(row.source) \in Int
  BY RowFields DEF Prior, Sources, LaneNames, Tenths
<1>2. RawScore(row) \in Int
  BY RowFields DEF RawScore, LaneNames, Tenths
<1>3. (30 * Tenths(10)) \div (60 + rank) \in Int
  BY DEF Tenths
<1>4. FieldScore(row, terms) \in Int
  <2>1. \A f \in Fields : Boost(row, f, terms) \in Int
    BY DEF Boost, FieldBoost, Fields, Tenths
  <2>2. QED BY <2>1 DEF FieldScore, Fields
<1>5. Weight(row, technical) \in Int
  BY DEF Weight, Tenths
<1>6. Penalty(row) \in Int
  BY DEF Penalty, Tenths
<1> DEFINE bonus == IF row.exact THEN Tenths(20) ELSE 0
           held == IF Broad(row, terms) THEN Tenths(14) ELSE 0
<1>7. bonus \in Int /\ held \in Int
  BY DEF Tenths
<1>8. Score(row, rank, terms, technical) =
        Prior(row.source) + RawScore(row) + (30 * Tenths(10)) \div (60 + rank)
        + Coverage(row, terms) + FieldScore(row, terms) + bonus + Weight(row, technical)
        - held - Penalty(row)
  BY DEF Score
<1> HIDE DEF bonus, held
<1>9. QED BY <1>1, <1>2, <1>3, <1>4, <1>5, <1>6, <1>7, <1>8, CoverageType

LEMMA LaneCandidateType ==
  ASSUME NEW row \in Rows, NEW rank \in Nat, NEW terms \in SUBSET Words,
         NEW technical \in BOOLEAN, NEW place \in Nat
  PROVE  LaneCandidate(row, rank, terms, technical, place) \in CandidateType
<1>1. Score(row, rank, terms, technical) \in Int /\ Matched(row, terms) \subseteq Words
  BY ScoreType, MatchedType
<1>2. QED BY <1>1, RowFields DEF LaneCandidate, CandidateType

(* What mergeCandidateEvidence makes of two candidates.                    *)
LEMMA MergeGives ==
  ASSUME NEW c \in CandidateType, NEW d \in CandidateType
  PROVE  LET m == Merge(c, d)
         IN  /\ m \in CandidateType
             /\ m.score = c.score + d.score
             /\ m.exact = (c.exact \/ d.exact)
             /\ m.archived = (c.archived \/ d.archived)
             /\ m.superseded = (c.superseded \/ d.superseded)
             /\ m.sources = c.sources \union d.sources
             /\ m.matched = c.matched \union d.matched
             /\ IF d.best > c.best
                THEN /\ m.best = d.best /\ m.source = d.source
                     /\ m.title = Or(d.title, c.title) /\ m.excerpt = Or(d.excerpt, c.excerpt)
                ELSE /\ m.best = c.best /\ m.source = c.source
                     /\ m.title = c.title /\ m.excerpt = c.excerpt
<1> DEFINE e == Evidence(c, d)
           s == Shown(e, d)
<1>1. e \in CandidateType
  <2> DEFINE exact == c.exact \/ d.exact
             archived == c.archived \/ d.archived
             superseded == c.superseded \/ d.superseded
  <2>1. exact \in BOOLEAN /\ archived \in BOOLEAN /\ superseded \in BOOLEAN
    OBVIOUS
  <2>2. /\ c.score + d.score \in Int /\ c.matched \union d.matched \in SUBSET Words
        /\ c.sources \union d.sources \in SUBSET Sources /\ c.lanes \union d.lanes \in SUBSET LaneNames
    BY DEF CandidateType
  <2>3. e = [c EXCEPT !.score = c.score + d.score, !.exact = exact,
                      !.archived = archived, !.superseded = superseded,
                      !.sources = c.sources \union d.sources, !.lanes = c.lanes \union d.lanes,
                      !.matched = c.matched \union d.matched]
    BY DEF Evidence
  <2> HIDE DEF exact, archived, superseded, e
  <2>4. QED BY <2>1, <2>2, <2>3, ZenonT(60) DEF CandidateType
<1>2. /\ e.score = c.score + d.score /\ e.exact = (c.exact \/ d.exact)
      /\ e.archived = (c.archived \/ d.archived) /\ e.superseded = (c.superseded \/ d.superseded)
      /\ e.sources = c.sources \union d.sources /\ e.matched = c.matched \union d.matched
      /\ e.best = c.best /\ e.source = c.source /\ e.title = c.title /\ e.excerpt = c.excerpt
  BY DEF Evidence, CandidateType
<1> HIDE DEF e
<1>3. /\ s.score = e.score /\ s.exact = e.exact /\ s.archived = e.archived
      /\ s.superseded = e.superseded /\ s.sources = e.sources /\ s.matched = e.matched
  BY <1>1 DEF Shown, CandidateType
<1>4. /\ s.best = d.best /\ s.source = d.source
      /\ s.title = Or(d.title, e.title) /\ s.excerpt = Or(d.excerpt, e.excerpt)
  BY <1>1 DEF Shown, CandidateType
<1>5. s \in CandidateType
  <2> DEFINE title == Or(d.title, e.title)
             excerpt == Or(d.excerpt, e.excerpt)
  <2>1. title \in Texts /\ excerpt \in Texts
    BY <1>1 DEF Or, CandidateType
  <2>2. s = [e EXCEPT !.best = d.best, !.source = d.source, !.title = title, !.excerpt = excerpt]
    BY DEF Shown
  <2>3. d.best \in Int /\ d.source \in Sources
    BY DEF CandidateType
  <2> HIDE DEF title, excerpt, s
  <2>4. QED BY <1>1, <2>1, <2>2, <2>3 DEF CandidateType
<1>6. Merge(c, d) = IF d.best > c.best THEN s ELSE e
  BY DEF Merge, e
<1> HIDE DEF s
<1>7. QED BY <1>1, <1>2, <1>3, <1>4, <1>5, <1>6

-----------------------------------------------------------------------------
(* The canon index: what Chosen takes from it.                             *)
Picks(f, fitting, most, N) ==
  f = [n \in 0 .. N |->
        IF n = 0 THEN <<>>
        ELSE IF Entries[n] \in fitting /\ Len(f[n - 1]) < most
             THEN Append(f[n - 1], Entries[n])
             ELSE f[n - 1]]

UpTo(n) == {Entries[i] : i \in 1 .. n}

(* A selection of the first n entries.                                     *)
Selects(s, fitting, most, n) ==
  /\ s \in Seq(Range(Entries)) /\ IsInjective(s) /\ Len(s) <= n
  /\ Range(s) \subseteq fitting \intersect UpTo(n)
  /\ most >= n => Range(s) = fitting \intersect UpTo(n)

LEMMA EntriesTyped ==
  /\ Entries \in Seq(Range(Entries)) /\ Len(Entries) \in Nat
  /\ \A i \in 1 .. Len(Entries) : Entries[i] \in Range(Entries)
  /\ \A i, j \in 1 .. Len(Entries) : Entries[i] = Entries[j] => i = j
  /\ UpTo(Len(Entries)) = Range(Entries)
BY RecallAssumption DEF IsInjective, UpTo, Range

LEMMA RangeAppend ==
  ASSUME NEW S, NEW s \in Seq(S), NEW e
  PROVE  /\ Range(Append(s, e)) = Range(s) \union {e}
         /\ IsInjective(s) /\ e \notin Range(s) => IsInjective(Append(s, e))
<1>1. /\ DOMAIN s = 1 .. Len(s) /\ Len(s) \in Nat
      /\ DOMAIN Append(s, e) = 1 .. Len(s) + 1 /\ Append(s, e)[Len(s) + 1] = e
      /\ \A i \in 1 .. Len(s) : Append(s, e)[i] = s[i]
  OBVIOUS
<1>2. DOMAIN Append(s, e) = DOMAIN s \union {Len(s) + 1}
  BY <1>1
<1>3. Range(Append(s, e)) = Range(s) \union {e}
  BY <1>1, <1>2 DEF Range
<1>4. ASSUME IsInjective(s), e \notin Range(s) PROVE IsInjective(Append(s, e))
  BY <1>1, <1>2, <1>4 DEF IsInjective, Range
<1>5. QED BY <1>3, <1>4

LEMMA PicksStep ==
  ASSUME NEW f, NEW fitting, NEW most \in Nat, NEW N \in 0 .. Len(Entries), Picks(f, fitting, most, N),
         NEW n \in 1 .. N, Selects(f[n - 1], fitting, most, n - 1)
  PROVE  Selects(f[n], fitting, most, n)
<1> DEFINE s == f[n - 1]
<1>1. n - 1 \in Nat /\ n \in 0 .. N /\ n # 0 /\ n \in 1 .. Len(Entries)
  BY EntriesTyped
<1>2. f[n] = IF Entries[n] \in fitting /\ Len(s) < most THEN Append(s, Entries[n]) ELSE s
  BY <1>1 DEF Picks
<1>3. UpTo(n) = UpTo(n - 1) \union {Entries[n]} /\ Entries[n] \notin UpTo(n - 1)
  <2>1. 1 .. n = 1 .. (n - 1) \union {n} /\ n \notin 1 .. (n - 1)
    BY <1>1
  <2>2. UpTo(n) = UpTo(n - 1) \union {Entries[n]}
    BY <2>1 DEF UpTo
  <2>3. ASSUME Entries[n] \in UpTo(n - 1) PROVE FALSE
    <3>1. PICK i \in 1 .. (n - 1) : Entries[i] = Entries[n]
      BY <2>3 DEF UpTo
    <3>2. i \in 1 .. Len(Entries) /\ i # n
      BY <1>1, <2>1, <3>1, EntriesTyped
    <3>3. QED BY <1>1, <3>1, <3>2, EntriesTyped
  <2>4. QED BY <2>2, <2>3
<1> HIDE DEF s
<1>4. Entries[n] \in Range(Entries)
  BY <1>1, EntriesTyped
<1>5. /\ s \in Seq(Range(Entries)) /\ IsInjective(s) /\ Len(s) \in Nat /\ Len(s) <= n - 1
      /\ Range(s) \subseteq fitting \intersect UpTo(n - 1)
      /\ most >= n - 1 => Range(s) = fitting \intersect UpTo(n - 1)
  BY DEF Selects, s
<1>6. CASE Entries[n] \in fitting /\ Len(s) < most
  <2>1. f[n] = Append(s, Entries[n]) /\ Len(f[n]) = Len(s) + 1 /\ f[n] \in Seq(Range(Entries))
    BY <1>2, <1>4, <1>5, <1>6
  <2>2. Range(f[n]) = Range(s) \union {Entries[n]} /\ IsInjective(f[n])
    BY <1>3, <1>5, <2>1, RangeAppend
  <2>3. Len(f[n]) <= n
    BY <1>1, <1>5, <2>1
  <2>4. Range(f[n]) \subseteq fitting \intersect UpTo(n)
    BY <1>3, <1>5, <1>6, <2>2
  <2>5. ASSUME most >= n PROVE Range(f[n]) = fitting \intersect UpTo(n)
    BY <1>1, <1>3, <1>5, <1>6, <2>2, <2>5
  <2>6. QED BY <2>1, <2>2, <2>3, <2>4, <2>5 DEF Selects
<1>7. CASE ~(Entries[n] \in fitting /\ Len(s) < most)
  <2>1. f[n] = s
    BY <1>2, <1>7
  <2>2. ASSUME most >= n PROVE Range(s) = fitting \intersect UpTo(n)
    <3>1. Len(s) < most /\ most >= n - 1
      BY <1>1, <1>5, <2>2
    <3>2. QED BY <1>3, <1>5, <1>7, <3>1
  <2>3. Len(s) <= n
    BY <1>1, <1>5
  <2>4. QED BY <1>3, <1>5, <2>1, <2>2, <2>3 DEF Selects
<1>8. QED BY <1>6, <1>7

LEMMA PicksSelect ==
  ASSUME NEW f, NEW fitting, NEW most \in Nat, NEW N \in 0 .. Len(Entries), Picks(f, fitting, most, N)
  PROVE  \A n \in 0 .. N : Selects(f[n], fitting, most, n)
<1> DEFINE T == {n \in 0 .. N : ~Selects(f[n], fitting, most, n)}
<1>1. SUFFICES ASSUME T # {} PROVE FALSE
  OBVIOUS
<1>2. PICK n \in T : \A m \in T : n <= m
  <2>1. T \in SUBSET Nat
    OBVIOUS
  <2> HIDE DEF T
  <2>2. QED BY <1>1, <2>1, LeastNatural
<1>3. n \in 0 .. N /\ ~Selects(f[n], fitting, most, n)
  BY <1>2
<1>4. CASE n = 0
  <2>1. f[0] = <<>>
    BY <1>3, <1>4 DEF Picks
  <2>2. UpTo(0) = {}
    BY DEF UpTo
  <2>3. Selects(<<>>, fitting, most, 0)
    BY <2>2 DEF Selects, IsInjective, Range
  <2>4. QED BY <1>3, <1>4, <2>1, <2>3
<1>5. CASE n # 0
  <2>1. n \in 1 .. N /\ n - 1 \in 0 .. N /\ n - 1 < n
    BY <1>3, <1>5
  <2>2. Selects(f[n - 1], fitting, most, n - 1)
    BY <1>2, <2>1
  <2>3. QED BY <1>3, <2>1, <2>2, PicksStep
<1>6. QED BY <1>4, <1>5

LEMMA PicksExist ==
  ASSUME NEW fitting, NEW most \in Nat
  PROVE  \A N \in Nat : \E f : Picks(f, fitting, most, N)
<1> DEFINE T == {N \in Nat : ~\E f : Picks(f, fitting, most, N)}
<1>1. SUFFICES ASSUME T # {} PROVE FALSE
  OBVIOUS
<1>2. PICK N \in T : \A m \in T : N <= m
  <2>1. T \in SUBSET Nat
    OBVIOUS
  <2> HIDE DEF T
  <2>2. QED BY <1>1, <2>1, LeastNatural
<1>3. CASE N = 0
  <2>1. Picks([n \in 0 .. 0 |-> <<>>], fitting, most, 0)
    BY DEF Picks
  <2>2. QED BY <1>2, <1>3, <2>1
<1>4. CASE N # 0
  <2>1. N \in Nat /\ N - 1 \in Nat /\ N - 1 < N
    BY <1>2, <1>4
  <2>2. PICK f : Picks(f, fitting, most, N - 1)
    BY <1>2, <2>1
  <2> DEFINE next == IF Entries[N] \in fitting /\ Len(f[N - 1]) < most
                     THEN Append(f[N - 1], Entries[N])
                     ELSE f[N - 1]
             g == [n \in 0 .. N |-> IF n = N THEN next ELSE f[n]]
  <2>3. /\ DOMAIN g = 0 .. N /\ g = [n \in 0 .. N |-> g[n]] /\ g[N] = next
        /\ \A n \in 0 .. (N - 1) : g[n] = f[n]
    BY <2>1
  <2>4. \A n \in 0 .. (N - 1) :
          f[n] = IF n = 0 THEN <<>>
                 ELSE IF Entries[n] \in fitting /\ Len(f[n - 1]) < most
                      THEN Append(f[n - 1], Entries[n])
                      ELSE f[n - 1]
    BY <2>2 DEF Picks
  <2> HIDE DEF g
  <2>5. ASSUME NEW n \in 0 .. N
        PROVE  g[n] = IF n = 0 THEN <<>>
                      ELSE IF Entries[n] \in fitting /\ Len(g[n - 1]) < most
                           THEN Append(g[n - 1], Entries[n])
                           ELSE g[n - 1]
    <3>1. CASE n = N
      <4>1. N - 1 \in 0 .. (N - 1)
        BY <2>1
      <4>2. g[N - 1] = f[N - 1]
        BY <2>3, <4>1
      <4>3. QED BY <1>4, <2>3, <3>1, <4>2
    <3>2. CASE n # N
      <4>1. n \in 0 .. (N - 1) /\ (n # 0 => n - 1 \in 0 .. (N - 1))
        BY <2>1, <3>2
      <4>2. g[n] = f[n] /\ (n # 0 => g[n - 1] = f[n - 1])
        BY <2>3, <4>1
      <4>3. QED BY <2>4, <4>1, <4>2
    <3>3. QED BY <3>1, <3>2
  <2>6. Picks(g, fitting, most, N)
    BY <2>3, <2>5 DEF Picks
  <2>7. QED BY <1>2, <2>6
<1>5. QED BY <1>3, <1>4

(* The first of the entries that fit, each once; all of them when there    *)
(* may be as many as there are entries.                                    *)
LEMMA ChosenGives ==
  ASSUME NEW fitting, NEW most \in Nat
  PROVE  LET s == Chosen(fitting, most)
         IN  /\ s \in Seq(Range(Entries)) /\ IsInjective(s)
             /\ Range(s) \subseteq fitting \intersect Range(Entries)
             /\ most >= Len(Entries) => Range(s) = fitting \intersect Range(Entries)
<1> DEFINE N == Len(Entries)
           pick == CHOOSE f : Picks(f, fitting, most, N)
<1>1. N \in Nat /\ N \in 0 .. N
  BY EntriesTyped
<1>2. Picks(pick, fitting, most, N)
  BY <1>1, PicksExist
<1>3. Chosen(fitting, most) = pick[N]
  BY DEF Chosen, Picks
<1> HIDE DEF pick
<1>4. Selects(pick[N], fitting, most, N)
  BY <1>1, <1>2, PicksSelect
<1>5. QED BY <1>3, <1>4, EntriesTyped DEF Selects

-----------------------------------------------------------------------------
(* Types of a state, and which parts are empty in which phase.             *)
Phased ==
  /\ phase = "idle" => taken = <<>> /\ DOMAIN merged = {}
  /\ phase \in {"idle", "gathering"} => kept = <<>> /\ pool = {}

Typed == RecallTypeOK /\ IsFiniteSet(DOMAIN merged) /\ Phased

LEMMA OptionFields ==
  ASSUME options \in OptionType
  PROVE  /\ options.terms \in SUBSET Words /\ options.technical \in BOOLEAN
         /\ options.lanes \in SUBSET LaneNames /\ options.rows \in SUBSET Rows
         /\ {options.perPath, options.perSource, options.results} \subseteq Nat
BY DEF OptionType

LEMMA RankTyped ==
  ASSUME NEW lane, taken \in Seq(Rows)
  PROVE  RankIn(lane) \in Nat
<1> DEFINE S == {i \in DOMAIN taken : taken[i].lane = lane}
<1>1. IsFiniteSet(1 .. Len(taken)) /\ S \subseteq 1 .. Len(taken)
  BY FS_Interval
<1>2. Cardinality(S) \in Nat
  BY <1>1, FS_Subset, FS_CardinalityType
<1>3. QED BY <1>2 DEF RankIn

LEMMA ResultsTyped ==
  ASSUME RecallTypeOK
  PROVE  /\ Results \in Seq(DOMAIN merged)
         /\ Len(Results) = IF Len(kept) <= options.results THEN Len(kept) ELSE options.results
         /\ \A i \in 1 .. Len(Results) : i \in 1 .. Len(kept) /\ Results[i] = kept[i]
<1>1. kept \in Seq(DOMAIN merged) /\ Len(kept) \in Nat /\ options.results \in Nat
  BY OptionFields DEF RecallTypeOK
<1>2. CASE Len(kept) <= options.results
  BY <1>1, <1>2 DEF Results
<1>3. CASE Len(kept) > options.results
  <2> DEFINE n == options.results
  <2>1. \A i \in 1 .. n : kept[i] \in DOMAIN merged
    BY <1>1, <1>3
  <2>2. 1 \in 1 .. Len(kept) + 1 /\ n \in 0 .. Len(kept)
    BY <1>1, <1>3
  <2>3. /\ SubSeq(kept, 1, n) \in Seq(DOMAIN merged)
        /\ Len(SubSeq(kept, 1, n)) = IF 1 <= n THEN n - 1 + 1 ELSE 0
        /\ \A i \in 1 .. n - 1 + 1 : SubSeq(kept, 1, n)[i] = kept[1 + i - 1]
    BY <1>1, <1>3, <2>1, <2>2, SubSeqProperties
  <2>4. Results = SubSeq(kept, 1, n)
    BY <1>1, <1>3 DEF Results
  <2>5. QED BY <1>1, <1>3, <2>3, <2>4
<1>4. QED BY <1>1, <1>2, <1>3

LEMMA TypedInit == RecallInit => Typed
<1>1. SUFFICES ASSUME RecallInit PROVE Typed
  OBVIOUS
<1>2. NoOptions \in OptionType
  BY RecallAssumption DEF NoOptions, OptionType
<1>3. DOMAIN merged = {} /\ IsFiniteSet(DOMAIN merged)
  BY <1>1, FS_EmptySet DEF RecallInit
<1>4. QED BY <1>1, <1>2, <1>3, RecallAssumption DEF RecallInit, Typed, RecallTypeOK, Phased

LEMMA AskTyped ==
  ASSUME Typed, NEW r \in Requests, Ask(r), phase' \in {"refused", "fetched"}, UNCHANGED options
  PROVE  Typed'
BY DEF Typed, Ask, RecallTypeOK, Phased

LEMMA RouteTyped ==
  ASSUME Typed, NEW r \in Requests, Route(r)
  PROVE  Typed'
<1>1. PICK rows \in {Rows, JsonRows} : options' = RecallOptions(r, rows)
  BY DEF Route
<1>2. RecallLanes(r.query) \subseteq LaneNames
  BY DEF RecallLanes, LaneNames
<1>3. RecallOptions(r, rows) \in OptionType
  BY <1>2, RecallAssumption DEF RecallOptions, OptionType, JsonRows
<1>4. QED BY <1>1, <1>3 DEF Route, Typed, Ask, RecallTypeOK, Phased

LEMMA FuseTyped ==
  ASSUME Typed, NEW call \in Calls, Fuse(call)
  PROVE  Typed'
BY RecallAssumption DEF Fuse, Typed, RecallTypeOK, Phased

(* A row that is taken becomes, or goes into, the candidate of its key.    *)
LEMMA TakeRowGives ==
  ASSUME Typed, NEW row \in Rows, TakeRow(row)
  PROVE  LET k == Key(row)
             c == LaneCandidate(row, RankIn(row.lane), options.terms, options.technical,
                                Cardinality(DOMAIN merged))
         IN  /\ c \in CandidateType
             /\ DOMAIN merged' = DOMAIN merged \union {k}
             /\ merged' = [j \in DOMAIN merged' |-> merged'[j]]
             /\ \A j \in DOMAIN merged \ {k} : merged'[j] = merged[j]
             /\ merged'[k] = IF k \in DOMAIN merged THEN Merge(merged[k], c) ELSE c
             /\ \A j \in DOMAIN merged' : merged'[j] \in CandidateType
<1> DEFINE k == Key(row)
           c == LaneCandidate(row, RankIn(row.lane), options.terms, options.technical,
                              Cardinality(DOMAIN merged))
<1>1. c \in CandidateType
  <2>1. RankIn(row.lane) \in Nat /\ Cardinality(DOMAIN merged) \in Nat
    BY RankTyped, FS_CardinalityType DEF Typed, RecallTypeOK
  <2>2. QED BY <2>1, OptionFields, LaneCandidateType DEF Typed, RecallTypeOK
<1> HIDE DEF c
<1>2. merged' = [j \in DOMAIN merged \union {k} |->
         CASE j # k -> merged[j]
           [] j = k /\ k \in DOMAIN merged -> Merge(merged[k], c)
           [] j = k /\ k \notin DOMAIN merged -> c]
  BY DEF TakeRow, c
<1> HIDE DEF k
<1>3. /\ DOMAIN merged' = DOMAIN merged \union {k}
      /\ merged' = [j \in DOMAIN merged' |-> merged'[j]]
      /\ \A j \in DOMAIN merged \ {k} : merged'[j] = merged[j]
      /\ merged'[k] = IF k \in DOMAIN merged THEN Merge(merged[k], c) ELSE c
  BY <1>2
<1>4. merged'[k] \in CandidateType
  BY <1>1, <1>3, MergeGives DEF Typed, RecallTypeOK
<1>5. \A j \in DOMAIN merged' : merged'[j] \in CandidateType
  BY <1>3, <1>4 DEF Typed, RecallTypeOK
<1>6. QED BY <1>1, <1>3, <1>5 DEF c, k

LEMMA TakeRowTyped ==
  ASSUME Typed, NEW row \in Rows, TakeRow(row)
  PROVE  Typed'
<1>1. /\ DOMAIN merged' = DOMAIN merged \union {Key(row)}
      /\ merged' = [j \in DOMAIN merged' |-> merged'[j]]
      /\ \A j \in DOMAIN merged' : merged'[j] \in CandidateType
  BY TakeRowGives
<1>2. IsFiniteSet(DOMAIN merged')
  BY <1>1, FS_AddElement DEF Typed
<1>3. taken' \in Seq(Rows) /\ Len(taken') <= MaxRows
  BY RecallAssumption DEF TakeRow, Typed, RecallTypeOK
<1>4. /\ phase' = "gathering" /\ phase = "gathering"
      /\ UNCHANGED <<phase, request, options, pool, kept, canon>>
  BY DEF TakeRow
<1>5. pool' = {} /\ kept' = <<>>
  BY <1>4 DEF Typed, Phased
<1>6. QED BY <1>1, <1>2, <1>3, <1>4, <1>5 DEF Typed, RecallTypeOK, Phased

LEMMA EndRowsTyped ==
  ASSUME Typed, EndRows
  PROVE  Typed'
BY DEF EndRows, Typed, RecallTypeOK, Phased

LEMMA ConsiderTyped ==
  ASSUME Typed, NEW k \in pool, Consider(k)
  PROVE  Typed'
<1>1. k \in DOMAIN merged /\ kept \in Seq(DOMAIN merged)
  BY DEF Typed, RecallTypeOK
<1>2. kept' \in {kept, Append(kept, k)} /\ pool' = pool \ {k}
  BY DEF Consider
<1>3. kept' \in Seq(DOMAIN merged)
  BY <1>1, <1>2
<1>4. phase = "ranking" /\ UNCHANGED <<phase, request, options, taken, merged, canon>>
  BY DEF Consider
<1>5. QED BY <1>2, <1>3, <1>4 DEF Typed, RecallTypeOK, Phased

LEMMA NamedGives ==
  ASSUME NEW r
  PROVE  /\ NamedEntries(r) \in Seq(Range(Entries)) /\ IsInjective(NamedEntries(r))
         /\ Range(NamedEntries(r)) \subseteq Range(Entries)
BY ChosenGives, RecallAssumption DEF NamedEntries

LEMMA PointedGives ==
  ASSUME NEW paths, NEW names
  PROVE  LET s == Pointed(paths, names)
         IN  /\ s \in Seq(Range(Entries)) /\ IsInjective(s)
             /\ Range(s) = {e \in Range(Entries) \ names :
                             FilesOf[e] \intersect WithStripped(paths) # {}}
<1> DEFINE fitting == {e \in Range(Entries) \ names : FilesOf[e] \intersect WithStripped(paths) # {}}
<1>1. Len(Entries) \in Nat /\ Pointed(paths, names) = Chosen(fitting, Len(Entries))
  BY EntriesTyped DEF Pointed
<1>2. fitting \intersect Range(Entries) = fitting
  OBVIOUS
<1> HIDE DEF fitting
<1>3. QED BY <1>1, <1>2, ChosenGives DEF fitting

LEMMA AnswerTyped ==
  ASSUME Typed, Answer
  PROVE  Typed'
<1>1. kept' \in Seq(DOMAIN merged)
  BY ResultsTyped DEF Answer, Typed
<1>2. canon' \in Seq(Range(Entries))
  BY NamedGives, PointedGives DEF Answer
<1>3. phase' = "answered" /\ UNCHANGED <<request, options, taken, merged, pool>>
  BY DEF Answer
<1>4. QED BY <1>1, <1>2, <1>3 DEF Typed, RecallTypeOK, Phased

LEMMA TypedStep ==
  ASSUME Typed, [RecallNext]_recallVars
  PROVE  Typed'
<1>1. CASE UNCHANGED recallVars
  BY <1>1 DEF recallVars, Typed, RecallTypeOK, Phased
<1>2. ASSUME NEW r \in Requests, Refuse(r) \/ Fetch(r) \/ Anamnesis(r) PROVE Typed'
  BY <1>2, AskTyped DEF Refuse, Fetch, Anamnesis
<1>3. ASSUME NEW r \in Requests, Route(r) PROVE Typed'
  BY <1>3, RouteTyped
<1>4. ASSUME NEW call \in Calls, Fuse(call) PROVE Typed'
  BY <1>4, FuseTyped
<1>5. ASSUME NEW row \in Rows, TakeRow(row) PROVE Typed'
  BY <1>5, TakeRowTyped
<1>6. CASE EndRows
  BY <1>6, EndRowsTyped
<1>7. CASE Answer
  BY <1>7, AnswerTyped
<1>8. ASSUME NEW k \in pool, Consider(k) PROVE Typed'
  BY <1>8, ConsiderTyped
<1>9. QED BY <1>1, <1>2, <1>3, <1>4, <1>5, <1>6, <1>7, <1>8 DEF RecallNext

LEMMA RecallTyped == RecallSpec => []Typed
<1>1. Typed /\ [RecallNext]_recallVars => Typed'
  BY TypedStep
<1>2. QED BY <1>1, TypedInit, PTL DEF RecallSpec

(* Whatever rows the lanes answer, recall's state is of its types.         *)
THEOREM RecallTypeCorrect == RecallSpec => []RecallTypeOK
<1>1. Typed => RecallTypeOK
  BY DEF Typed
<1>2. QED BY <1>1, RecallTyped, PTL

-----------------------------------------------------------------------------
(* A candidate carries the flags, the sources and the words of its rows.   *)
Rowset(k) == {taken[i] : i \in RowsOf(k)}

Carries(c, rows, terms) ==
  /\ c.archived <=> \E r \in rows : r.archived
  /\ c.superseded <=> \E r \in rows : r.superseded
  /\ c.exact <=> \E r \in rows : r.exact
  /\ c.sources = {r.source : r \in rows}
  /\ c.matched = UNION {Matched(r, terms) : r \in rows}

LEMMA EvidenceIs ==
  EvidenceKept <=> /\ DOMAIN merged = {Key(taken[i]) : i \in DOMAIN taken}
                   /\ \A k \in DOMAIN merged : Carries(merged[k], Rowset(k), options.terms)
BY DEF EvidenceKept, Carries, Rowset

LEMMA CarriesOne ==
  ASSUME NEW row \in Rows, NEW rank, NEW terms, NEW technical, NEW place
  PROVE  Carries(LaneCandidate(row, rank, terms, technical, place), {row}, terms)
BY DEF Carries, LaneCandidate

LEMMA CarriesMore ==
  ASSUME NEW c \in CandidateType, NEW d \in CandidateType, NEW rows, NEW row, NEW terms,
         Carries(c, rows, terms), Carries(d, {row}, terms)
  PROVE  Carries(Merge(c, d), rows \union {row}, terms)
<1> DEFINE m == Merge(c, d)
<1>1. /\ m.exact = (c.exact \/ d.exact) /\ m.archived = (c.archived \/ d.archived)
      /\ m.superseded = (c.superseded \/ d.superseded)
      /\ m.sources = c.sources \union d.sources /\ m.matched = c.matched \union d.matched
  BY MergeGives
<1> HIDE DEF m
<1>2. m.archived <=> \E r \in rows \union {row} : r.archived
  BY <1>1 DEF Carries
<1>3. m.superseded <=> \E r \in rows \union {row} : r.superseded
  BY <1>1 DEF Carries
<1>4. m.exact <=> \E r \in rows \union {row} : r.exact
  BY <1>1 DEF Carries
<1>5. m.sources = {r.source : r \in rows \union {row}}
  BY <1>1 DEF Carries
<1>6. m.matched = UNION {Matched(r, terms) : r \in rows \union {row}}
  BY <1>1 DEF Carries
<1>7. QED BY <1>2, <1>3, <1>4, <1>5, <1>6 DEF Carries, m

(* The rows of a step that takes one.                                      *)
LEMMA TakenGives ==
  ASSUME Typed, NEW row \in Rows, TakeRow(row)
  PROVE  LET n == Len(taken) + 1
         IN  /\ Len(taken) \in Nat /\ n \in Nat /\ Len(taken') = n
             /\ DOMAIN taken = 1 .. Len(taken) /\ DOMAIN taken' = 1 .. n
             /\ taken'[n] = row /\ \A i \in 1 .. Len(taken) : taken'[i] = taken[i]
             /\ RowsOf(Key(row))' = RowsOf(Key(row)) \union {n}
             /\ \A k : k # Key(row) => RowsOf(k)' = RowsOf(k)
             /\ UNCHANGED options
<1> DEFINE n == Len(taken) + 1
<1>1. /\ Len(taken) \in Nat /\ n \in Nat /\ Len(taken') = n
      /\ DOMAIN taken = 1 .. Len(taken) /\ DOMAIN taken' = 1 .. n
      /\ taken'[n] = row /\ \A i \in 1 .. Len(taken) : taken'[i] = taken[i]
  BY DEF TakeRow, Typed, RecallTypeOK
<1>2. DOMAIN taken' = DOMAIN taken \union {n} /\ n \notin DOMAIN taken
  BY <1>1
<1> HIDE DEF n
<1>3. ASSUME NEW k, k = Key(row) PROVE RowsOf(k)' = RowsOf(k) \union {n}
  <2>1. Key(taken'[n]) = k /\ \A i \in DOMAIN taken : Key(taken'[i]) = Key(taken[i])
    BY <1>1, <1>3
  <2>2. QED BY <1>2, <2>1 DEF RowsOf
<1>4. ASSUME NEW k, k # Key(row) PROVE RowsOf(k)' = RowsOf(k)
  BY <1>1, <1>2, <1>4 DEF RowsOf
<1>5. QED BY <1>1, <1>3, <1>4 DEF TakeRow, n

LEMMA TakeRowEvidence ==
  ASSUME Typed, EvidenceKept, NEW row \in Rows, TakeRow(row)
  PROVE  EvidenceKept'
<1> DEFINE n == Len(taken) + 1
           key == Key(row)
           c == LaneCandidate(row, RankIn(row.lane), options.terms, options.technical,
                              Cardinality(DOMAIN merged))
<1>1. /\ Len(taken) \in Nat /\ DOMAIN taken = 1 .. Len(taken) /\ DOMAIN taken' = 1 .. n
      /\ taken'[n] = row /\ \A i \in 1 .. Len(taken) : taken'[i] = taken[i]
      /\ RowsOf(key)' = RowsOf(key) \union {n}
      /\ \A k : k # key => RowsOf(k)' = RowsOf(k)
      /\ options' = options
  BY TakenGives
<1>2. /\ c \in CandidateType
      /\ DOMAIN merged' = DOMAIN merged \union {key}
      /\ \A j \in DOMAIN merged \ {key} : merged'[j] = merged[j]
      /\ merged'[key] = IF key \in DOMAIN merged THEN Merge(merged[key], c) ELSE c
  BY TakeRowGives
<1>3. Carries(c, {row}, options.terms)
  BY CarriesOne
<1>4. /\ DOMAIN merged = {Key(taken[i]) : i \in DOMAIN taken}
      /\ \A k \in DOMAIN merged : merged[k] \in CandidateType /\ Carries(merged[k], Rowset(k), options.terms)
  BY EvidenceIs DEF Typed, RecallTypeOK
<1> HIDE DEF c, key, n
<1>5. DOMAIN taken' = DOMAIN taken \union {n}
  BY <1>1 DEF n
<1>6. DOMAIN merged' = {Key(taken'[i]) : i \in DOMAIN taken'}
  <2>1. Key(taken'[n]) = key /\ \A i \in DOMAIN taken : Key(taken'[i]) = Key(taken[i])
    BY <1>1 DEF key
  <2>2. QED BY <1>2, <1>4, <1>5, <2>1
<1>7. \A k : RowsOf(k) \subseteq 1 .. Len(taken)
  BY <1>1 DEF RowsOf
<1>8. Rowset(key)' = Rowset(key) \union {row}
  BY <1>1, <1>7 DEF Rowset
<1>9. \A k : k # key => Rowset(k)' = Rowset(k)
  BY <1>1, <1>7 DEF Rowset
<1>10. ASSUME NEW k \in DOMAIN merged'
       PROVE  Carries(merged'[k], Rowset(k)', options.terms)
  <2>1. CASE k # key
    <3>1. k \in DOMAIN merged /\ merged'[k] = merged[k] /\ Rowset(k)' = Rowset(k)
      BY <1>2, <1>9, <2>1
    <3>2. QED BY <1>4, <3>1
  <2>2. CASE k = key
    <3>1. CASE key \in DOMAIN merged
      <4>1. Carries(Merge(merged[key], c), Rowset(key) \union {row}, options.terms)
        BY <1>2, <1>3, <1>4, <3>1, CarriesMore
      <4>2. QED BY <1>2, <1>8, <2>2, <3>1, <4>1
    <3>2. CASE key \notin DOMAIN merged
      <4>1. Rowset(key) = {}
        BY <1>4, <3>2 DEF Rowset, RowsOf
      <4>2. Rowset(key)' = {row}
        BY <1>8, <4>1
      <4>3. QED BY <1>1, <1>2, <1>3, <2>2, <3>2, <4>2
    <3>3. QED BY <3>1, <3>2
  <2>3. QED BY <2>1, <2>2
<1>11. QED BY <1>1, <1>6, <1>10 DEF EvidenceKept, Carries, Rowset

(* Every other step leaves the rows and the candidates as they are.        *)
LEMMA OtherSteps ==
  ASSUME Typed, [RecallNext]_recallVars, ~\E row \in Rows : TakeRow(row)
  PROVE  /\ UNCHANGED <<taken, merged>>
         /\ options' = options \/ (taken = <<>> /\ DOMAIN merged = {})
<1>1. CASE UNCHANGED recallVars
  BY <1>1 DEF recallVars
<1>2. ASSUME NEW r \in Requests, Refuse(r) \/ Fetch(r) \/ Anamnesis(r) \/ Route(r)
      PROVE  UNCHANGED <<taken, merged>> /\ taken = <<>> /\ DOMAIN merged = {}
  BY <1>2 DEF Refuse, Fetch, Anamnesis, Route, Ask, Typed, Phased
<1>3. ASSUME NEW call \in Calls, Fuse(call)
      PROVE  UNCHANGED <<taken, merged>> /\ taken = <<>> /\ DOMAIN merged = {}
  BY <1>3 DEF Fuse, Typed, Phased
<1>4. CASE EndRows \/ Answer \/ \E k \in pool : Consider(k)
  BY <1>4 DEF EndRows, Answer, Consider
<1>5. QED BY <1>1, <1>2, <1>3, <1>4 DEF RecallNext

LEMMA EvidenceStep ==
  ASSUME Typed, EvidenceKept, [RecallNext]_recallVars
  PROVE  EvidenceKept'
<1>1. CASE \E row \in Rows : TakeRow(row)
  BY <1>1, TakeRowEvidence
<1>2. CASE ~\E row \in Rows : TakeRow(row)
  <2>1. UNCHANGED <<taken, merged>> /\ (options' = options \/ (taken = <<>> /\ DOMAIN merged = {}))
    BY <1>2, OtherSteps
  <2>2. CASE options' = options
    BY <2>1, <2>2 DEF EvidenceKept, RowsOf
  <2>3. CASE taken = <<>> /\ DOMAIN merged = {}
    BY <2>1, <2>3 DEF EvidenceKept, RowsOf
  <2>4. QED BY <2>1, <2>2, <2>3
<1>3. QED BY <1>1, <1>2

(* No lane's evidence is lost when candidates are merged.                  *)
THEOREM EvidenceIsKept == RecallSpec => []EvidenceKept
<1>1. RecallInit => EvidenceKept
  BY DEF RecallInit, EvidenceKept
<1>2. Typed /\ EvidenceKept /\ [RecallNext]_recallVars => EvidenceKept'
  BY EvidenceStep
<1>3. QED BY <1>1, <1>2, RecallTyped, PTL DEF RecallSpec

-----------------------------------------------------------------------------
(* Running totals: what a recursive sum over 1 .. N is.                    *)
Totals(s, t, N) == s = [n \in 0 .. N |-> IF n = 0 THEN 0 ELSE s[n - 1] + t[n]]

LEMMA TotalsAgree ==
  ASSUME NEW N \in Nat, NEW t, \A n \in 1 .. N : t[n] \in Int,
         NEW s, NEW u, Totals(s, t, N), Totals(u, t, N)
  PROVE  \A n \in 0 .. N : s[n] \in Int /\ s[n] = u[n]
<1> DEFINE T == {n \in 0 .. N : ~(s[n] \in Int /\ s[n] = u[n])}
<1>1. SUFFICES ASSUME T # {} PROVE FALSE
  OBVIOUS
<1>2. PICK n \in T : \A m \in T : n <= m
  <2>1. T \in SUBSET Nat
    OBVIOUS
  <2> HIDE DEF T
  <2>2. QED BY <1>1, <2>1, LeastNatural
<1>3. n \in 0 .. N /\ ~(s[n] \in Int /\ s[n] = u[n])
  BY <1>2
<1>4. n # 0
  BY <1>3 DEF Totals
<1>5. n \in 1 .. N /\ n - 1 \in 0 .. N /\ n - 1 < n
  BY <1>3, <1>4
<1>6. s[n - 1] \in Int /\ s[n - 1] = u[n - 1]
  BY <1>2, <1>5
<1>7. s[n] = s[n - 1] + t[n] /\ u[n] = u[n - 1] + t[n]
  BY <1>3, <1>4 DEF Totals
<1>8. QED BY <1>3, <1>5, <1>6, <1>7

LEMMA TotalsAppend ==
  ASSUME NEW N \in Nat, NEW s, NEW t, Totals(s, t, N),
         NEW v, \A n \in 1 .. N : v[n] = t[n]
  PROVE  \E u : Totals(u, v, N + 1) /\ u[N + 1] = s[N] + v[N + 1]
<1> DEFINE last == s[N] + v[N + 1]
           u == [n \in 0 .. N + 1 |-> IF n = N + 1 THEN last ELSE s[n]]
<1>1. /\ u = [n \in 0 .. N + 1 |-> u[n]] /\ u[N + 1] = last
      /\ \A n \in 0 .. N : u[n] = s[n]
  OBVIOUS
<1>2. \A n \in 0 .. N : s[n] = IF n = 0 THEN 0 ELSE s[n - 1] + t[n]
  BY DEF Totals
<1> HIDE DEF u
<1>3. ASSUME NEW n \in 0 .. N + 1
      PROVE  u[n] = IF n = 0 THEN 0 ELSE u[n - 1] + v[n]
  <2>1. CASE n = N + 1
    <3>1. N \in 0 .. N /\ n - 1 = N /\ n # 0
      BY <2>1
    <3>2. QED BY <1>1, <2>1, <3>1
  <2>2. CASE n # N + 1
    <3>1. n \in 0 .. N /\ (n # 0 => n \in 1 .. N /\ n - 1 \in 0 .. N)
      BY <2>2
    <3>2. u[n] = s[n] /\ (n # 0 => u[n - 1] = s[n - 1] /\ v[n] = t[n])
      BY <1>1, <3>1
    <3>3. QED BY <1>2, <3>1, <3>2
  <2>3. QED BY <2>1, <2>2
<1>4. Totals(u, v, N + 1)
  BY <1>1, <1>3 DEF Totals
<1>5. QED BY <1>1, <1>4

LEMMA TotalsExist ==
  ASSUME NEW t
  PROVE  \A N \in Nat : \E s : Totals(s, t, N)
<1> DEFINE T == {N \in Nat : ~\E s : Totals(s, t, N)}
<1>1. SUFFICES ASSUME T # {} PROVE FALSE
  OBVIOUS
<1>2. PICK N \in T : \A m \in T : N <= m
  <2>1. T \in SUBSET Nat
    OBVIOUS
  <2> HIDE DEF T
  <2>2. QED BY <1>1, <2>1, LeastNatural
<1>3. Totals([n \in 0 .. 0 |-> 0], t, 0)
  BY DEF Totals
<1>4. N \in Nat /\ N - 1 \in Nat /\ N - 1 < N
  BY <1>2, <1>3
<1>5. PICK s : Totals(s, t, N - 1)
  BY <1>2, <1>4
<1>6. \E u : Totals(u, t, (N - 1) + 1)
  BY <1>4, <1>5, TotalsAppend
<1>7. QED BY <1>2, <1>4, <1>6

LEMMA TotalsNext ==
  ASSUME NEW N \in Nat, NEW t, NEW v, \A n \in 1 .. N : t[n] \in Int /\ v[n] = t[n],
         v[N + 1] \in Int, NEW s, Totals(s, t, N), NEW w, Totals(w, v, N + 1)
  PROVE  s[N] \in Int /\ w[N + 1] = s[N] + v[N + 1]
<1>1. PICK u : Totals(u, v, N + 1) /\ u[N + 1] = s[N] + v[N + 1]
  BY TotalsAppend
<1>2. s[N] \in Int
  <2>1. \A n \in 0 .. N : s[n] \in Int
    BY TotalsAgree
  <2>2. QED BY <2>1
<1>3. N + 1 \in Nat /\ \A n \in 1 .. N + 1 : v[n] \in Int
  OBVIOUS
<1>4. \A n \in 0 .. N + 1 : w[n] = u[n]
  BY <1>1, <1>3, TotalsAgree
<1>5. QED BY <1>1, <1>2, <1>4

-----------------------------------------------------------------------------
(* The scores of the rows of a key, and their total.                       *)
Addends(k) == [n \in 1 .. Len(taken) |-> IF Key(taken[n]) = k THEN RowScore(n) ELSE 0]

LEMMA ScoreOfIs ==
  \A k : Len(taken) \in Nat =>
    \E s : Totals(s, Addends(k), Len(taken)) /\ ScoreOf(k) = s[Len(taken)]
<1> DEFINE Sum(s, k) == s = [n \in 0 .. Len(taken) |->
             IF n = 0 THEN 0
             ELSE s[n - 1] + IF Key(taken[n]) = k THEN RowScore(n) ELSE 0]
<1>1. SUFFICES ASSUME NEW k, Len(taken) \in Nat
               PROVE  \E s : Totals(s, Addends(k), Len(taken)) /\ ScoreOf(k) = s[Len(taken)]
  OBVIOUS
<1>2. ASSUME NEW s PROVE Sum(s, k) <=> Totals(s, Addends(k), Len(taken))
  <2>1. \A n \in 0 .. Len(taken) : n # 0 =>
          Addends(k)[n] = IF Key(taken[n]) = k THEN RowScore(n) ELSE 0
    BY <1>1 DEF Addends
  <2>2. QED BY <2>1 DEF Totals
<1>3. \E s : Sum(s, k)
  BY <1>1, <1>2, TotalsExist
<1>4. PICK s : s = CHOOSE u : Sum(u, k)
  OBVIOUS
<1>5. Sum(s, k)
  <2> HIDE DEF Sum
  <2>1. QED BY <1>3, <1>4
<1>6. ScoreOf(k) = s[Len(taken)]
  BY <1>4 DEF ScoreOf
<1>7. QED BY <1>2, <1>5, <1>6

LEMMA ScoreOfNext ==
  (\A k : Len(taken) \in Nat =>
    \E s : Totals(s, Addends(k), Len(taken)) /\ ScoreOf(k) = s[Len(taken)])'
BY ScoreOfIs, PTL

LEMMA RowScoreType ==
  ASSUME Typed, NEW i \in 1 .. Len(taken)
  PROVE  RowScore(i) \in Int
<1> DEFINE S == {j \in 1 .. i : taken[j].lane = taken[i].lane}
<1>1. taken[i] \in Rows /\ i \in Nat
  BY DEF Typed, RecallTypeOK
<1>2. Cardinality(S) \in Nat
  <2>1. S \subseteq 1 .. i /\ IsFiniteSet(1 .. i)
    BY <1>1, FS_Interval
  <2>2. QED BY <2>1, FS_Subset, FS_CardinalityType
<1>3. RowScore(i) = Score(taken[i], Cardinality(S), options.terms, options.technical)
  BY DEF RowScore
<1> HIDE DEF S
<1>4. QED BY <1>1, <1>2, <1>3, OptionFields, ScoreType DEF Typed, RecallTypeOK

LEMMA RowScoreNext ==
  ASSUME Typed, NEW row \in Rows, TakeRow(row), NEW n, n = Len(taken) + 1
  PROVE  /\ \A i \in 1 .. Len(taken) : RowScore(i)' = RowScore(i)
         /\ RowScore(n)' = Score(row, RankIn(row.lane), options.terms, options.technical)
         /\ RowScore(n)' \in Int
<1> DEFINE S == {i \in 1 .. Len(taken) : taken[i].lane = row.lane}
<1>1. /\ Len(taken) \in Nat /\ n \in Nat /\ Len(taken') = n
      /\ DOMAIN taken = 1 .. Len(taken) /\ DOMAIN taken' = 1 .. n
      /\ taken'[n] = row /\ \A i \in 1 .. Len(taken) : taken'[i] = taken[i]
      /\ options' = options
  BY TakenGives
<1>2. ASSUME NEW i \in 1 .. Len(taken) PROVE RowScore(i)' = RowScore(i)
  <2>1. \A j \in 1 .. i : taken'[j] = taken[j]
    BY <1>1
  <2>2. {j \in 1 .. i : taken'[j].lane = taken'[i].lane} = {j \in 1 .. i : taken[j].lane = taken[i].lane}
    BY <1>1, <2>1
  <2>3. QED BY <1>1, <2>2 DEF RowScore
<1>3. {j \in 1 .. n : taken'[j].lane = taken'[n].lane} = S \union {n}
  BY <1>1
<1>4. n \notin S
  BY <1>1
<1>5. IsFiniteSet(S) /\ Cardinality(S) \in Nat
  <2>1. S \subseteq 1 .. Len(taken)
    OBVIOUS
  <2>2. IsFiniteSet(1 .. Len(taken))
    <3>1. 1 \in Int /\ Len(taken) \in Int
      BY <1>1
    <3>2. QED BY <3>1, FS_Interval
  <2>3. QED BY <2>1, <2>2, FS_Subset, FS_CardinalityType
<1>6. RankIn(row.lane) = 1 + Cardinality(S)
  BY <1>1 DEF RankIn
<1> HIDE DEF S
<1>7. Cardinality(S \union {n}) = Cardinality(S) + 1
  BY <1>4, <1>5, FS_AddElement
<1>8. Cardinality(S \union {n}) = RankIn(row.lane) /\ RankIn(row.lane) \in Nat
  BY <1>7, <1>5, <1>6
<1>9. RowScore(n)' = Score(row, RankIn(row.lane), options.terms, options.technical)
  BY <1>1, <1>3, <1>8 DEF RowScore
<1>10. RowScore(n)' \in Int
  BY <1>8, <1>9, OptionFields, ScoreType DEF Typed, RecallTypeOK
<1>11. QED BY <1>2, <1>9, <1>10

(* A row that is taken adds its score to the sum of its key.               *)
LEMMA ScoreOfStep ==
  ASSUME Typed, NEW row \in Rows, TakeRow(row), NEW k, NEW last, last = Len(taken) + 1
  PROVE  /\ ScoreOf(k) \in Int
         /\ ScoreOf(k)' = ScoreOf(k) + IF k = Key(row) THEN RowScore(last)' ELSE 0
<1> DEFINE N == Len(taken)
           t == Addends(k)
           v == Addends(k)'
           add == IF k = Key(row) THEN RowScore(last)' ELSE 0
<1>1. /\ N \in Nat /\ Len(taken') = N + 1 /\ taken'[N + 1] = row
      /\ \A i \in 1 .. N : taken'[i] = taken[i]
  BY TakenGives
<1>2. /\ \A n \in 1 .. N : t[n] \in Int
      /\ \A n \in 1 .. N : v[n] = t[n]
      /\ v[N + 1] = add /\ add \in Int
  <2>1. \A n \in 1 .. N : t[n] = IF Key(taken[n]) = k THEN RowScore(n) ELSE 0
    BY DEF Addends
  <2>2. \A n \in 1 .. N + 1 : v[n] = IF Key(taken'[n]) = k THEN RowScore(n)' ELSE 0
    BY <1>1 DEF Addends
  <2>3. \A n \in 1 .. N : RowScore(n) \in Int /\ RowScore(n)' = RowScore(n)
    BY RowScoreType, RowScoreNext
  <2>4. v[N + 1] = add /\ add \in Int
    <3>1. RowScore(last)' \in Int /\ last \in 1 .. N + 1
      BY <1>1, RowScoreNext
    <3>2. Key(taken'[last]) = Key(row)
      BY <1>1
    <3> HIDE DEF v
    <3>3. QED BY <2>2, <3>1, <3>2
  <2>5. \A n \in 1 .. N : Key(taken'[n]) = Key(taken[n])
    BY <1>1
  <2> HIDE DEF t, v, add
  <2>6. QED BY <1>1, <2>1, <2>2, <2>3, <2>4, <2>5, SMTT(30)
<1>3. PICK s : Totals(s, t, N) /\ ScoreOf(k) = s[N]
  BY <1>1, ScoreOfIs
<1>4. PICK w : Totals(w, v, N + 1) /\ ScoreOf(k)' = w[N + 1]
  BY <1>1, ScoreOfNext
<1>5. s[N] \in Int /\ w[N + 1] = s[N] + v[N + 1]
  <2> HIDE DEF N, t, v, add
  <2>1. QED BY <1>1, <1>2, <1>3, <1>4, TotalsNext, ZenonT(60)
<1>6. QED BY <1>2, <1>3, <1>4, <1>5 DEF N

LEMMA ScoreOfNothing ==
  \A k : taken = <<>> => ScoreOf(k) = 0
<1>1. SUFFICES ASSUME NEW k, taken = <<>> PROVE ScoreOf(k) = 0
  OBVIOUS
<1>2. Len(taken) = 0
  BY <1>1
<1>3. PICK s : Totals(s, Addends(k), 0) /\ ScoreOf(k) = s[0]
  BY <1>2, ScoreOfIs
<1>4. QED BY <1>3 DEF Totals

LEMMA ScoreOfNothingNext ==
  (\A k : taken = <<>> => ScoreOf(k) = 0)'
BY ScoreOfNothing, PTL

LEMMA ScoreOfStill ==
  ASSUME Typed, UNCHANGED taken, options' = options \/ taken = <<>>, NEW k
  PROVE  ScoreOf(k)' = ScoreOf(k)
<1>1. CASE taken = <<>>
  BY <1>1, ScoreOfNothing, ScoreOfNothingNext
<1>2. CASE options' = options
  <2> DEFINE N == Len(taken)
             t == Addends(k)
             v == Addends(k)'
  <2>1. N \in Nat /\ Len(taken') = N
    BY DEF Typed, RecallTypeOK
  <2>2. v = t
    BY <1>2 DEF Addends, RowScore
  <2>3. \A n \in 1 .. N : t[n] \in Int
    BY RowScoreType DEF Addends
  <2>4. PICK s : Totals(s, t, N) /\ ScoreOf(k) = s[N]
    BY <2>1, ScoreOfIs
  <2>5. PICK w : Totals(w, v, N) /\ ScoreOf(k)' = w[N]
    BY <2>1, ScoreOfNext
  <2> HIDE DEF N, t, v
  <2>6. \A n \in 0 .. N : s[n] = w[n]
    BY <2>1, <2>2, <2>3, <2>4, <2>5, TotalsAgree
  <2>7. QED BY <2>1, <2>4, <2>5, <2>6
<1>3. QED BY <1>1, <1>2

(* What the row is by which a candidate is shown, and the whole invariant. *)
ShownAs(k, i) ==
  /\ merged[k].best = RowScore(i)
  /\ \A j \in RowsOf(k) \ {i} : RowScore(j) < RowScore(i) \/ (RowScore(j) = RowScore(i) /\ i < j)
  /\ merged[k].source = taken[i].source
  /\ merged[k].title = taken[i].title \/ taken[i].title = None
  /\ merged[k].excerpt = taken[i].excerpt \/ taken[i].excerpt = None

Scored ==
  /\ \A k : ScoreOf(k) = IF k \in DOMAIN merged THEN merged[k].score ELSE 0
  /\ \A k \in DOMAIN merged : \E i \in RowsOf(k) : ShownAs(k, i)

LEMMA ScoredGives == Scored => BestRowShown
BY DEF Scored, ShownAs, BestRowShown

LEMMA ScoredInit == RecallInit => Scored
BY ScoreOfNothing DEF RecallInit, Scored

LEMMA ScoredStill ==
  ASSUME Typed, Scored, UNCHANGED <<taken, merged>>,
         options' = options \/ (taken = <<>> /\ DOMAIN merged = {})
  PROVE  Scored'
<1>1. \A k : ScoreOf(k)' = IF k \in DOMAIN merged' THEN merged'[k].score ELSE 0
  BY ScoreOfStill DEF Scored
<1>2. CASE DOMAIN merged = {}
  BY <1>1, <1>2 DEF Scored
<1>3. CASE options' = options
  <2>1. \A k : RowsOf(k)' = RowsOf(k)
    BY DEF RowsOf
  <2>2. \A i : RowScore(i)' = RowScore(i)
    BY <1>3 DEF RowScore
  <2>3. \A k, i : ShownAs(k, i) => ShownAs(k, i)'
    BY <2>1, <2>2 DEF ShownAs
  <2>4. QED BY <1>1, <2>1, <2>3 DEF Scored
<1>4. QED BY <1>2, <1>3

LEMMA TakeRowScored ==
  ASSUME Typed, EvidenceKept, Scored, NEW row \in Rows, TakeRow(row)
  PROVE  Scored'
<1> DEFINE key == Key(row)
           c == LaneCandidate(row, RankIn(row.lane), options.terms, options.technical,
                              Cardinality(DOMAIN merged))
<1>1. PICK n : n = Len(taken) + 1
  OBVIOUS
<1>2. /\ Len(taken) \in Nat /\ DOMAIN taken = 1 .. Len(taken)
      /\ taken'[n] = row /\ \A i \in 1 .. Len(taken) : taken'[i] = taken[i]
      /\ RowsOf(key)' = RowsOf(key) \union {n}
      /\ \A k : k # key => RowsOf(k)' = RowsOf(k)
  BY <1>1, TakenGives
<1>3. /\ c \in CandidateType
      /\ DOMAIN merged' = DOMAIN merged \union {key}
      /\ \A j \in DOMAIN merged \ {key} : merged'[j] = merged[j]
      /\ merged'[key] = IF key \in DOMAIN merged THEN Merge(merged[key], c) ELSE c
  BY TakeRowGives
<1>4. /\ \A i \in 1 .. Len(taken) : RowScore(i) \in Int /\ RowScore(i)' = RowScore(i)
      /\ RowScore(n)' \in Int
      /\ c.score = RowScore(n)' /\ c.best = RowScore(n)'
      /\ c.source = row.source /\ c.title = row.title /\ c.excerpt = row.excerpt
  BY <1>1, RowScoreType, RowScoreNext DEF LaneCandidate
<1>5. /\ \A k \in DOMAIN merged : merged[k] \in CandidateType
      /\ DOMAIN merged = {Key(taken[i]) : i \in DOMAIN taken}
  BY DEF Typed, RecallTypeOK, EvidenceKept
<1>6. \A k : RowsOf(k) \subseteq 1 .. Len(taken)
  BY <1>2 DEF RowsOf
<1>7. \A k : ScoreOf(k)' = ScoreOf(k) + IF k = key THEN RowScore(n)' ELSE 0
  BY <1>1, ScoreOfStep
<1> HIDE DEF c, key
<1>8. ASSUME NEW k
      PROVE  ScoreOf(k)' = IF k \in DOMAIN merged' THEN merged'[k].score ELSE 0
  <2>1. ScoreOf(k) = IF k \in DOMAIN merged THEN merged[k].score ELSE 0
    BY DEF Scored
  <2>2. CASE k # key
    <3>1. ScoreOf(k)' = ScoreOf(k) + 0 /\ ScoreOf(k) \in Int
      BY <1>5, <1>7, <2>1, <2>2 DEF CandidateType
    <3>2. QED BY <1>3, <2>1, <2>2, <3>1
  <2>3. CASE k = key /\ key \in DOMAIN merged
    <3>1. merged'[k].score = merged[k].score + c.score
      BY <1>3, <1>5, <2>3, MergeGives
    <3>2. QED BY <1>3, <1>4, <1>7, <2>1, <2>3, <3>1
  <2>4. CASE k = key /\ key \notin DOMAIN merged
    <3>1. ScoreOf(k)' = 0 + c.score
      BY <1>4, <1>7, <2>1, <2>4
    <3>2. QED BY <1>3, <1>4, <2>4, <3>1
  <2>5. QED BY <2>2, <2>3, <2>4
<1>9. ASSUME NEW k \in DOMAIN merged'
      PROVE  (\E i \in RowsOf(k) : ShownAs(k, i))'
  <2>1. CASE k # key
    <3>1. k \in DOMAIN merged /\ merged'[k] = merged[k] /\ RowsOf(k)' = RowsOf(k)
      BY <1>2, <1>3, <2>1
    <3>2. PICK i \in RowsOf(k) : ShownAs(k, i)
      BY <3>1 DEF Scored
    <3>3. /\ i \in 1 .. Len(taken)
          /\ \A j \in RowsOf(k) : RowScore(j)' = RowScore(j)
          /\ taken'[i] = taken[i]
      BY <1>2, <1>4, <1>6, <3>2
    <3>4. ShownAs(k, i)'
      BY <3>1, <3>2, <3>3 DEF ShownAs
    <3>5. QED BY <3>1, <3>2, <3>4
  <2>2. CASE k = key /\ key \notin DOMAIN merged
    <3>1. RowsOf(k) = {}
      BY <1>5, <2>2 DEF RowsOf
    <3>2. RowsOf(k)' = {n} /\ merged'[k] = c
      BY <1>2, <1>3, <2>2, <3>1
    <3>3. ShownAs(k, n)'
      BY <1>2, <1>4, <3>2 DEF ShownAs
    <3>4. QED BY <3>2, <3>3
  <2>3. CASE k = key /\ key \in DOMAIN merged
    <3> DEFINE old == merged[k]
               m == merged'[k]
    <3>1. PICK i \in RowsOf(k) : ShownAs(k, i)
      BY <2>3 DEF Scored
    <3>2. i \in 1 .. Len(taken) /\ i < n /\ i # n
      BY <1>1, <1>2, <1>6, <3>1
    <3>3. /\ old.best = RowScore(i) /\ old.source = taken[i].source
          /\ old.title = taken[i].title \/ taken[i].title = None
          /\ old.excerpt = taken[i].excerpt \/ taken[i].excerpt = None
          /\ \A j \in RowsOf(k) \ {i} : RowScore(j) < RowScore(i) \/ (RowScore(j) = RowScore(i) /\ i < j)
      BY <3>1 DEF ShownAs
    <3>4. IF c.best > old.best
          THEN /\ m.best = c.best /\ m.source = c.source
               /\ m.title = Or(c.title, old.title) /\ m.excerpt = Or(c.excerpt, old.excerpt)
          ELSE /\ m.best = old.best /\ m.source = old.source
               /\ m.title = old.title /\ m.excerpt = old.excerpt
      BY <1>3, <1>5, <2>3, MergeGives
    <3>5. RowsOf(k)' = RowsOf(k) \union {n}
      BY <1>2, <2>3
    <3>6. \A j \in RowsOf(k) : RowScore(j) \in Int /\ RowScore(j)' = RowScore(j)
      BY <1>4, <1>6
    <3>7. CASE c.best > old.best
      <4>1. \A j \in RowsOf(k) : RowScore(j)' < RowScore(n)'
        BY <1>4, <3>1, <3>3, <3>6, <3>7
      <4>2. ShownAs(k, n)'
        BY <1>2, <1>4, <3>4, <3>5, <3>7, <4>1 DEF ShownAs, Or
      <4>3. QED BY <3>5, <4>2
    <3>8. CASE ~(c.best > old.best)
      <4>1. RowScore(n)' <= RowScore(i)'
        BY <1>4, <3>1, <3>3, <3>6, <3>8
      <4>2. \A j \in RowsOf(k)' \ {i} :
              RowScore(j)' < RowScore(i)' \/ (RowScore(j)' = RowScore(i)' /\ i < j)
        <5>1. \A j \in RowsOf(k) \ {i} :
                RowScore(j)' < RowScore(i)' \/ (RowScore(j)' = RowScore(i)' /\ i < j)
          BY <3>1, <3>3, <3>6
        <5>2. RowScore(n)' < RowScore(i)' \/ (RowScore(n)' = RowScore(i)' /\ i < n)
          BY <1>4, <3>1, <3>2, <3>6, <4>1
        <5>3. QED BY <3>5, <5>1, <5>2
      <4>3. ShownAs(k, i)'
        BY <1>2, <3>1, <3>2, <3>3, <3>4, <3>6, <3>8, <4>2 DEF ShownAs
      <4>4. QED BY <3>1, <3>5, <4>3
    <3>9. QED BY <3>7, <3>8
  <2>4. QED BY <2>1, <2>2, <2>3
<1>10. QED BY <1>8, <1>9 DEF Scored

LEMMA ScoredStep ==
  ASSUME Typed, EvidenceKept, Scored, [RecallNext]_recallVars
  PROVE  Scored'
<1>1. CASE \E row \in Rows : TakeRow(row)
  BY <1>1, TakeRowScored
<1>2. CASE ~\E row \in Rows : TakeRow(row)
  BY <1>2, OtherSteps, ScoredStill
<1>3. QED BY <1>1, <1>2

(* A candidate has the scores of all its rows and is shown as the one that *)
(* scored best.                                                            *)
THEOREM BestRowIsShown == RecallSpec => []BestRowShown
<1>1. Typed /\ EvidenceKept /\ Scored /\ [RecallNext]_recallVars => Scored'
  BY ScoredStep
<1>2. RecallSpec => []Scored
  BY <1>1, ScoredInit, RecallTyped, EvidenceIsKept, PTL DEF RecallSpec
<1>3. QED BY <1>2, ScoredGives, PTL

-----------------------------------------------------------------------------
(* The order of the sort is a strict order.                                *)
IsRank(s) == DOMAIN s = 1 .. 5 /\ \A i \in 1 .. 5 : s[i] \in Int

LEMMA GreaterAsymmetric ==
  ASSUME NEW s, NEW t, IsRank(s), IsRank(t), Greater(s, t)
  PROVE  ~Greater(t, s)
<1>1. SUFFICES ASSUME Greater(t, s) PROVE FALSE
  OBVIOUS
<1>2. PICK i \in 1 .. 5 : s[i] > t[i] /\ \A n \in 1 .. i - 1 : s[n] = t[n]
  BY DEF Greater, IsRank
<1>3. PICK j \in 1 .. 5 : t[j] > s[j] /\ \A n \in 1 .. j - 1 : t[n] = s[n]
  BY <1>1 DEF Greater, IsRank
<1>4. CASE i < j
  BY <1>2, <1>3, <1>4 DEF IsRank
<1>5. CASE j < i
  BY <1>2, <1>3, <1>5 DEF IsRank
<1>6. CASE i = j
  BY <1>2, <1>3, <1>6 DEF IsRank
<1>7. QED BY <1>4, <1>5, <1>6

LEMMA GreaterTransitive ==
  ASSUME NEW s, NEW t, NEW u, IsRank(s), IsRank(t), IsRank(u), Greater(s, t), Greater(t, u)
  PROVE  Greater(s, u)
<1>1. PICK i \in 1 .. 5 : s[i] > t[i] /\ \A n \in 1 .. i - 1 : s[n] = t[n]
  BY DEF Greater, IsRank
<1>2. PICK j \in 1 .. 5 : t[j] > u[j] /\ \A n \in 1 .. j - 1 : t[n] = u[n]
  BY DEF Greater, IsRank
<1>3. CASE i <= j
  <2>1. s[i] > u[i] /\ \A n \in 1 .. i - 1 : s[n] = u[n]
    BY <1>1, <1>2, <1>3 DEF IsRank
  <2>2. QED BY <2>1 DEF Greater, IsRank
<1>4. CASE j < i
  <2>1. s[j] > u[j] /\ \A n \in 1 .. j - 1 : s[n] = u[n]
    BY <1>1, <1>2, <1>4 DEF IsRank
  <2>2. QED BY <2>1 DEF Greater, IsRank
<1>5. QED BY <1>3, <1>4

LEMMA RankingTyped ==
  ASSUME Typed, NEW k \in DOMAIN merged
  PROVE  IsRank(Ranking(k))
<1> DEFINE c == merged[k]
<1>1. c \in CandidateType
  BY DEF Typed, RecallTypeOK
<1> HIDE DEF c
<1>2. IsFiniteSet(c.sources) /\ IsFiniteSet(c.matched)
  <2>1. IsFiniteSet(Sources)
    <3>1. ASSUME NEW a, NEW b, NEW d PROVE IsFiniteSet({a, b, d})
      <4>1. IsFiniteSet((({} \union {a}) \union {b}) \union {d})
        BY FS_EmptySet, FS_AddElement
      <4>2. (({} \union {a}) \union {b}) \union {d} = {a, b, d}
        OBVIOUS
      <4>3. QED BY <4>1, <4>2
    <3>2. Sources = {"search", "semantic", "content"} \union {"date", "memory", "entity"}
                      \union {"thread", "coding_lesson", "project_lesson"}
      BY DEF Sources, LaneNames
    <3>3. QED BY <3>1, <3>2, FS_Union
  <2>2. c.sources \subseteq Sources /\ c.matched \subseteq Words
    BY <1>1 DEF CandidateType
  <2>3. QED BY <2>1, <2>2, FS_Subset, RecallAssumption
<1>3. Cardinality(c.sources) \in Int /\ Cardinality(c.matched) \in Int
  BY <1>2, FS_CardinalityType
<1>4. Final(c) \in Int
  BY <1>1, <1>3 DEF Final, Tenths, CandidateType
<1>5. Name(c) \in Int
  BY <1>1, RecallAssumption DEF Name, Or, CandidateType, Texts
<1>6. c.place \in Int
  BY <1>1 DEF CandidateType
<1>7. Ranking(k) = <<Final(c), Cardinality(c.matched), Cardinality(c.sources), -Name(c), -c.place>>
  BY DEF Ranking, c
<1>8. QED BY <1>3, <1>4, <1>5, <1>6, <1>7 DEF IsRank

LEMMA OutranksOrder ==
  ASSUME Typed
  PROVE  /\ \A k, l \in DOMAIN merged : Outranks(k, l) => ~Outranks(l, k)
         /\ \A k, l, m \in DOMAIN merged : Outranks(k, l) /\ Outranks(l, m) => Outranks(k, m)
BY RankingTyped, GreaterAsymmetric, GreaterTransitive DEF Outranks

-----------------------------------------------------------------------------
(* Candidates have places of their own, so that no two of them tie.        *)
Placed ==
  /\ \A k \in DOMAIN merged : merged[k].place < Cardinality(DOMAIN merged)
  /\ \A k, l \in DOMAIN merged : merged[k].place = merged[l].place => k = l

LEMMA MergeKeepsPlace ==
  ASSUME NEW c \in CandidateType, NEW d \in CandidateType
  PROVE  Merge(c, d).place = c.place
BY DEF Merge, Shown, Evidence, CandidateType

LEMMA TakeRowPlaced ==
  ASSUME Typed, Placed, NEW row \in Rows, TakeRow(row)
  PROVE  Placed'
<1> DEFINE key == Key(row)
           places == Cardinality(DOMAIN merged)
           c == LaneCandidate(row, RankIn(row.lane), options.terms, options.technical, places)
<1>1. /\ c \in CandidateType
      /\ DOMAIN merged' = DOMAIN merged \union {key}
      /\ \A j \in DOMAIN merged \ {key} : merged'[j] = merged[j]
      /\ merged'[key] = IF key \in DOMAIN merged THEN Merge(merged[key], c) ELSE c
  BY TakeRowGives
<1>2. c.place = places
  BY DEF LaneCandidate
<1>3. /\ IsFiniteSet(DOMAIN merged) /\ places \in Nat
      /\ \A k \in DOMAIN merged : merged[k] \in CandidateType /\ merged[k].place \in Nat
  BY FS_CardinalityType DEF Typed, RecallTypeOK, CandidateType
<1> HIDE DEF c, key
<1>4. CASE key \in DOMAIN merged
  <2>1. DOMAIN merged' = DOMAIN merged
    BY <1>1, <1>4
  <2>2. \A k \in DOMAIN merged : merged'[k].place = merged[k].place
    BY <1>1, <1>3, <1>4, MergeKeepsPlace
  <2>3. QED BY <2>1, <2>2 DEF Placed
<1>5. CASE key \notin DOMAIN merged
  <2>1. Cardinality(DOMAIN merged') = places + 1
    BY <1>1, <1>3, <1>5, FS_AddElement
  <2>2. /\ merged'[key].place = places
        /\ \A k \in DOMAIN merged : merged'[k].place = merged[k].place /\ merged[k].place < places
    BY <1>1, <1>2, <1>5 DEF Placed
  <2> HIDE DEF places
  <2>3. \A k \in DOMAIN merged' : merged'[k].place < Cardinality(DOMAIN merged')
    BY <1>1, <1>3, <2>1, <2>2
  <2>4. \A k, l \in DOMAIN merged' : merged'[k].place = merged'[l].place => k = l
    BY <1>1, <1>3, <2>2 DEF Placed
  <2>5. QED BY <2>3, <2>4 DEF Placed
<1>6. QED BY <1>4, <1>5

LEMMA PlacedStep ==
  ASSUME Typed, Placed, [RecallNext]_recallVars
  PROVE  Placed'
<1>1. CASE \E row \in Rows : TakeRow(row)
  BY <1>1, TakeRowPlaced
<1>2. CASE ~\E row \in Rows : TakeRow(row)
  BY <1>2, OtherSteps DEF Placed
<1>3. QED BY <1>1, <1>2

LEMMA GreaterTotal ==
  ASSUME NEW s, NEW t, IsRank(s), IsRank(t), s[5] # t[5]
  PROVE  Greater(s, t) \/ Greater(t, s)
<1> DEFINE T == {i \in 1 .. 5 : s[i] # t[i]}
<1>1. T # {} /\ T \in SUBSET Nat
  OBVIOUS
<1>2. PICK i \in T : \A j \in T : i <= j
  <2> HIDE DEF T
  <2>1. QED BY <1>1, LeastNatural
<1>3. i \in 1 .. 5 /\ s[i] # t[i] /\ \A j \in 1 .. i - 1 : s[j] = t[j]
  BY <1>2
<1>4. s[i] > t[i] \/ t[i] > s[i]
  BY <1>3 DEF IsRank
<1>5. QED BY <1>3, <1>4 DEF Greater, IsRank

LEMMA OutranksTotal ==
  ASSUME Typed, Placed, NEW k \in DOMAIN merged, NEW l \in DOMAIN merged, k # l
  PROVE  Outranks(k, l) \/ Outranks(l, k)
<1>1. Ranking(k)[5] = -merged[k].place /\ Ranking(l)[5] = -merged[l].place
  BY DEF Ranking
<1>2. merged[k].place # merged[l].place /\ merged[k].place \in Nat /\ merged[l].place \in Nat
  BY DEF Placed, Typed, RecallTypeOK, CandidateType
<1>3. Ranking(k)[5] # Ranking(l)[5]
  BY <1>1, <1>2
<1>4. QED BY <1>3, RankingTyped, GreaterTotal DEF Outranks

Best(S) == {k \in S : \A l \in S \ {k} : Outranks(k, l)}

LEMMA BestExists ==
  ASSUME Typed, Placed, NEW P \in SUBSET DOMAIN merged, P # {}
  PROVE  Best(P) # {}
<1> DEFINE T == {n \in Nat : \E S \in SUBSET DOMAIN merged :
                               S # {} /\ Cardinality(S) = n /\ Best(S) = {}}
<1>1. \A S \in SUBSET DOMAIN merged : IsFiniteSet(S) /\ Cardinality(S) \in Nat
  BY FS_Subset, FS_CardinalityType DEF Typed
<1>2. SUFFICES ASSUME T # {} PROVE FALSE
  BY <1>1
<1>3. PICK n \in T : \A m \in T : n <= m
  <2>1. T \in SUBSET Nat
    OBVIOUS
  <2> HIDE DEF T
  <2>2. QED BY <1>2, <2>1, LeastNatural
<1>4. PICK S \in SUBSET DOMAIN merged : S # {} /\ Cardinality(S) = n /\ Best(S) = {}
  BY <1>3
<1>5. PICK k \in S : TRUE
  BY <1>4
<1> DEFINE R == S \ {k}
<1>6. R \in SUBSET DOMAIN merged /\ Cardinality(R) = n - 1 /\ n - 1 \in Nat /\ n - 1 < n
  <2>1. IsFiniteSet(S) /\ Cardinality(S) \in Nat
    BY <1>1
  <2>2. Cardinality(R) = Cardinality(S) - 1
    BY <1>5, <2>1, FS_RemoveElement
  <2>3. Cardinality(R) \in Nat
    BY <1>1
  <2> HIDE DEF R
  <2>4. QED BY <1>4, <2>1, <2>2, <2>3 DEF R
<1>7. CASE R = {}
  BY <1>4, <1>5, <1>7 DEF Best
<1>8. CASE R # {}
  <2>1. PICK m \in R : \A l \in R \ {m} : Outranks(m, l)
    <3>1. n - 1 \notin T
      BY <1>3, <1>6
    <3>2. Best(R) # {}
      BY <1>6, <1>8, <3>1
    <3>3. QED BY <3>2 DEF Best
  <2>2. CASE Outranks(m, k)
    BY <1>4, <2>1, <2>2 DEF Best
  <2>3. CASE Outranks(k, m)
    <3>1. \A l \in S \ {k} : Outranks(k, l)
      BY <2>1, <2>3, OutranksOrder
    <3>2. QED BY <1>4, <1>5, <3>1 DEF Best
  <2>4. QED BY <1>5, <2>1, <2>2, <2>3, OutranksTotal
<1>9. QED BY <1>7, <1>8

(* While candidates are left, one of them comes before all the others: the *)
(* sort has no ties, and going through the candidates never stops early.   *)
BestIsLeft == pool # {} => Best(pool) # {}

THEOREM SortHasNoTies == RecallSpec => []BestIsLeft
<1>1. RecallInit => Placed
  BY DEF RecallInit, Placed
<1>2. Typed /\ Placed /\ [RecallNext]_recallVars => Placed'
  BY PlacedStep
<1>3. Typed /\ Placed => BestIsLeft
  BY BestExists DEF BestIsLeft, Typed, RecallTypeOK
<1>4. QED BY <1>1, <1>2, <1>3, RecallTyped, PTL DEF RecallSpec

-----------------------------------------------------------------------------
(* Going through the pool: what is kept is in order and before what is     *)
(* left, and what is not kept has been outranked by all its source may     *)
(* have, or may not have its path at all.                                  *)
SameSource(source) == {i \in DOMAIN kept : merged[kept[i]].source = source}
Ahead(k) == {i \in SameSource(merged[k].source) : Outranks(kept[i], k)}
Dropped(k) ==
  \/ merged[k].path # None /\ options.perPath = 0
  \/ Cardinality(Ahead(k)) = options.perSource

Ranked ==
  /\ \A i, j \in DOMAIN kept : i < j => Outranks(kept[i], kept[j])
  /\ \A i \in DOMAIN kept, l \in pool : Outranks(kept[i], l)
  /\ \A k \in DOMAIN merged \ (pool \union Range(kept)) :
       Dropped(k) /\ \A l \in pool : Outranks(k, l)
  /\ \A source \in Sources : Cardinality(SameSource(source)) <= options.perSource

RankInv ==
  /\ phase = "ranking" => Ranked
  /\ OutrankedOnly

LEMMA KeptIndices ==
  ASSUME Typed
  PROVE  /\ Len(kept) \in Nat /\ DOMAIN kept = 1 .. Len(kept)
         /\ \A i \in 1 .. Len(kept) : kept[i] \in DOMAIN merged
         /\ Range(kept) \subseteq DOMAIN merged
         /\ \A T \in SUBSET DOMAIN kept : IsFiniteSet(T) /\ Cardinality(T) \in Nat
<1>1. /\ kept \in Seq(DOMAIN merged) /\ Len(kept) \in Nat /\ DOMAIN kept = 1 .. Len(kept)
      /\ \A i \in 1 .. Len(kept) : kept[i] \in DOMAIN merged
  BY DEF Typed, RecallTypeOK
<1>2. Range(kept) \subseteq DOMAIN merged
  BY <1>1 DEF Range
<1>3. IsFiniteSet(DOMAIN kept)
  BY <1>1, FS_Interval
<1>4. \A T \in SUBSET DOMAIN kept : IsFiniteSet(T) /\ Cardinality(T) \in Nat
  BY <1>3, FS_Subset, FS_CardinalityType
<1>5. QED BY <1>1, <1>2, <1>4

LEMMA EndRowsRanks ==
  ASSUME Typed, EndRows
  PROVE  Ranked'
<1>1. kept' = <<>> /\ pool' = DOMAIN merged' /\ options' = options /\ options.perSource \in Nat
  BY OptionFields DEF EndRows, Typed, Phased, RecallTypeOK
<1>2. DOMAIN kept' = {} /\ \A source : SameSource(source)' = {}
  BY <1>1 DEF SameSource
<1>3. Cardinality({}) = 0
  BY FS_EmptySet
<1>4. \A source \in Sources : Cardinality(SameSource(source)') <= options'.perSource
  BY <1>1, <1>2, <1>3, SMTT(30)
<1>5. DOMAIN merged' \ (pool' \union Range(kept')) = {}
  BY <1>1
<1>6. QED BY <1>2, <1>4, <1>5 DEF Ranked

LEMMA ConsiderKeeps ==
  ASSUME Typed, Ranked, NEW k \in pool, Consider(k), kept' = Append(kept, k),
         options.perSource > Cardinality(SameSource(merged[k].source))
  PROVE  Ranked'
<1>1. PICK n : n = Len(kept) + 1
  OBVIOUS
<1>2. /\ Len(kept) \in Nat /\ DOMAIN kept = 1 .. Len(kept)
      /\ \A i \in 1 .. Len(kept) : kept[i] \in DOMAIN merged
      /\ \A T \in SUBSET DOMAIN kept : IsFiniteSet(T) /\ Cardinality(T) \in Nat
      /\ k \in DOMAIN merged /\ kept \in Seq(DOMAIN merged)
  BY KeptIndices DEF Typed, RecallTypeOK
<1>3. /\ DOMAIN kept' = DOMAIN kept \union {n} /\ n \notin DOMAIN kept
      /\ \A i \in DOMAIN kept : kept'[i] = kept[i] /\ i < n
      /\ kept'[n] = k
  <2>1. DOMAIN kept' = 1 .. n
    BY <1>1, <1>2
  <2>2. QED BY <1>1, <1>2, <2>1
<1>4. /\ pool' = pool \ {k} /\ merged' = merged /\ options' = options
      /\ \A l \in pool \ {k} : Outranks(k, l)
  BY DEF Consider
<1>5. \A a, b : Outranks(a, b)' = Outranks(a, b)
  BY <1>4 DEF Outranks, Ranking
<1>6. Range(kept') = Range(kept) \union {k}
  BY <1>3 DEF Range
<1>7. \A i, j \in DOMAIN kept' : i < j => Outranks(kept'[i], kept'[j])
  <2>1. SUFFICES ASSUME NEW i \in DOMAIN kept', NEW j \in DOMAIN kept', i < j
                 PROVE  Outranks(kept'[i], kept'[j])
    OBVIOUS
  <2>2. i \in DOMAIN kept
    BY <1>1, <1>2, <1>3, <2>1
  <2>3. CASE j = n
    BY <1>3, <2>2, <2>3 DEF Ranked
  <2>4. CASE j # n
    BY <1>3, <2>1, <2>2, <2>4 DEF Ranked
  <2>5. QED BY <2>3, <2>4
<1>8. \A i \in DOMAIN kept', l \in pool' : Outranks(kept'[i], l)
  BY <1>3, <1>4 DEF Ranked
<1>9. ASSUME NEW m \in DOMAIN merged' \ (pool' \union Range(kept'))
      PROVE  Dropped(m)' /\ \A l \in pool' : Outranks(m, l)
  <2>1. m # k /\ m \in DOMAIN merged \ (pool \union Range(kept))
    BY <1>4, <1>6
  <2>2. Dropped(m) /\ \A l \in pool : Outranks(m, l)
    BY <2>1 DEF Ranked
  <2>3. ~Outranks(k, m)
    BY <1>2, <2>1, <2>2, OutranksOrder
  <2>4. Ahead(m)' = Ahead(m)
    BY <1>3, <1>4, <1>5, <2>3 DEF Ahead, SameSource
  <2>5. QED BY <1>4, <2>2, <2>4 DEF Dropped
<1>10. ASSUME NEW source \in Sources
       PROVE  Cardinality(SameSource(source)') <= options.perSource
  <2>1. /\ SameSource(source) \in SUBSET DOMAIN kept /\ n \notin SameSource(source)
        /\ Cardinality(SameSource(source)) <= options.perSource
    BY <1>3 DEF SameSource, Ranked
  <2>2. CASE source = merged[k].source
    <3>1. SameSource(source)' = SameSource(source) \union {n}
      BY <1>3, <1>4, <2>2 DEF SameSource
    <3>2. Cardinality(SameSource(source)') = Cardinality(SameSource(source)) + 1
      BY <1>2, <2>1, <3>1, FS_AddElement
    <3>3. options.perSource \in Nat /\ Cardinality(SameSource(source)) \in Nat
      BY <1>2, <2>1, OptionFields DEF Typed, RecallTypeOK
    <3>4. QED BY <2>2, <3>2, <3>3
  <2>3. CASE source # merged[k].source
    <3>1. SameSource(source)' = SameSource(source)
      BY <1>3, <1>4, <2>3 DEF SameSource
    <3>2. QED BY <2>1, <3>1
  <2>4. QED BY <2>2, <2>3
<1>11. QED BY <1>4, <1>5, <1>7, <1>8, <1>9, <1>10 DEF Ranked

LEMMA ConsiderDrops ==
  ASSUME Typed, Ranked, NEW k \in pool, Consider(k), kept' = kept,
         \/ merged[k].path # None /\ ~(options.perPath > 0)
         \/ ~(options.perSource > Cardinality(SameSource(merged[k].source)))
  PROVE  Ranked'
<1>1. /\ pool' = pool \ {k} /\ merged' = merged /\ options' = options
      /\ \A l \in pool \ {k} : Outranks(k, l)
  BY DEF Consider
<1>2. \A a, b : Outranks(a, b)' = Outranks(a, b)
  BY <1>1 DEF Outranks, Ranking
<1>3. \A m : Dropped(m)' = Dropped(m)
  BY <1>1, <1>2 DEF Dropped, Ahead, SameSource
<1>4. /\ \A T \in SUBSET DOMAIN kept : IsFiniteSet(T) /\ Cardinality(T) \in Nat
      /\ options.perPath \in Nat /\ options.perSource \in Nat
      /\ merged[k].source \in Sources
  BY KeptIndices, OptionFields DEF Typed, RecallTypeOK, CandidateType
<1>5. Dropped(k)
  <2>1. CASE merged[k].path # None /\ ~(options.perPath > 0)
    BY <1>4, <2>1 DEF Dropped
  <2>2. CASE ~(options.perSource > Cardinality(SameSource(merged[k].source)))
    <3>1. Ahead(k) = SameSource(merged[k].source)
      BY DEF Ahead, SameSource, Ranked
    <3>2. /\ Cardinality(SameSource(merged[k].source)) \in Nat
          /\ Cardinality(SameSource(merged[k].source)) <= options.perSource
      BY <1>4 DEF SameSource, Ranked
    <3>3. QED BY <1>4, <2>2, <3>1, <3>2 DEF Dropped
  <2>3. QED BY <2>1, <2>2
<1>6. ASSUME NEW m \in DOMAIN merged \ (pool' \union Range(kept))
      PROVE  Dropped(m) /\ \A l \in pool' : Outranks(m, l)
  <2>1. CASE m = k
    BY <1>1, <1>5, <2>1
  <2>2. CASE m # k
    BY <1>1, <2>2 DEF Ranked
  <2>3. QED BY <2>1, <2>2
<1>7. /\ \A i, j \in DOMAIN kept : i < j => Outranks(kept[i], kept[j])
      /\ \A i \in DOMAIN kept, l \in pool' : Outranks(kept[i], l)
      /\ \A source \in Sources : Cardinality(SameSource(source)) <= options.perSource
  BY <1>1 DEF Ranked
<1>8. \A source : SameSource(source)' = SameSource(source)
  BY <1>1 DEF SameSource
<1>9. QED BY <1>1, <1>2, <1>3, <1>6, <1>7, <1>8 DEF Ranked

LEMMA ConsiderRanks ==
  ASSUME Typed, Ranked, NEW k \in pool, Consider(k)
  PROVE  Ranked'
<1> DEFINE passes == /\ merged[k].path # None => options.perPath > 0
                     /\ options.perSource > Cardinality(SameSource(merged[k].source))
<1>1. kept' = IF passes THEN Append(kept, k) ELSE kept
  BY DEF Consider, SameSource
<1>2. CASE passes
  BY <1>1, <1>2, ConsiderKeeps
<1>3. CASE ~passes
  BY <1>1, <1>3, ConsiderDrops
<1>4. QED BY <1>2, <1>3

(* The cut: what it leaves out is outranked by all it leaves.              *)
LEMMA AnswerRanked ==
  ASSUME Typed, Ranked, Answer
  PROVE  OutrankedOnly'
<1> DEFINE R == options.results
<1>1. /\ pool = {} /\ kept' = Results /\ merged' = merged /\ options' = options
  BY DEF Answer
<1>2. /\ Len(kept) \in Nat /\ DOMAIN kept = 1 .. Len(kept) /\ R \in Nat
      /\ \A i \in 1 .. Len(kept) : kept[i] \in DOMAIN merged
  BY KeptIndices, OptionFields DEF Typed, RecallTypeOK
<1>3. PICK n : n = IF Len(kept) <= R THEN Len(kept) ELSE R
  OBVIOUS
<1>4. /\ n \in Nat /\ n <= Len(kept) /\ n <= R /\ (n < Len(kept) => n = R)
      /\ DOMAIN kept' = 1 .. n /\ \A i \in 1 .. n : kept'[i] = kept[i] /\ i \in DOMAIN kept
  <2>1. /\ Results \in Seq(DOMAIN merged) /\ Len(Results) = n
        /\ \A i \in 1 .. Len(Results) : i \in 1 .. Len(kept) /\ Results[i] = kept[i]
    BY <1>3, ResultsTyped DEF Typed
  <2>2. DOMAIN Results = 1 .. n
    BY <2>1
  <2>3. n \in Nat /\ n <= Len(kept) /\ n <= R /\ (n < Len(kept) => n = R)
    BY <1>2, <1>3
  <2>4. QED BY <1>1, <1>2, <2>1, <2>2, <2>3
<1>5. \A a, b : Outranks(a, b)' = Outranks(a, b)
  BY <1>1 DEF Outranks, Ranking
<1>6. \A i, j \in DOMAIN kept' : i < j => Outranks(kept'[i], kept'[j])
  BY <1>4 DEF Ranked
<1>7. ASSUME NEW k \in DOMAIN merged \ Range(kept')
      PROVE  LET better == {i \in DOMAIN kept' : Outranks(kept'[i], k)}
                 same == {i \in better : merged[kept'[i]].source = merged[k].source}
             IN  \/ Cardinality(better) = R
                 \/ Cardinality(same) = options.perSource
                 \/ merged[k].path # None /\ options.perPath = 0
  <2> DEFINE better == {i \in DOMAIN kept' : Outranks(kept'[i], k)}
             same == {i \in better : merged[kept'[i]].source = merged[k].source}
  <2>1. ASSUME NEW j \in DOMAIN kept, n < j, kept[j] = k \/ Outranks(kept[j], k)
        PROVE  Cardinality(better) = R
    <3>1. n = R /\ j \in Nat
      BY <1>2, <1>4, <2>1
    <3>2. ASSUME NEW i \in 1 .. n PROVE Outranks(kept'[i], k)
      <4>1. i < j /\ i \in DOMAIN kept /\ kept'[i] = kept[i]
        BY <1>4, <2>1, <3>1
      <4>2. Outranks(kept[i], kept[j])
        BY <4>1 DEF Ranked
      <4>3. {kept[i], kept[j], k} \subseteq DOMAIN merged
        BY <1>2, <4>1
      <4>4. QED BY <2>1, <4>1, <4>2, <4>3, OutranksOrder
    <3>3. better = 1 .. n
      BY <1>4, <3>2
    <3>4. Cardinality(1 .. n) = n
      <4>1. 1 \in Int /\ n \in Int /\ (1 > n => n = 0)
        BY <1>4
      <4>2. Cardinality(1 .. n) = IF 1 > n THEN 0 ELSE n - 1 + 1
        BY <4>1, FS_Interval
      <4>3. QED BY <4>1, <4>2
    <3>5. QED BY <3>1, <3>3, <3>4
  <2>2. CASE k \in Range(kept)
    <3>1. PICK j \in DOMAIN kept : kept[j] = k
      BY <2>2 DEF Range
    <3>2. ~(j <= n)
      <4>1. ASSUME j <= n PROVE k \in Range(kept')
        <5>1. j \in DOMAIN kept' /\ kept'[j] = k
          BY <1>2, <1>4, <3>1, <4>1
        <5>2. QED BY <5>1 DEF Range
      <4>2. QED BY <4>1
    <3>3. n < j
      BY <1>2, <1>4, <3>1, <3>2
    <3>4. QED BY <2>1, <3>1, <3>3
  <2>3. CASE k \notin Range(kept)
    <3>1. Dropped(k)
      BY <1>1, <2>3 DEF Ranked
    <3>2. CASE \E j \in DOMAIN kept : n < j /\ Outranks(kept[j], k)
      BY <2>1, <3>2
    <3>3. CASE ~\E j \in DOMAIN kept : n < j /\ Outranks(kept[j], k)
      <4>1. Ahead(k) = same
        <5>1. \A i \in DOMAIN kept : Outranks(kept[i], k) => i \in 1 .. n
          BY <1>2, <1>4, <3>3
        <5>2. QED BY <1>4, <5>1 DEF Ahead, SameSource
      <4>2. QED BY <3>1, <4>1 DEF Dropped
    <3>4. QED BY <3>2, <3>3
  <2>4. QED BY <2>2, <2>3
<1>8. QED BY <1>1, <1>5, <1>6, <1>7 DEF OutrankedOnly

LEMMA RankStep ==
  ASSUME Typed, RankInv, [RecallNext]_recallVars
  PROVE  RankInv'
<1>1. CASE UNCHANGED recallVars
  <2>1. /\ phase' = phase /\ options' = options /\ merged' = merged
        /\ kept' = kept /\ pool' = pool
    BY <1>1 DEF recallVars
  <2>2. \A a, b : Outranks(a, b)' = Outranks(a, b)
    BY <2>1 DEF Outranks, Ranking
  <2>3. /\ \A m : Dropped(m)' = Dropped(m)
        /\ \A source : SameSource(source)' = SameSource(source)
    BY <2>1, <2>2 DEF Dropped, Ahead, SameSource
  <2>4. Ranked => Ranked'
    BY <2>1, <2>2, <2>3 DEF Ranked
  <2>5. OutrankedOnly => OutrankedOnly'
    BY <2>1, <2>2 DEF OutrankedOnly
  <2>6. QED BY <2>1, <2>4, <2>5 DEF RankInv
<1>2. ASSUME NEW r \in Requests, Refuse(r) \/ Fetch(r) \/ Anamnesis(r) \/ Route(r) PROVE RankInv'
  BY <1>2 DEF Refuse, Fetch, Anamnesis, Route, RankInv, OutrankedOnly
<1>3. ASSUME NEW call \in Calls, Fuse(call) PROVE RankInv'
  BY <1>3 DEF Fuse, RankInv, OutrankedOnly
<1>4. ASSUME NEW row \in Rows, TakeRow(row) PROVE RankInv'
  BY <1>4 DEF TakeRow, RankInv, OutrankedOnly
<1>5. CASE EndRows
  <2>1. phase' = "ranking"
    BY <1>5 DEF EndRows
  <2>2. QED BY <1>5, <2>1, EndRowsRanks DEF RankInv, OutrankedOnly
<1>6. CASE Answer
  <2>1. phase = "ranking" /\ phase' = "answered"
    BY <1>6 DEF Answer
  <2>2. QED BY <1>6, <2>1, AnswerRanked DEF RankInv
<1>7. ASSUME NEW k \in pool, Consider(k) PROVE RankInv'
  <2>1. phase = "ranking" /\ phase' = "ranking"
    BY <1>7 DEF Consider
  <2>2. QED BY <1>7, <2>1, ConsiderRanks DEF RankInv, OutrankedOnly
<1>8. QED BY <1>1, <1>2, <1>3, <1>4, <1>5, <1>6, <1>7 DEF RecallNext

(* What an answer lacks is outranked by a full answer, or by all its       *)
(* source may have.                                                        *)
THEOREM OnlyOutrankedIsMissing == RecallSpec => []OutrankedOnly
<1>1. RecallInit => RankInv
  BY DEF RecallInit, RankInv, OutrankedOnly
<1>2. RankInv => OutrankedOnly
  BY DEF RankInv
<1>3. Typed /\ RankInv /\ [RecallNext]_recallVars => RankInv'
  BY RankStep
<1>4. QED BY <1>1, <1>2, <1>3, RecallTyped, PTL DEF RecallSpec

-----------------------------------------------------------------------------
(* The canon of an answer.                                                 *)
LEMMA ConcatOnce ==
  ASSUME NEW S, NEW s \in Seq(S), NEW t \in Seq(S)
  PROVE  /\ Range(s \o t) = Range(s) \union Range(t)
         /\ IsInjective(s) /\ IsInjective(t) /\ Range(s) \intersect Range(t) = {}
              => IsInjective(s \o t)
<1>1. /\ Len(s) \in Nat /\ Len(t) \in Nat /\ DOMAIN s = 1 .. Len(s) /\ DOMAIN t = 1 .. Len(t)
      /\ DOMAIN (s \o t) = 1 .. Len(s) + Len(t)
      /\ \A i \in 1 .. Len(s) : (s \o t)[i] = s[i]
      /\ \A i \in 1 .. Len(t) : (s \o t)[Len(s) + i] = t[i]
  OBVIOUS
<1>2. \A i \in DOMAIN (s \o t) :
        \/ i \in 1 .. Len(s) /\ (s \o t)[i] = s[i]
        \/ i - Len(s) \in 1 .. Len(t) /\ (s \o t)[i] = t[i - Len(s)]
  <2>1. SUFFICES ASSUME NEW i \in DOMAIN (s \o t), i \notin 1 .. Len(s)
                 PROVE  i - Len(s) \in 1 .. Len(t) /\ (s \o t)[i] = t[i - Len(s)]
    BY <1>1
  <2>2. i - Len(s) \in 1 .. Len(t) /\ i = Len(s) + (i - Len(s))
    BY <1>1, <2>1
  <2>3. QED BY <1>1, <2>2
<1>3. Range(s \o t) = Range(s) \union Range(t)
  BY RangeConcatenation
<1>4. ASSUME IsInjective(s), IsInjective(t), Range(s) \intersect Range(t) = {}
      PROVE  IsInjective(s \o t)
  <2>1. SUFFICES ASSUME NEW i \in DOMAIN (s \o t), NEW j \in DOMAIN (s \o t),
                        (s \o t)[i] = (s \o t)[j]
                 PROVE  i = j
    BY DEF IsInjective
  <2>2. \A a \in 1 .. Len(s), b \in 1 .. Len(t) : s[a] # t[b]
    BY <1>1, <1>4 DEF Range
  <2>3. i \in Int /\ j \in Int
    BY <1>1
  <2>4. CASE i \in 1 .. Len(s) /\ (s \o t)[i] = s[i]
    <3>1. j \in 1 .. Len(s) /\ (s \o t)[j] = s[j]
      BY <1>2, <2>1, <2>2, <2>4
    <3>2. QED BY <1>1, <1>4, <2>1, <2>4, <3>1 DEF IsInjective
  <2>5. CASE i - Len(s) \in 1 .. Len(t) /\ (s \o t)[i] = t[i - Len(s)]
    <3>1. j - Len(s) \in 1 .. Len(t) /\ (s \o t)[j] = t[j - Len(s)]
      BY <1>2, <2>1, <2>2, <2>5
    <3>2. i - Len(s) = j - Len(s)
      BY <1>1, <1>4, <2>1, <2>5, <3>1 DEF IsInjective
    <3>3. QED BY <1>1, <2>3, <3>2
  <2>6. QED BY <1>2, <2>4, <2>5
<1>5. QED BY <1>3, <1>4

PointedBy(e) ==
  \E i \in DOMAIN taken, file \in FilesOf[e] :
    LET path == taken[i].path
    IN  path = file \/ (path \in DOMAIN Stripped /\ Stripped[path] = file)

LEMMA PointedByTaken ==
  ASSUME Typed, NEW e \in Range(Entries)
  PROVE  FilesOf[e] \intersect WithStripped(TakenPaths) # {} <=> PointedBy(e)
<1>1. /\ FilesOf[e] \subseteq Names /\ None \notin Names /\ DOMAIN Stripped \subseteq Names
  BY RecallAssumption
<1>2. \A p : p \in TakenPaths <=> p # None /\ \E i \in DOMAIN taken : taken[i].path = p
  BY DEF TakenPaths
<1>3. \A f : f \in WithStripped(TakenPaths) <=>
        \/ f \in TakenPaths
        \/ \E p \in TakenPaths : p \in DOMAIN Stripped /\ Stripped[p] = f
  BY DEF WithStripped
<1>4. ASSUME FilesOf[e] \intersect WithStripped(TakenPaths) # {} PROVE PointedBy(e)
  BY <1>2, <1>3, <1>4 DEF PointedBy
<1>5. ASSUME PointedBy(e) PROVE FilesOf[e] \intersect WithStripped(TakenPaths) # {}
  BY <1>1, <1>2, <1>3, <1>5 DEF PointedBy
<1>6. QED BY <1>4, <1>5

LEMMA AnswerCanon ==
  ASSUME Typed, Answer
  PROVE  CanonComplete'
<1>1. SUFFICES ASSUME request # NoRequest PROVE CanonComplete'
  BY DEF Answer, CanonComplete
<1> DEFINE names == NamedEntries(request)
           pointed == Pointed(TakenPaths, Range(names))
<1>2. canon' = names \o pointed /\ request' = request /\ taken' = taken
  BY <1>1 DEF Answer
<1>3. /\ names \in Seq(Range(Entries)) /\ IsInjective(names)
      /\ Range(names) \subseteq Range(Entries)
  BY NamedGives
<1>4. /\ pointed \in Seq(Range(Entries)) /\ IsInjective(pointed)
      /\ Range(pointed) = {e \in Range(Entries) \ Range(names) :
                            FilesOf[e] \intersect WithStripped(TakenPaths) # {}}
  BY PointedGives
<1> HIDE DEF names, pointed
<1>5. Range(pointed) = {e \in Range(Entries) \ Range(names) : PointedBy(e)}
  BY <1>4, PointedByTaken
<1>6. IsInjective(names \o pointed) /\ Range(names \o pointed) = Range(names) \union Range(pointed)
  BY <1>3, <1>4, ConcatOnce
<1>7. Range(names \o pointed) = Range(names) \union {e \in Range(Entries) : PointedBy(e)}
  BY <1>5, <1>6
<1>8. IsInjective(canon') /\ Range(canon') = Range(names) \union {e \in Range(Entries) : PointedBy(e)}
  BY <1>2, <1>6, <1>7
<1>9. NamedEntries(request)' = names
  BY <1>2 DEF names, NamedEntries
<1>10. QED BY <1>2, <1>8, <1>9 DEF CanonComplete, PointedBy

LEMMA CanonStep ==
  ASSUME Typed, CanonComplete, [RecallNext]_recallVars
  PROVE  CanonComplete'
<1>1. CASE UNCHANGED recallVars
  BY <1>1 DEF recallVars, CanonComplete, NamedEntries
<1>2. ASSUME phase' # "answered" PROVE CanonComplete'
  BY <1>2 DEF CanonComplete
<1>3. CASE Answer
  BY <1>3, AnswerCanon
<1>4. ASSUME RecallNext, ~Answer PROVE phase' # "answered"
  BY <1>4 DEF RecallNext, Refuse, Fetch, Anamnesis, Route, Fuse, TakeRow, EndRows, Consider
<1>5. QED BY <1>1, <1>2, <1>3, <1>4

(* Canon is what the query names and what its rows point to, once each.    *)
THEOREM CanonIsComplete == RecallSpec => []CanonComplete
<1>1. RecallInit => CanonComplete
  BY DEF RecallInit, CanonComplete
<1>2. Typed /\ CanonComplete /\ [RecallNext]_recallVars => CanonComplete'
  BY CanonStep
<1>3. QED BY <1>1, <1>2, RecallTyped, PTL DEF RecallSpec
=============================================================================
