--------------------------- MODULE RoomMemoryProofs ---------------------------
(***************************************************************************)
(* Theorems about RoomMemory for every set of sessions, threads, files and *)
(* prompts: what any overlap keeps, the ranking and its two slices, and    *)
(* the turns that follow each other as steps of AtomicRoom.                *)
(***************************************************************************)
EXTENDS RoomMemory, FiniteSetTheorems, WellFoundedInduction, TLAPS

-----------------------------------------------------------------------------
(* The updates of a turn give states from states.                          *)
LEMMA InitStateType ==
  /\ InitMemoryState \in State
  /\ NoQueue \in Queue
  /\ NoPrompt \in [Threads -> Nat]
BY DEF InitMemoryState, State, StateOf, Touch, NoTouch, NoHits, NoQueue, Queue, NoPrompt

LEMMA OpenTurnType ==
  ASSUME NEW st \in State, NEW s \in Sessions
  PROVE  OpenTurn(st, s) \in State
<1>1. NoHits \in [thread: [Threads -> Nat], file: [Files -> Nat]]
  BY DEF NoHits
<1>2. ResetMemorySessionIfNeeded(st, s) \in State
  BY <1>1 DEF ResetMemorySessionIfNeeded, State, StateOf
<1>3. QED
  BY <1>2 DEF OpenTurn, State, StateOf

LEMMA MatchesType ==
  ASSUME NEW st, NEW raw, NEW at
  PROVE  /\ SyncMatches(st, raw, at) \subseteq Threads
         /\ BuildMemoryPrefetchQueue(st, raw, at).threads \subseteq Threads
BY DEF SyncMatches, BuildMemoryPrefetchQueue, PrefetchMatches, Ranked

LEMMA QueueType ==
  ASSUME NEW st \in State, NEW raw, NEW at
  PROVE  BuildMemoryPrefetchQueue(st, raw, at) \in Queue
BY DEF BuildMemoryPrefetchQueue, PrefetchMatches, Ranked, Queue, State, StateOf

LEMMA HitsType ==
  ASSUME NEW st \in State, NEW hitThreads \in SUBSET Threads
  PROVE  UpdateMemorySessionHits(st, hitThreads) \in State
<1>1. ASSUME NEW f \in Files
      PROVE  Cardinality({p \in hitThreads \X Refs :
                            p[2] \in Entries[p[1]] /\ FileOf[p[2]] = f}) \in Nat
  <2>1. IsFiniteSet(hitThreads \X Refs)
    BY FS_Subset, FS_Product, RankAssumption
  <2>2. QED
    BY <2>1, FS_Subset, FS_CardinalityType
<1>. DEFINE pointers(f) == Cardinality({p \in hitThreads \X Refs :
                              p[2] \in Entries[p[1]] /\ FileOf[p[2]] = f})
             new == [thread |-> [t \in Threads |->
                        IF t \in hitThreads THEN st.hits.thread[t] + 1
                                            ELSE st.hits.thread[t]],
                     file |-> [f \in Files |-> st.hits.file[f] + pointers(f)]]
<1>2. \A f \in Files : pointers(f) \in Nat
  BY <1>1
<1>3. st.hits.file \in [Files -> Nat] /\ st.hits.thread \in [Threads -> Nat]
  BY DEF State, StateOf
<1>4. new \in [thread: [Threads -> Nat], file: [Files -> Nat]]
  <2>. HIDE DEF pointers
  <2>. QED  BY <1>2, <1>3
<1>5. UpdateMemorySessionHits(st, hitThreads) = [st EXCEPT !.hits = new]
  BY DEF UpdateMemorySessionHits
<1>6. QED
  <2>. HIDE DEF new
  <2>. QED  BY <1>4, <1>5 DEF State, StateOf

LEMMA FreshnessType ==
  ASSUME NEW st \in State, NEW union, NEW at \in Nat
  PROVE  UpdateMemoryStateFreshness(st, union, at) \in State
<1>1. \A f \in Files : [st.loaded[f] EXCEPT !.at = at, !.turn = st.turn] \in Touch
  BY ZenonT(60) DEF State, StateOf, Touch
<1>2. QED
  BY <1>1 DEF UpdateMemoryStateFreshness, State, StateOf

LEMMA CloseTurnType ==
  ASSUME NEW st \in State, NEW raw, NEW union, NEW at \in Nat
  PROVE  CloseTurn(st, raw, union, at) \in State
BY HitsType, FreshnessType, MatchesType DEF CloseTurn

LEMMA UnionType ==
  ASSUME NEW st \in State, NEW raw, NEW threads, NEW found \in SUBSET Files, NEW at
  PROVE  RetrievedUnion(st, raw, threads, found, at) \subseteq Files
BY RankAssumption DEF RetrievedUnion, Pinned, ExcerptFiles

LEMMA FileTypes ==
  ASSUME NEW S, NEW v \in S, NEW w \in S, NEW file \in JsonFiles(S)
  PROVE  /\ Emptied(v) \in JsonFiles(S)
         /\ ReadJson(file, v) \in S
         /\ AfterWrite(file, w, v) \subseteq JsonFiles(S)
BY DEF JsonFiles, FileKinds, Emptied, ReadJson, AfterWrite, Whole, Torn

LEMMA ForgetType ==
  ASSUME TypeOK, NEW s \in Sessions, Forget(s)
  PROVE  /\ pc' \in [Sessions -> Phases]
         /\ prompt' \in [Sessions -> [Threads -> Nat]]
         /\ mine' \in [Sessions -> State] /\ base' \in [Sessions -> State]
         /\ queue' \in [Sessions -> Queue]
         /\ stamp' \in [Sessions -> Nat]
         /\ pulled' \in [Sessions -> SUBSET Files]
         /\ matched' \in [Sessions -> SUBSET Threads]
<1>1. "idle" \in Phases /\ 0 \in Nat /\ {} \in SUBSET Files /\ {} \in SUBSET Threads
  BY DEF Phases
<1>2. /\ prompt' \in [Sessions -> [Threads -> Nat]]
      /\ mine' \in [Sessions -> State] /\ base' \in [Sessions -> State]
      /\ queue' \in [Sessions -> Queue]
  BY InitStateType DEF TypeOK, Forget
<1>3. /\ pc' \in [Sessions -> Phases]
      /\ stamp' \in [Sessions -> Nat]
      /\ pulled' \in [Sessions -> SUBSET Files]
      /\ matched' \in [Sessions -> SUBSET Threads]
  BY <1>1 DEF TypeOK, Forget
<1>4. QED
  BY <1>2, <1>3

-----------------------------------------------------------------------------
LEMMA TypeInit == Init => TypeOK
<1>. SUFFICES ASSUME Init
              PROVE  TypeOK
  OBVIOUS
<1>1. disk \in JsonFiles(State) /\ prefetch \in JsonFiles(Queue)
  BY InitStateType DEF Init, Emptied, JsonFiles, FileKinds
<1>2. /\ prompt \in [Sessions -> [Threads -> Nat]]
      /\ mine \in [Sessions -> State] /\ base \in [Sessions -> State]
      /\ queue \in [Sessions -> Queue]
  BY InitStateType DEF Init
<1>3. /\ now \in Nat /\ begun \in Nat
      /\ pc \in [Sessions -> Phases]
      /\ stamp \in [Sessions -> Nat]
      /\ pulled \in [Sessions -> SUBSET Files]
      /\ matched \in [Sessions -> SUBSET Threads]
  BY DEF Init, Phases
<1>4. /\ served \in [Sessions -> [Threads -> Nat]]
      /\ pulledAt \in [Files -> Nat]
      /\ pins \subseteq Files /\ mixed \in BOOLEAN
  BY DEF Init
<1>5. QED
  BY <1>1, <1>2, <1>3, <1>4 DEF TypeOK

LEMMA TypeStep == TypeOK /\ [Next]_vars => TypeOK'
<1>. SUFFICES ASSUME TypeOK, [Next]_vars
              PROVE  TypeOK'
  OBVIOUS
<1>1. ASSUME NEW s \in Sessions, NEW raw \in Prompts, Begin(s, raw)
      PROVE  TypeOK'
  BY <1>1, TurnAssumption DEF TypeOK, Begin, Goto, Phases, ledger
<1>2. ASSUME NEW s \in Sessions, ReadState(s)
      PROVE  TypeOK'
  <2>1. ReadJson(disk, InitMemoryState) \in State
    BY InitStateType, FileTypes DEF TypeOK
  <2>2. OpenTurn(ReadJson(disk, InitMemoryState), s) \in State
    BY <2>1, OpenTurnType
  <2>3. QED
    BY <1>2, <2>1, <2>2 DEF TypeOK, ReadState, Goto, Phases, ledger, files
<1>3. ASSUME NEW s \in Sessions, ReadPrefetch(s)
      PROVE  TypeOK'
  <2>1. ReadJson(prefetch, NoQueue) \in Queue
    BY InitStateType, FileTypes DEF TypeOK
  <2>2. QED
    BY <1>3, <2>1 DEF TypeOK, ReadPrefetch, Goto, Phases, ledger, files
<1>4. ASSUME NEW s \in Sessions, NEW found \in Lanes, Retrieve(s, found)
      PROVE  TypeOK'
  <2>. DEFINE union == RetrievedUnion(mine[s], prompt[s], queue[s].threads, found, now)
  <2>1. mine[s] \in State /\ now \in Nat /\ found \in SUBSET Files
    BY TurnAssumption DEF TypeOK
  <2>2. CloseTurn(mine[s], prompt[s], union, now) \in State
    BY <2>1, CloseTurnType
  <2>3. /\ BuildMemoryPrefetchQueue(mine[s], prompt[s], now) \in Queue
        /\ SyncMatches(mine[s], prompt[s], now) \in SUBSET Threads
        /\ union \in SUBSET Files
    BY <2>1, QueueType, MatchesType, UnionType
  <2>4. Emptied(InitMemoryState) \in JsonFiles(State)
    BY InitStateType DEF Emptied, JsonFiles, FileKinds
  <2>. HIDE DEF union
  <2>5. /\ mine' = [mine EXCEPT ![s] = CloseTurn(mine[s], prompt[s], union, now)]
        /\ queue' = [queue EXCEPT ![s] = BuildMemoryPrefetchQueue(mine[s], prompt[s], now)]
        /\ disk' = Emptied(InitMemoryState)
        /\ pc' = [pc EXCEPT ![s] = "saving"]
        /\ stamp' = [stamp EXCEPT ![s] = now]
        /\ pulled' = [pulled EXCEPT ![s] = union]
        /\ matched' = [matched EXCEPT ![s] = SyncMatches(mine[s], prompt[s], now)]
        /\ mixed' \in BOOLEAN
        /\ UNCHANGED <<prefetch, now, begun, prompt, base, served, pulledAt, pins>>
    BY <1>4 DEF Retrieve, Goto, TypeOK, union
  <2>6. QED
    BY <2>1, <2>2, <2>3, <2>4, <2>5 DEF TypeOK, Phases
<1>5. ASSUME NEW s \in Sessions, SaveState(s)
      PROVE  TypeOK'
  <2>1. disk' \in JsonFiles(State)
    BY <1>5, InitStateType, FileTypes DEF TypeOK, SaveState
  <2>2. served' \in [Sessions -> [Threads -> Nat]]
    BY <1>5 DEF TypeOK, SaveState
  <2>3. pulledAt' \in [Files -> Nat]
    BY <1>5 DEF TypeOK, SaveState
  <2>4. QED
    BY <1>5, <2>1, <2>2, <2>3 DEF TypeOK, SaveState, Goto, Phases
<1>6. ASSUME NEW s \in Sessions, OpenPrefetch(s)
      PROVE  TypeOK'
  <2>1. Emptied(NoQueue) \in JsonFiles(Queue)
    BY InitStateType DEF Emptied, JsonFiles, FileKinds
  <2>2. QED
    BY <1>6, <2>1 DEF TypeOK, OpenPrefetch, Goto, Phases, ledger
<1>7. ASSUME NEW s \in Sessions, SavePrefetch(s)
      PROVE  TypeOK'
  <2>1. prefetch' \in JsonFiles(Queue)
    BY <1>7, InitStateType, FileTypes DEF TypeOK, SavePrefetch
  <2>2. QED
    BY <1>7, <2>1, ForgetType DEF TypeOK, SavePrefetch, ledger
<1>8. ASSUME NEW s \in Sessions, ReturnEmpty(s) \/ CutOff(s)
      PROVE  TypeOK'
  BY <1>8, ForgetType DEF TypeOK, ReturnEmpty, CutOff, ledger, files
<1>9. ASSUME NEW f \in Files, Pin(f)
      PROVE  TypeOK'
  <2>1. disk' \in JsonFiles(State)
    <3>1. disk.value \in State /\ disk.kind \in FileKinds
      BY DEF TypeOK, JsonFiles
    <3>2. [disk.value EXCEPT !.loaded[f].pinned = TRUE] \in State
      BY <3>1, ZenonT(60) DEF State, StateOf, Touch
    <3>3. disk' = [disk EXCEPT !.value = [disk.value EXCEPT !.loaded[f].pinned = TRUE]]
      BY <1>9 DEF Pin, TypeOK, JsonFiles
    <3>4. QED
      BY <3>1, <3>2, <3>3 DEF TypeOK, JsonFiles
  <2>2. QED
    BY <1>9, <2>1 DEF TypeOK, Pin, turnVars
<1>10. CASE Tick
  BY <1>10 DEF TypeOK, Tick, files, turnVars, ledger
<1>11. CASE UNCHANGED vars
  BY <1>11 DEF TypeOK, vars
<1>12. QED
  BY <1>1, <1>2, <1>3, <1>4, <1>5, <1>6, <1>7, <1>8, <1>9, <1>10, <1>11 DEF Next, Advance

(* Every variable keeps its type: in particular a state written to the     *)
(* disk is always a complete state record, whatever the turns do.          *)
THEOREM TypeCorrect == Spec => []TypeOK
BY TypeInit, TypeStep, PTL DEF Spec
-----------------------------------------------------------------------------
(* What the updates of a turn do to the parts the safety invariants read.  *)
LEMMA OpenTurnEffect ==
  ASSUME NEW st \in State, NEW s \in Sessions
  PROVE  /\ OpenTurn(st, s).turn = st.turn + 1
         /\ OpenTurn(st, s).session = s
         /\ OpenTurn(st, s).loaded = st.loaded
         /\ OpenTurn(st, s).hits = IF st.session = s THEN st.hits ELSE NoHits
BY DEF OpenTurn, ResetMemorySessionIfNeeded, State, StateOf

LEMMA CloseTurnKeeps ==
  ASSUME NEW st \in State, NEW raw, NEW union, NEW at \in Nat
  PROVE  /\ CloseTurn(st, raw, union, at).turn = st.turn
         /\ CloseTurn(st, raw, union, at).session = st.session
BY DEF CloseTurn, UpdateMemorySessionHits, UpdateMemoryStateFreshness, State, StateOf

LEMMA CloseTurnTouches ==
  ASSUME NEW st \in State, NEW raw, NEW union, NEW at \in Nat, NEW f \in Files
  PROVE  LET touch == CloseTurn(st, raw, union, at).loaded[f]
         IN  /\ touch.pinned = st.loaded[f].pinned
             /\ f \in union => touch.at = at /\ touch.turn = st.turn
             /\ f \notin union => touch = st.loaded[f]
BY DEF CloseTurn, UpdateMemorySessionHits, UpdateMemoryStateFreshness, State, StateOf, Touch

LEMMA CloseTurnCounts ==
  ASSUME NEW st \in State, NEW raw, NEW union, NEW at \in Nat, NEW t \in Threads
  PROVE  LET hits == CloseTurn(st, raw, union, at).hits.thread[t]
         IN  /\ t \in SyncMatches(st, raw, at) => hits = st.hits.thread[t] + 1
             /\ t \notin SyncMatches(st, raw, at) => hits = st.hits.thread[t]
BY DEF CloseTurn, UpdateMemorySessionHits, UpdateMemoryStateFreshness, State, StateOf

LEMMA InitNotAhead == NotAhead(InitMemoryState)
BY DEF NotAhead, InitMemoryState, NoTouch

LEMMA OpenNotAhead ==
  ASSUME NEW st \in State, NEW s \in Sessions, NotAhead(st)
  PROVE  NotAhead(OpenTurn(st, s))
<1>1. \A f \in Files : st.loaded[f].turn \in Nat /\ st.turn \in Nat
  BY DEF State, StateOf, Touch
<1>2. QED
  BY <1>1, OpenTurnEffect DEF NotAhead

LEMMA CloseNotAhead ==
  ASSUME NEW st \in State, NEW raw, NEW union, NEW at \in Nat, NotAhead(st)
  PROVE  NotAhead(CloseTurn(st, raw, union, at))
<1>1. st.turn \in Nat /\ \A f \in Files : st.loaded[f] \in Touch
  BY DEF State, StateOf
<1>. DEFINE closed == CloseTurn(st, raw, union, at)
<1>3. closed.turn = st.turn
  BY CloseTurnKeeps
<1>4. \A f \in Files : closed.loaded[f].turn \in {st.turn, st.loaded[f].turn}
  BY CloseTurnTouches
<1>. HIDE DEF closed
<1>5. NotAhead(closed)
  BY <1>1, <1>3, <1>4 DEF NotAhead, Touch
<1>6. QED
  BY <1>5 DEF closed

-----------------------------------------------------------------------------
(* No interleaving of turns, torn write or cut-off turn leaves a state     *)
(* claiming a touch in a turn it has not reached.                          *)
THEOREM NeverAhead == Spec => []TouchNeverAhead
<1>1. Init => TouchNeverAhead
  BY InitNotAhead DEF Init, TouchNeverAhead, Emptied
<1>2. TypeOK /\ TouchNeverAhead /\ [Next]_vars => TouchNeverAhead'
  <2>. SUFFICES ASSUME TypeOK, TouchNeverAhead, [Next]_vars
                PROVE  TouchNeverAhead'
    OBVIOUS
  <2>1. /\ disk.value \in State /\ NotAhead(disk.value) /\ NotAhead(InitMemoryState)
        /\ \A s \in Sessions : mine[s] \in State /\ NotAhead(mine[s])
        /\ ReadJson(disk, InitMemoryState) \in State
        /\ NotAhead(ReadJson(disk, InitMemoryState))
    BY InitNotAhead, InitStateType DEF TypeOK, TouchNeverAhead, JsonFiles, ReadJson
  <2>2. ASSUME NEW s \in Sessions, NEW st, NotAhead(st), disk' = disk,
               mine' = [mine EXCEPT ![s] = st]
        PROVE  TouchNeverAhead'
    BY <2>1, <2>2 DEF TouchNeverAhead, NotAhead, TypeOK
  <2>3. ASSUME NEW s \in Sessions, ReadState(s)
        PROVE  TouchNeverAhead'
    <3>1. NotAhead(OpenTurn(ReadJson(disk, InitMemoryState), s))
      BY <2>1, OpenNotAhead
    <3>2. QED
      BY <2>2, <2>3, <3>1 DEF ReadState, files
  <2>4. ASSUME NEW s \in Sessions, NEW found \in Lanes, Retrieve(s, found)
        PROVE  TouchNeverAhead'
    <3>. DEFINE union == RetrievedUnion(mine[s], prompt[s], queue[s].threads, found, now)
                st == CloseTurn(mine[s], prompt[s], union, now)
    <3>1. NotAhead(st)
      BY <2>1, CloseNotAhead DEF TypeOK
    <3>2. mine' = [mine EXCEPT ![s] = st] /\ disk'.value = InitMemoryState
      BY <2>4 DEF Retrieve, Emptied
    <3>. HIDE DEF st
    <3>3. \A other \in Sessions : NotAhead(mine'[other])
      BY <2>1, <3>1, <3>2 DEF TypeOK
    <3>4. NotAhead(disk'.value)
      BY <2>1, <3>2
    <3>5. QED
      BY <3>3, <3>4 DEF TouchNeverAhead, NotAhead
  <2>5. ASSUME NEW s \in Sessions, SaveState(s)
        PROVE  TouchNeverAhead'
    <3>1. disk'.value \in {mine[s], InitMemoryState} /\ mine' = mine
      BY <2>5 DEF SaveState, AfterWrite, Whole, Torn
    <3>2. NotAhead(disk'.value)
      BY <2>1, <3>1
    <3>3. QED
      BY <2>1, <3>1, <3>2 DEF TouchNeverAhead, NotAhead
  <2>6. ASSUME NEW s \in Sessions, Forget(s), disk' = disk
        PROVE  TouchNeverAhead'
    BY <2>1, <2>2, <2>6 DEF Forget
  <2>7. ASSUME NEW f \in Files, Pin(f)
        PROVE  TouchNeverAhead'
    <3>1. /\ mine' = mine
          /\ disk'.value = [disk.value EXCEPT !.loaded[f].pinned = TRUE]
      BY <2>7 DEF Pin, turnVars, TypeOK, JsonFiles
    <3>2. NotAhead(disk'.value)
      BY <2>1, <3>1 DEF NotAhead, State, StateOf, Touch
    <3>3. QED
      BY <2>1, <3>1, <3>2 DEF TouchNeverAhead, NotAhead
  <2>8. CASE UNCHANGED <<disk, mine>>
    BY <2>8 DEF TouchNeverAhead, NotAhead
  <2>9. QED
    BY <2>3, <2>4, <2>5, <2>6, <2>7, <2>8
    DEF Next, Advance, Begin, ReadPrefetch, OpenPrefetch, SavePrefetch, ReturnEmpty, CutOff,
        Tick, vars, files, turnVars
<1>3. QED
  BY <1>1, <1>2, TypeCorrect, PTL DEF Spec

-----------------------------------------------------------------------------
(* Two writers. A session that is writing emptied the file; the text it    *)
(* finds there when it writes is that of another session that was writing  *)
(* too.                                                                    *)
WritersMix ==
  /\ \A s1, s2 \in Sessions :
       s1 # s2 /\ pc[s1] = "saving" /\ pc[s2] = "saving" => mixed
  /\ \A s \in Sessions : pc[s] = "saving" /\ disk.kind # "empty" => mixed
  /\ TornNeedsTwoWriters

(* The state file is torn only if two sessions were writing it at once.    *)
THEOREM TornByTwo == Spec => []TornNeedsTwoWriters
<1>1. Init => WritersMix
  BY DEF Init, WritersMix, TornNeedsTwoWriters, Emptied
<1>2. TypeOK /\ WritersMix /\ [Next]_vars => WritersMix'
  <2>. SUFFICES ASSUME TypeOK, WritersMix, [Next]_vars
                PROVE  WritersMix'
    OBVIOUS
  <2>1. pc \in [Sessions -> Phases] /\ mixed \in BOOLEAN
    BY DEF TypeOK
  <2>2. ASSUME NEW s \in Sessions, NEW found \in Lanes, Retrieve(s, found)
        PROVE  WritersMix'
    <3>1. /\ disk'.kind = "empty"
          /\ pc' = [pc EXCEPT ![s] = "saving"]
          /\ mixed' = (mixed \/ \E other \in Sessions \ {s} : pc[other] = "saving")
      BY <2>2 DEF Retrieve, Goto, Emptied
    <3>2. QED
      BY <2>1, <3>1 DEF WritersMix, TornNeedsTwoWriters
  <2>3. ASSUME NEW s \in Sessions, SaveState(s)
        PROVE  WritersMix'
    <3>1. /\ pc[s] = "saving" /\ pc' = [pc EXCEPT ![s] = "saved"] /\ mixed' = mixed
          /\ disk'.kind = "torn" => disk.kind # "empty"
      BY <2>3 DEF SaveState, Goto, AfterWrite, Whole, Torn
    <3>2. QED
      BY <2>1, <3>1 DEF WritersMix, TornNeedsTwoWriters
  <2>4. ASSUME NEW f \in Files, Pin(f)
        PROVE  WritersMix'
    <3>1. pc' = pc /\ mixed' = mixed /\ disk'.kind = disk.kind
      BY <2>4 DEF Pin, turnVars, TypeOK, JsonFiles
    <3>2. QED
      BY <3>1, <2>1 DEF WritersMix, TornNeedsTwoWriters
  <2>5. ASSUME disk' = disk, mixed' = mixed,
               \A s \in Sessions : pc'[s] = "saving" => pc[s] = "saving"
        PROVE  WritersMix'
    BY <2>5, <2>1 DEF WritersMix, TornNeedsTwoWriters
  <2>6. ASSUME NEW s \in Sessions, NEW phase, phase # "saving", pc' = [pc EXCEPT ![s] = phase],
               disk' = disk, mixed' = mixed
        PROVE  WritersMix'
    BY <2>1, <2>5, <2>6
  <2>7. ASSUME NEW s \in Sessions, NEW raw \in Prompts, Begin(s, raw)
        PROVE  WritersMix'
    BY <2>6, <2>7 DEF Begin, Goto, ledger
  <2>8. ASSUME NEW s \in Sessions, ReadState(s) \/ ReadPrefetch(s) \/ OpenPrefetch(s)
        PROVE  WritersMix'
    BY <2>6, <2>8 DEF ReadState, ReadPrefetch, OpenPrefetch, Goto, ledger, files
  <2>9. ASSUME NEW s \in Sessions, SavePrefetch(s) \/ ReturnEmpty(s) \/ CutOff(s)
        PROVE  WritersMix'
    BY <2>6, <2>9 DEF SavePrefetch, ReturnEmpty, CutOff, Forget, ledger, files
  <2>10. CASE Tick \/ UNCHANGED vars
    BY <2>5, <2>10 DEF Tick, files, turnVars, ledger, vars
  <2>11. QED
    BY <2>2, <2>3, <2>4, <2>7, <2>8, <2>9, <2>10 DEF Next, Advance
<1>3. WritersMix => TornNeedsTwoWriters
  BY DEF WritersMix
<1>4. QED
  BY <1>1, <1>2, <1>3, TypeCorrect, PTL DEF Spec

-----------------------------------------------------------------------------
(* Hits. The counts a session's turn works on are those of its own saved   *)
(* turns, plus the matches of this one once it has made them.              *)
Counted(s, t) ==
  /\ disk.value.session = s => disk.value.hits.thread[t] <= served[s][t]
  /\ pc[s] \in {"read", "ranking", "saving"} => mine[s].session = s
  /\ pc[s] \in {"read", "ranking"} => mine[s].hits.thread[t] <= served[s][t]
  /\ pc[s] = "saving" =>
       mine[s].hits.thread[t] <= served[s][t] + (IF t \in matched[s] THEN 1 ELSE 0)

HitsBacked == \A s \in Sessions, t \in Threads : Counted(s, t)

LEMMA SessionOfFresh ==
  /\ \A s \in Sessions : InitMemoryState.session # s
  /\ \A t \in Threads : NoHits.thread[t] = 0
BY TurnAssumption DEF InitMemoryState, NoHits

(* The counts in the file never exceed the turns they stand for, so no     *)
(* session is penalised for what another was shown.                        *)
THEOREM HitsEarned == Spec => []HitsAreEarned
<1>1. Init => HitsBacked
  BY SessionOfFresh DEF Init, HitsBacked, Counted, Emptied
<1>2. TypeOK /\ HitsBacked /\ [Next]_vars => HitsBacked'
  <2>. SUFFICES ASSUME TypeOK, HitsBacked, [Next]_vars,
                       NEW u \in Sessions, NEW t \in Threads
                PROVE  Counted(u, t)'
    BY DEF HitsBacked
  <2>1. /\ pc \in [Sessions -> Phases] /\ served[u][t] \in Nat
        /\ mine \in [Sessions -> State] /\ matched \in [Sessions -> SUBSET Threads]
        /\ Counted(u, t)
    BY DEF TypeOK, HitsBacked
  <2>2. ASSUME NEW s \in Sessions, ReadState(s)
        PROVE  Counted(u, t)'
    <3>. DEFINE found == ReadJson(disk, InitMemoryState)
    <3>1. found \in State
      BY InitStateType DEF TypeOK, JsonFiles, ReadJson
    <3>2. found.session = s => found.hits.thread[t] <= served[s][t]
      BY SessionOfFresh DEF ReadJson, HitsBacked, Counted
    <3>3. OpenTurn(found, s).session = s /\ OpenTurn(found, s).hits.thread[t] <= served[s][t]
      BY <3>1, <3>2, OpenTurnEffect, SessionOfFresh DEF TypeOK
    <3>4. /\ pc' = [pc EXCEPT ![s] = "read"] /\ mine' = [mine EXCEPT ![s] = OpenTurn(found, s)]
          /\ disk' = disk /\ served' = served /\ matched' = matched
      BY <2>2 DEF ReadState, Goto, files, ledger
    <3>. HIDE DEF found
    <3>5. QED
      BY <2>1, <3>3, <3>4 DEF Counted
  <2>3. ASSUME NEW s \in Sessions, NEW found \in Lanes, Retrieve(s, found)
        PROVE  Counted(u, t)'
    <3>. DEFINE union == RetrievedUnion(mine[s], prompt[s], queue[s].threads, found, now)
                st == CloseTurn(mine[s], prompt[s], union, now)
                hit == SyncMatches(mine[s], prompt[s], now)
    <3>1. /\ st.session = mine[s].session
          /\ t \in hit => st.hits.thread[t] = mine[s].hits.thread[t] + 1
          /\ t \notin hit => st.hits.thread[t] = mine[s].hits.thread[t]
      BY CloseTurnKeeps, CloseTurnCounts DEF TypeOK
    <3>2. /\ pc[s] = "ranking" /\ pc' = [pc EXCEPT ![s] = "saving"]
          /\ mine' = [mine EXCEPT ![s] = st] /\ matched' = [matched EXCEPT ![s] = hit]
          /\ disk'.value = InitMemoryState /\ served' = served
      BY <2>3 DEF Retrieve, Goto, Emptied
    <3>3. mine[s].hits.thread[t] \in Nat
      BY DEF TypeOK, State, StateOf
    <3>. HIDE DEF st, hit
    <3>4. CASE u = s
      BY <2>1, <3>1, <3>2, <3>3, <3>4, SessionOfFresh DEF Counted
    <3>5. CASE u # s
      BY <2>1, <3>2, <3>5, SessionOfFresh DEF Counted
    <3>6. QED
      BY <3>4, <3>5
  <2>4. ASSUME NEW s \in Sessions, SaveState(s)
        PROVE  Counted(u, t)'
    <3>1. /\ pc[s] = "saving" /\ pc' = [pc EXCEPT ![s] = "saved"]
          /\ mine' = mine /\ matched' = matched
          /\ disk'.value \in {mine[s], InitMemoryState}
      BY <2>4 DEF SaveState, Goto, AfterWrite, Whole, Torn
    <3>2. /\ served'[u][t] \in Nat /\ served[u][t] <= served'[u][t]
          /\ u = s => served'[s][t] = served[s][t] + (IF t \in matched[s] THEN 1 ELSE 0)
      BY <2>1, <2>4 DEF SaveState, TypeOK
    <3>3. Counted(s, t)
      BY DEF HitsBacked
    <3>4. mine[u].hits.thread[t] \in Nat
      BY DEF TypeOK, State, StateOf
    <3>5. disk'.value.session = u => disk'.value.hits.thread[t] <= served'[u][t]
      BY <3>1, <3>2, <3>3, SessionOfFresh DEF Counted
    <3>6. QED
      BY <2>1, <3>1, <3>2, <3>4, <3>5 DEF Counted
  <2>5. ASSUME NEW f \in Files, Pin(f)
        PROVE  Counted(u, t)'
    <3>1. /\ pc' = pc /\ mine' = mine /\ served' = served /\ matched' = matched
          /\ disk'.value.session = disk.value.session /\ disk'.value.hits = disk.value.hits
      BY <2>5 DEF Pin, turnVars, TypeOK, JsonFiles, State, StateOf
    <3>2. QED
      BY <2>1, <3>1 DEF Counted
  <2>6. ASSUME NEW s \in Sessions, Forget(s), disk' = disk, served' = served
        PROVE  Counted(u, t)'
    BY <2>1, <2>6 DEF Forget, Counted
  <2>7. ASSUME disk' = disk, mine' = mine, served' = served, matched' = matched,
               pc'[u] \in {"read", "ranking"} => pc[u] \in {"read", "ranking"},
               pc'[u] = "saving" => pc[u] = "saving"
        PROVE  Counted(u, t)'
    BY <2>1, <2>7 DEF Counted
  <2>8. ASSUME NEW s \in Sessions, NEW raw \in Prompts, Begin(s, raw)
        PROVE  Counted(u, t)'
    BY <2>1, <2>7, <2>8 DEF Begin, Goto, ledger
  <2>9. ASSUME NEW s \in Sessions, ReadPrefetch(s) \/ OpenPrefetch(s)
        PROVE  Counted(u, t)'
    BY <2>1, <2>7, <2>9 DEF ReadPrefetch, OpenPrefetch, Goto, ledger, files
  <2>10. ASSUME NEW s \in Sessions, SavePrefetch(s) \/ ReturnEmpty(s) \/ CutOff(s)
         PROVE  Counted(u, t)'
    BY <2>6, <2>10 DEF SavePrefetch, ReturnEmpty, CutOff, ledger, files
  <2>11. CASE Tick \/ UNCHANGED vars
    BY <2>7, <2>11 DEF Tick, files, turnVars, ledger, vars
  <2>12. QED
    BY <2>2, <2>3, <2>4, <2>5, <2>8, <2>9, <2>10, <2>11 DEF Next, Advance
<1>3. HitsBacked => HitsAreEarned
  BY DEF HitsBacked, Counted, HitsAreEarned
<1>4. QED
  BY <1>1, <1>2, <1>3, TypeCorrect, PTL DEF Spec
-----------------------------------------------------------------------------
(* Arithmetic the ranking needs: what Power and Max give. A set of naturals*)
(* has a least one: induction without an operator for what is shown.       *)
LEMMA LeastNatural ==
  ASSUME NEW T \in SUBSET Nat, T # {}
  PROVE  \E n \in T : \A m \in T : n <= m
<1>. DEFINE R == OpToRel(<, Nat)
<1>1. IsWellFoundedOn(R, Nat)
  BY NatLessThanWellFounded
<1>2. PICK n \in T : \A m \in T : <<m, n>> \notin R
  <2>. HIDE DEF R
  <2>. QED  BY <1>1, WFMin
<1>3. ASSUME NEW m \in T, m < n PROVE FALSE
  BY <1>2, <1>3 DEF OpToRel
<1>4. n \in Nat /\ \A m \in T : m \in Nat
  OBVIOUS
<1>. QED
  BY <1>3, <1>4

(* p holds the powers of b with the exponents of S.                        *)
Powers(p, b, S) == p = [k \in S |-> IF k = 0 THEN 1 ELSE b * p[k - 1]]

LEMMA PowersAgree ==
  ASSUME NEW b, NEW p, NEW q, NEW N \in Nat, NEW M \in Nat, N <= M,
         Powers(p, b, 0 .. N), Powers(q, b, 0 .. M)
  PROVE  \A k \in 0 .. N : p[k] = q[k]
<1>. DEFINE T == {k \in 0 .. N : p[k] # q[k]}
<1>1. SUFFICES ASSUME T # {} PROVE FALSE
  OBVIOUS
<1>2. PICK k \in T : \A m \in T : k <= m
  <2>1. T \in SUBSET Nat
    OBVIOUS
  <2>. HIDE DEF T
  <2>. QED  BY <1>1, <2>1, LeastNatural
<1>3. k \in 0 .. N /\ k \in 0 .. M /\ p[k] # q[k]
  BY <1>2
<1>4. /\ p[k] = IF k = 0 THEN 1 ELSE b * p[k - 1]
      /\ q[k] = IF k = 0 THEN 1 ELSE b * q[k - 1]
  BY <1>3 DEF Powers
<1>5. k # 0 /\ k - 1 \in 0 .. N /\ k - 1 < k
  BY <1>3, <1>4
<1>6. p[k - 1] = q[k - 1]
  BY <1>2, <1>5
<1>. QED
  BY <1>3, <1>4, <1>5, <1>6

LEMMA PowersNext ==
  ASSUME NEW b, NEW N \in Nat, NEW p, Powers(p, b, 0 .. N)
  PROVE  \E q : Powers(q, b, 0 .. N + 1)
<1>. DEFINE q == [k \in 0 .. N + 1 |-> IF k = N + 1 THEN b * p[N] ELSE p[k]]
<1>1. ASSUME NEW k \in 0 .. N + 1
      PROVE  q[k] = IF k = 0 THEN 1 ELSE b * q[k - 1]
  <2>1. CASE k = N + 1
    BY <2>1
  <2>2. CASE k # N + 1
    <3>1. k \in 0 .. N /\ (k # 0 => k - 1 \in 0 .. N /\ k - 1 # N + 1 /\ k - 1 \in 0 .. N + 1)
      BY <2>2
    <3>2. p[k] = IF k = 0 THEN 1 ELSE b * p[k - 1]
      BY <3>1 DEF Powers
    <3>. QED
      BY <2>2, <3>1, <3>2
  <2>. QED
    BY <2>1, <2>2
<1>2. q = [k \in 0 .. N + 1 |-> q[k]]
  OBVIOUS
<1>. HIDE DEF q
<1>. QED
  BY <1>1, <1>2, ZenonT(60) DEF Powers

LEMMA PowersExist ==
  ASSUME NEW b
  PROVE  \A N \in Nat : \E p : Powers(p, b, 0 .. N)
<1>. DEFINE T == {N \in Nat : ~\E p : Powers(p, b, 0 .. N)}
<1>1. SUFFICES ASSUME T # {} PROVE FALSE
  OBVIOUS
<1>2. PICK N \in T : \A m \in T : N <= m
  <2>1. T \in SUBSET Nat
    OBVIOUS
  <2>. HIDE DEF T
  <2>. QED  BY <1>1, <2>1, LeastNatural
<1>3. Powers([k \in 0 .. 0 |-> 1], b, 0 .. 0)
  BY DEF Powers
<1>4. N \in Nat /\ N - 1 \in Nat /\ N - 1 < N
  BY <1>2, <1>3
<1>5. PICK p : Powers(p, b, 0 .. N - 1)
  BY <1>2, <1>4
<1>6. \E q : Powers(q, b, 0 .. (N - 1) + 1)
  BY <1>4, <1>5, PowersNext
<1>. QED
  BY <1>2, <1>4, <1>6

(* Hence there are powers with every exponent.                             *)
LEMMA AllPowers ==
  ASSUME NEW b
  PROVE  \E p : Powers(p, b, Nat)
<1>. DEFINE upTo(N) == CHOOSE p : Powers(p, b, 0 .. N)
            p == [n \in Nat |-> upTo(n)[n]]
<1>1. \A N \in Nat : Powers(upTo(N), b, 0 .. N)
  BY PowersExist
<1>2. ASSUME NEW n \in Nat
      PROVE  p[n] = IF n = 0 THEN 1 ELSE b * p[n - 1]
  <2>1. upTo(n)[n] = IF n = 0 THEN 1 ELSE b * upTo(n)[n - 1]
    <3>1. Powers(upTo(n), b, 0 .. n) /\ n \in 0 .. n
      BY <1>1
    <3>. HIDE DEF upTo
    <3>. QED  BY <3>1 DEF Powers
  <2>2. n # 0 => upTo(n - 1)[n - 1] = upTo(n)[n - 1]
    <3>1. SUFFICES ASSUME n # 0 PROVE upTo(n - 1)[n - 1] = upTo(n)[n - 1]
      OBVIOUS
    <3>2. n - 1 \in Nat /\ n - 1 <= n /\ n - 1 \in 0 .. n - 1
      BY <3>1
    <3>3. Powers(upTo(n), b, 0 .. n) /\ Powers(upTo(n - 1), b, 0 .. n - 1)
      BY <1>1, <3>2
    <3>. HIDE DEF upTo
    <3>. QED  BY <3>2, <3>3, PowersAgree
  <2>. HIDE DEF upTo
  <2>. QED
    BY <2>1, <2>2
<1>3. p = [n \in Nat |-> p[n]]
  OBVIOUS
<1>. HIDE DEF p
<1>. QED
  BY <1>2, <1>3 DEF Powers

LEMMA PowerType ==
  ASSUME NEW b \in Nat \ {0}, NEW n \in Nat
  PROVE  Power(b, n) \in Nat \ {0}
<1>. DEFINE p == CHOOSE q : Powers(q, b, Nat)
            T == {k \in Nat : p[k] \notin Nat \ {0}}
<1>1. Powers(p, b, Nat)
  BY AllPowers
<1>2. Power(b, n) = p[n]
  BY DEF Power, Powers
<1>. HIDE DEF p
<1>3. SUFFICES ASSUME T # {} PROVE FALSE
  BY <1>2
<1>4. PICK k \in T : \A m \in T : k <= m
  <2>1. T \in SUBSET Nat
    OBVIOUS
  <2>. HIDE DEF T
  <2>. QED  BY <1>3, <2>1, LeastNatural
<1>5. p[k] = IF k = 0 THEN 1 ELSE b * p[k - 1]
  BY <1>1, <1>4 DEF Powers
<1>6. k # 0 /\ k - 1 \in Nat /\ k - 1 < k
  BY <1>4, <1>5
<1>7. p[k - 1] \in Nat \ {0}
  BY <1>4, <1>6
<1>8. b * p[k - 1] \in Nat \ {0}
  BY <1>7
<1>. QED
  BY <1>4, <1>5, <1>6, <1>8

LEMMA ImageIsFinite ==
  ASSUME NEW S, IsFiniteSet(S), NEW F
  PROVE  IsFiniteSet({F[x] : x \in S})
<1>. DEFINE f == [x \in S |-> F[x]]
<1>1. f \in Surjection(S, {F[x] : x \in S})
  BY DEF Surjection
<1>. QED
  BY <1>1, FS_Surjection

LEMMA MaxType ==
  ASSUME NEW S \in SUBSET Nat, IsFiniteSet(S), S # {}
  PROVE  Max(S) \in S
<1>. DEFINE Bad(n) == \E B \in SUBSET S : /\ B # {} /\ Cardinality(B) = n
                                         /\ ~\E x \in B : \A y \in B : x >= y
            T == {n \in Nat : Bad(n)}
<1>1. \A B \in SUBSET S : IsFiniteSet(B) /\ Cardinality(B) \in Nat
  BY FS_Subset, FS_CardinalityType
<1>2. T = {}
  <2>1. SUFFICES ASSUME T # {} PROVE FALSE
    OBVIOUS
  <2>2. PICK n \in T : \A m \in T : n <= m
    <3>1. T \in SUBSET Nat
      OBVIOUS
    <3>. HIDE DEF T
    <3>. QED  BY <2>1, <3>1, LeastNatural
  <2>3. PICK B \in SUBSET S : /\ B # {} /\ Cardinality(B) = n
                              /\ ~\E x \in B : \A y \in B : x >= y
    BY <2>2
  <2>4. PICK b \in B : TRUE
    BY <2>3
  <2>5. B \ {b} \in SUBSET S /\ Cardinality(B \ {b}) = n - 1 /\ n - 1 \in Nat
    <3>1. B \ {b} \in SUBSET S /\ IsFiniteSet(B)
      BY <1>1
    <3>2. Cardinality(B \ {b}) \in Nat
      BY <1>1, <3>1
    <3>. QED
      BY <2>3, <2>4, <3>1, <3>2, FS_RemoveElement
  <2>6. n - 1 \notin T
    BY <2>2, <2>5
  <2>7. B \ {b} # {} => \E x \in B \ {b} : \A y \in B \ {b} : x >= y
    BY <2>5, <2>6
  <2>8. \A y \in B : y \in Nat
    BY <2>3
  <2>9. CASE B \ {b} = {}
    BY <2>3, <2>4, <2>8, <2>9
  <2>10. CASE B \ {b} # {}
    <3>1. PICK x \in B \ {b} : \A y \in B \ {b} : x >= y
      BY <2>7, <2>10
    <3>2. CASE x >= b
      BY <2>3, <3>1, <3>2
    <3>3. CASE ~(x >= b)
      BY <2>3, <2>4, <2>8, <3>1, <3>3
    <3>. QED
      BY <3>2, <3>3
  <2>. QED
    BY <2>9, <2>10
<1>3. \E x \in S : \A y \in S : x >= y
  BY <1>1, <1>2
<1>. QED
  BY <1>3 DEF Max

-----------------------------------------------------------------------------
(* The ranking sorts: positions in a finite set that is strictly and       *)
(* totally ordered are 0, 1, 2 and so on, each taken once.                 *)
Orders(B, R) ==
  /\ \A x \in R : <<x, x>> \notin B
  /\ \A x, y \in R : x # y => <<x, y>> \in B \/ <<y, x>> \in B
  /\ \A x, y, z \in R : <<x, y>> \in B /\ <<y, z>> \in B => <<x, z>> \in B

PositionIn(B, R) == [t \in R |-> Cardinality({u \in R : <<u, t>> \in B})]

LEMMA PositionGrows ==
  ASSUME NEW R, IsFiniteSet(R), NEW B, Orders(B, R),
         NEW u \in R, NEW t \in R, <<u, t>> \in B
  PROVE  PositionIn(B, R)[u] < PositionIn(B, R)[t]
<1>. DEFINE before(x) == {y \in R : <<y, x>> \in B}
<1>1. \A x \in R : IsFiniteSet(before(x)) /\ Cardinality(before(x)) \in Nat
  BY FS_Subset, FS_CardinalityType
<1>2. u \notin before(u) /\ before(u) \union {u} \subseteq before(t)
  BY DEF Orders
<1>3. Cardinality(before(u) \union {u}) = Cardinality(before(u)) + 1
  BY <1>1, <1>2, FS_AddElement
<1>4. Cardinality(before(u) \union {u}) <= Cardinality(before(t))
  BY <1>1, <1>2, FS_Subset
<1>5. PositionIn(B, R)[u] = Cardinality(before(u)) /\ PositionIn(B, R)[t] = Cardinality(before(t))
  BY DEF PositionIn
<1>. HIDE DEF before
<1>. QED
  BY <1>1, <1>3, <1>4, <1>5

LEMMA PositionsAre ==
  ASSUME NEW R, IsFiniteSet(R), NEW B, Orders(B, R)
  PROVE  PositionIn(B, R) \in Bijection(R, 0 .. Cardinality(R) - 1)
<1>. DEFINE n == Cardinality(R)
            T == 0 .. n - 1
            f == PositionIn(B, R)
<1>1. n \in Nat /\ IsFiniteSet(T) /\ Cardinality(T) = n
  <2>1. n \in Nat /\ 0 \in Int /\ n - 1 \in Int
    BY FS_CardinalityType
  <2>2. IsFiniteSet(T) /\ Cardinality(T) = IF 0 > n - 1 THEN 0 ELSE n - 1 - 0 + 1
    <3>. HIDE DEF n
    <3>. QED  BY <2>1, FS_Interval
  <2>. QED
    BY <2>1, <2>2
<1>2. \A t \in R : f[t] \in T
  <2>. SUFFICES ASSUME NEW t \in R PROVE f[t] \in T
    OBVIOUS
  <2>. DEFINE before == {u \in R : <<u, t>> \in B}
  <2>1. before \in SUBSET (R \ {t})
    BY DEF Orders
  <2>2. IsFiniteSet(R \ {t}) /\ Cardinality(R \ {t}) = n - 1
    BY FS_RemoveElement
  <2>3. f[t] = Cardinality(before)
    BY DEF PositionIn
  <2>. HIDE DEF before, f, n
  <2>4. IsFiniteSet(before) /\ Cardinality(before) <= n - 1
    BY <2>1, <2>2, FS_Subset
  <2>5. Cardinality(before) \in Nat
    BY <2>4, FS_CardinalityType
  <2>. QED
    BY <1>1, <2>3, <2>4, <2>5
<1>3. \A u, t \in R : f[u] = f[t] => u = t
  <2>. SUFFICES ASSUME NEW u \in R, NEW t \in R, f[u] = f[t], u # t PROVE FALSE
    OBVIOUS
  <2>1. f[u] < f[t] \/ f[t] < f[u]
    BY PositionGrows DEF Orders
  <2>2. f[u] \in Int /\ f[t] \in Int
    <3>. HIDE DEF f
    <3>. QED  BY <1>1, <1>2
  <2>. QED  BY <2>1, <2>2
<1>4. f \in Injection(R, T)
  <2>1. f \in [R -> T]
    BY <1>2 DEF PositionIn
  <2>. QED  BY <1>3, <2>1 DEF Injection, IsInjective
<1>5. f \in Surjection(R, T)
  <2>. HIDE DEF f, T
  <2>. QED  BY <1>1, <1>4, FS_Injection
<1>. QED
  BY <1>4, <1>5 DEF Bijection

(* So many of them are in positions from i to before j.                    *)
Slice(R, f, i, j) == {t \in R : i <= f[t] /\ f[t] < j}

LEMMA SliceSize ==
  ASSUME NEW R, IsFiniteSet(R), NEW f \in Bijection(R, 0 .. Cardinality(R) - 1),
         NEW i \in Nat, NEW j \in Nat, i <= j
  PROVE  /\ Cardinality(Slice(R, f, i, j)) \in Nat
         /\ Cardinality(Slice(R, f, i, j)) <= j - i
         /\ (\E t \in R : f[t] >= j) => Cardinality(Slice(R, f, i, j)) = j - i
<1>. DEFINE n == Cardinality(R)
            S == {t \in R : i <= f[t] /\ f[t] < j}
            k == IF j <= n THEN j - 1 ELSE n - 1
            g == [t \in S |-> f[t]]
<1>1. n \in Nat /\ k \in Int
  BY FS_CardinalityType
<1>2. /\ \A t \in R : f[t] \in 0 .. n - 1
      /\ \A t, u \in R : f[t] = f[u] => t = u
      /\ \A x \in 0 .. n - 1 : \E t \in R : f[t] = x
  BY DEF Bijection, Injection, IsInjective, Surjection
<1>3. g \in Bijection(S, i .. k)
  <2>1. \A t \in S : g[t] \in i .. k
    BY <1>1, <1>2
  <2>2. \A t, u \in S : g[t] = g[u] => t = u
    BY <1>2
  <2>3. \A x \in i .. k : \E t \in S : g[t] = x
    <3>. SUFFICES ASSUME NEW x \in i .. k PROVE \E t \in S : g[t] = x
      OBVIOUS
    <3>1. x \in 0 .. n - 1 /\ i <= x /\ x < j
      BY <1>1
    <3>2. PICK t \in R : f[t] = x
      BY <1>2, <3>1
    <3>. QED  BY <3>1, <3>2
  <2>4. g \in [S -> i .. k]
    BY <2>1
  <2>. HIDE DEF g, S, k
  <2>. QED  BY <2>2, <2>3, <2>4 DEF Bijection, Injection, IsInjective, Surjection
<1>4. IsFiniteSet(S)
  BY FS_Subset
<1>5. Cardinality(S) = Cardinality(i .. k)
  <2>1. ExistsBijection(S, i .. k)
    BY <1>3 DEF ExistsBijection
  <2>. HIDE DEF S, k
  <2>. QED  BY <1>4, <2>1, FS_Bijection
<1>6. Cardinality(i .. k) = IF i > k THEN 0 ELSE k - i + 1
  <2>. HIDE DEF k
  <2>. QED  BY <1>1, FS_Interval
<1>7. (\E t \in R : f[t] >= j) => j <= n /\ k = j - 1
  BY <1>1, <1>2
<1>8. k <= j - 1
  BY <1>1
<1>. HIDE DEF S, k, n
<1>9. Cardinality(S) \in Nat /\ Cardinality(S) <= j - i
  BY <1>1, <1>5, <1>6, <1>8
<1>10. (\E t \in R : f[t] >= j) => Cardinality(S) = j - i
  BY <1>5, <1>6, <1>7
<1>. QED
  BY <1>9, <1>10 DEF S, Slice

-----------------------------------------------------------------------------
(* A score is a fraction: a natural over a positive one.                   *)
LEMMA ScoreType ==
  ASSUME NEW st \in State, NEW raw \in [Threads -> Nat], NEW at \in Nat, NEW t \in Threads
  PROVE  Numerator(st, raw, t) \in Nat /\ Denominator(st, t, at) \in Nat \ {0}
<1>1. /\ Entries[t] \subseteq Refs /\ IsFiniteSet(Entries[t])
      /\ \A r \in Entries[t] : FileOf[r] \in Files
  BY RankAssumption, FS_Subset
<1>. DEFINE most(H) == {H[r] : r \in Entries[t]}
<1>2. ASSUME NEW H, \A r \in Entries[t] : H[r] \in Nat, NEW n \in Nat
      PROVE  Max({n} \union most(H)) \in Nat
  <2>1. IsFiniteSet(most(H)) /\ most(H) \subseteq Nat
    BY <1>1, <1>2, ImageIsFinite
  <2>2. /\ {n} \union most(H) \in SUBSET Nat /\ {n} \union most(H) # {}
        /\ IsFiniteSet({n} \union most(H))
    BY <2>1, FS_Union, FS_Singleton
  <2>. HIDE DEF most
  <2>. QED
    BY <2>2, MaxType
<1>3. SessionRepeatCountForThread(st, t) \in Nat
  <2>. DEFINE H == [r \in Entries[t] |-> st.hits.file[FileOf[r]]]
  <2>1. st.hits.thread[t] \in Nat /\ \A r \in Entries[t] : H[r] \in Nat
    BY <1>1 DEF State, StateOf
  <2>2. {st.hits.file[f] : f \in EntryFiles(t)} = most(H)
    BY DEF EntryFiles
  <2>. QED
    BY <1>2, <2>1, <2>2 DEF SessionRepeatCountForThread
<1>4. ThreadAge(st, t, at) \in Nat
  <2>. DEFINE H == [r \in Entries[t] |-> ResolveLastTouchedAt(st, FileOf[r])]
  <2>1. \A f \in Files : ResolveLastTouchedAt(st, f) \in Nat
    BY RankAssumption DEF State, StateOf, Touch, ResolveLastTouchedAt
  <2>2. NoDate \in Nat /\ \A r \in Entries[t] : H[r] \in Nat
    BY <1>1, <2>1 DEF NoDate
  <2>3. {ResolveLastTouchedAt(st, f) : f \in EntryFiles(t)} = most(H)
    BY DEF EntryFiles
  <2>4. Max({NoDate} \union {ResolveLastTouchedAt(st, f) : f \in EntryFiles(t)}) \in Nat
    BY <1>2, <2>2, <2>3
  <2>. QED
    BY <2>4 DEF ThreadAge
<1>5. Numerator(st, raw, t) \in Nat
  <2>1. Power(3, SessionRepeatCountForThread(st, t)) \in Nat /\ raw[t] \in Nat
    BY <1>3, PowerType
  <2>. QED
    BY <2>1 DEF Numerator
<1>6. Denominator(st, t, at) \in Nat \ {0}
  <2>1. /\ Power(4, SessionRepeatCountForThread(st, t)) \in Nat \ {0}
        /\ Power(2, ThreadAge(st, t, at)) \in Nat \ {0}
    BY <1>3, <1>4, PowerType
  <2>2. \A x, y \in Nat \ {0} : x * y \in Nat \ {0}
    OBVIOUS
  <2>. QED
    BY <2>1, <2>2 DEF Denominator
<1>. QED
  BY <1>5, <1>6

(* The order of fractions, by cross multiplication, is transitive.         *)
LEMMA FractionsOrder ==
  ASSUME NEW a \in Nat, NEW b \in Nat, NEW c \in Nat,
         NEW p \in Nat \ {0}, NEW q \in Nat \ {0}, NEW r \in Nat \ {0},
         a * q >= b * p, b * r >= c * q
  PROVE  /\ a * r >= c * p
         /\ a * q > b * p \/ b * r > c * q => a * r > c * p
<1>1. \A x, y, z \in Nat : x >= y => x * z >= y * z
  OBVIOUS
<1>2. \A x, y, z \in Nat : z > 0 /\ x > y => x * z > y * z
  OBVIOUS
<1>3. /\ a * q \in Nat /\ b * p \in Nat /\ b * r \in Nat /\ c * q \in Nat
      /\ a * r \in Nat /\ c * p \in Nat
  OBVIOUS
<1>4. /\ (a * q) * r = (a * r) * q /\ (b * p) * r = (b * r) * p /\ (c * q) * p = (c * p) * q
  OBVIOUS
<1>5. (a * q) * r >= (b * p) * r /\ (b * r) * p >= (c * q) * p
  BY <1>1, <1>3
<1>6. /\ a * q > b * p => (a * q) * r > (b * p) * r
      /\ b * r > c * q => (b * r) * p > (c * q) * p
  BY <1>2, <1>3
<1>. DEFINE x == a * r
            y == c * p
            u == (b * p) * r
<1>7. x \in Nat /\ y \in Nat /\ u \in Nat /\ x * q >= u /\ u >= y * q
      /\ (a * q > b * p \/ b * r > c * q => x * q > u \/ u > y * q)
  BY <1>3, <1>4, <1>5, <1>6
<1>8. \A m, n, k \in Nat : /\ m < n => m * q < n * q
                          /\ m <= n => m * q <= n * q
  BY <1>1, <1>2
<1>. HIDE DEF x, y, u
<1>9. x >= y /\ (a * q > b * p \/ b * r > c * q => x > y)
  <2>1. x * q \in Nat /\ y * q \in Nat
    BY <1>7
  <2>2. x * q >= y * q
    BY <1>7, <2>1
  <2>3. x >= y
    BY <1>7, <1>8, <2>1, <2>2
  <2>4. (a * q > b * p \/ b * r > c * q) => x # y
    BY <1>7, <2>1
  <2>. QED
    BY <1>7, <2>3, <2>4
<1>. QED
  BY <1>9 DEF x, y

(* u is listed before t.                                                   *)
Ahead(st, raw, at, u, t) ==
  LET a == Numerator(st, raw, u) * Denominator(st, t, at)
      b == Numerator(st, raw, t) * Denominator(st, u, at)
  IN  a > b \/ (a = b /\ u < t)

Listing(st, raw, at) == {p \in Threads \X Threads : Ahead(st, raw, at, p[1], p[2])}

LEMMA ListingOrders ==
  ASSUME NEW st \in State, NEW raw \in [Threads -> Nat], NEW at \in Nat
  PROVE  /\ Orders(Listing(st, raw, at), Ranked(st, raw, at))
         /\ IsFiniteSet(Ranked(st, raw, at)) /\ Ranked(st, raw, at) \subseteq Threads
<1>. DEFINE N(t) == Numerator(st, raw, t)
            D(t) == Denominator(st, t, at)
            P(u, t) == N(u) * D(t)
            B == Listing(st, raw, at)
<1>1. \A t \in Threads : N(t) \in Nat /\ D(t) \in Nat \ {0} /\ t \in Nat
  BY ScoreType, RankAssumption
<1>2. \A u, t \in Threads :
        <<u, t>> \in B <=> P(u, t) > P(t, u) \/ (P(u, t) = P(t, u) /\ u < t)
  <2>1. \A u, t \in Threads : <<u, t>> \in B <=> Ahead(st, raw, at, u, t)
    BY DEF Listing
  <2>2. \A u, t \in Threads : Ahead(st, raw, at, u, t) <=>
          P(u, t) > P(t, u) \/ (P(u, t) = P(t, u) /\ u < t)
    BY DEF Ahead
  <2>. HIDE DEF B, P
  <2>. QED
    BY <2>1, <2>2
<1>3. \A u, t \in Threads : P(u, t) \in Nat
  <2>. HIDE DEF N, D
  <2>. QED  BY <1>1
<1>. HIDE DEF N, D, B, P
<1>4. \A x \in Threads : <<x, x>> \notin B
  BY <1>1, <1>2, <1>3
<1>5. \A x, y \in Threads : x # y => <<x, y>> \in B \/ <<y, x>> \in B
  <2>. SUFFICES ASSUME NEW x \in Threads, NEW y \in Threads, x # y
                PROVE  <<x, y>> \in B \/ <<y, x>> \in B
    OBVIOUS
  <2>1. P(x, y) \in Nat /\ P(y, x) \in Nat
    BY <1>3
  <2>2. x < y \/ y < x
    BY <1>1
  <2>. QED
    BY <1>2, <2>1, <2>2
<1>6. ASSUME NEW x \in Threads, NEW y \in Threads, NEW z \in Threads,
             <<x, y>> \in B, <<y, z>> \in B
      PROVE  <<x, z>> \in B
  <2>1. /\ P(x, y) >= P(y, x) /\ P(y, z) >= P(z, y)
        /\ (P(x, y) > P(y, x) \/ P(y, z) > P(z, y)) \/ (x < y /\ y < z)
    BY <1>2, <1>3, <1>6
  <2>2. /\ P(x, z) >= P(z, x)
        /\ P(x, y) > P(y, x) \/ P(y, z) > P(z, y) => P(x, z) > P(z, x)
    BY <1>1, <2>1, FractionsOrder DEF P
  <2>3. x < y /\ y < z => x < z
    BY <1>1
  <2>4. P(x, z) \in Nat /\ P(z, x) \in Nat
    BY <1>3
  <2>. QED
    BY <1>2, <2>1, <2>2, <2>3, <2>4
<1>7. Ranked(st, raw, at) \in SUBSET Threads
  BY DEF Ranked
<1>8. Orders(B, Ranked(st, raw, at))
  BY <1>4, <1>5, <1>6, <1>7 DEF Orders
<1>. QED
  BY <1>7, <1>8, FS_Subset, RankAssumption DEF B

(* What the slices at MaxSync and MaxPrefetch of the sorted matches are,   *)
(* whatever the index, the scores and the ages.                            *)
LEMMA SlicesAre ==
  ASSUME NEW st \in State, NEW raw \in [Threads -> Nat], NEW at \in Nat
  PROVE  Sliced(st, raw, at, SyncMatches(st, raw, at), PrefetchMatches(st, raw, at))
<1>. DEFINE R == Ranked(st, raw, at)
            B == Listing(st, raw, at)
            f == PositionIn(B, R)
            injected == SyncMatches(st, raw, at)
            deferred == PrefetchMatches(st, raw, at)
<1>1. Orders(B, R) /\ IsFiniteSet(R) /\ R \subseteq Threads
  BY ListingOrders
<1>2. \A t \in R : Position(st, raw, at, t) = f[t]
  <2>. SUFFICES ASSUME NEW t \in R PROVE Position(st, raw, at, t) = f[t]
    OBVIOUS
  <2>1. {u \in R : <<u, t>> \in B} = {u \in R : Ahead(st, raw, at, u, t)}
    BY <1>1 DEF Listing
  <2>2. Position(st, raw, at, t) = Cardinality({u \in R : Ahead(st, raw, at, u, t)})
    BY DEF Position, Ahead
  <2>. QED
    BY <2>1, <2>2 DEF PositionIn
<1>3. f \in Bijection(R, 0 .. Cardinality(R) - 1) /\ Cardinality(R) \in Nat
  BY <1>1, PositionsAre, FS_CardinalityType
<1>4. \A t \in R : f[t] \in Nat
  <2>1. \A t \in R : f[t] \in 0 .. Cardinality(R) - 1
    <3>. HIDE DEF f, R
    <3>. QED  BY <1>3 DEF Bijection, Surjection
  <2>. HIDE DEF f, R
  <2>. QED
    BY <1>3, <2>1
<1>5. MaxSync \in Nat /\ MaxPrefetch \in Nat /\ MaxSync + MaxPrefetch \in Nat
  BY RankAssumption
<1>6. /\ injected = Slice(R, f, 0, MaxSync)
      /\ deferred = Slice(R, f, MaxSync, MaxSync + MaxPrefetch)
  <2>. HIDE DEF f
  <2>1. injected = {t \in R : f[t] < MaxSync}
    BY <1>2 DEF SyncMatches
  <2>2. deferred = {t \in R : f[t] \in MaxSync .. MaxSync + MaxPrefetch - 1}
    BY <1>2 DEF PrefetchMatches
  <2>. HIDE DEF R, injected, deferred
  <2>. QED
    BY <1>4, <1>5, <2>1, <2>2 DEF Slice
<1>7. \A u, t \in R : f[t] < f[u] => Outranks(st, raw, at, t, u)
  <2>. SUFFICES ASSUME NEW u \in R, NEW t \in R, f[t] < f[u]
                PROVE  Outranks(st, raw, at, t, u)
    OBVIOUS
  <2>1. <<u, t>> \notin B
    <3>1. <<u, t>> \in B => f[u] < f[t]
      BY <1>1, PositionGrows
    <3>. HIDE DEF f, B, R
    <3>. QED  BY <1>4, <3>1
  <2>2. u \in Threads /\ t \in Threads /\ t # u
    <3>1. u = t => ~(f[t] < f[u])
      <4>. HIDE DEF f, R
      <4>. QED  BY <1>4
    <3>. QED  BY <1>1, <3>1
  <2>3. <<t, u>> \in B
    BY <1>1, <2>1, <2>2 DEF Orders
  <2>4. Ahead(st, raw, at, t, u)
    BY <2>3 DEF Listing
  <2>5. /\ Numerator(st, raw, t) * Denominator(st, u, at) \in Nat
        /\ Numerator(st, raw, u) * Denominator(st, t, at) \in Nat
    <3>1. \A x, y \in Nat : x * y \in Nat
      OBVIOUS
    <3>. QED  BY <2>2, <3>1, ScoreType
  <2>. QED
    BY <2>4, <2>5 DEF Ahead, Outranks
<1>. HIDE DEF f, R, injected, deferred
<1>8. /\ Cardinality(injected) <= MaxSync
      /\ (\E u \in R : f[u] >= MaxSync) => Cardinality(injected) = MaxSync
  <2>1. 0 \in Nat /\ 0 <= MaxSync /\ MaxSync - 0 = MaxSync /\ IsFiniteSet(R)
    BY <1>1, <1>5
  <2>. QED
    BY <1>3, <1>5, <1>6, <2>1, SliceSize
<1>9. /\ Cardinality(deferred) <= MaxPrefetch
      /\ (\E u \in R : f[u] >= MaxSync + MaxPrefetch) => Cardinality(deferred) = MaxPrefetch
  <2>1. /\ MaxSync + MaxPrefetch - MaxSync = MaxPrefetch
        /\ MaxSync <= MaxSync + MaxPrefetch /\ IsFiniteSet(R)
    BY <1>1, <1>5
  <2>. DEFINE last == MaxSync + MaxPrefetch
  <2>2. last \in Nat /\ MaxSync <= last /\ last - MaxSync = MaxPrefetch
    BY <1>5, <2>1
  <2>3. deferred = Slice(R, f, MaxSync, last)
    BY <1>6
  <2>. HIDE DEF last
  <2>4. /\ Cardinality(deferred) <= MaxPrefetch
        /\ (\E u \in R : f[u] >= last) => Cardinality(deferred) = MaxPrefetch
    BY <1>3, <1>5, <2>1, <2>2, <2>3, SliceSize
  <2>. QED
    BY <2>4 DEF last
<1>10. \A u \in R \ injected :
         /\ f[u] >= MaxSync
         /\ \A t \in injected : Outranks(st, raw, at, t, u)
  BY <1>4, <1>5, <1>6, <1>7 DEF Slice
<1>11. \A u \in R \ (injected \union deferred) :
         /\ f[u] >= MaxSync + MaxPrefetch
         /\ \A t \in deferred : Outranks(st, raw, at, t, u)
  BY <1>4, <1>5, <1>6, <1>7 DEF Slice
<1>12. /\ injected \subseteq R /\ deferred \subseteq R /\ injected \intersect deferred = {}
       /\ \A u \in deferred : f[u] >= MaxSync
  BY <1>4, <1>5, <1>6 DEF Slice
<1>13. Sliced(st, raw, at, injected, deferred)
  BY <1>8, <1>9, <1>10, <1>11, <1>12 DEF Sliced, R
<1>. QED
  BY <1>13 DEF injected, deferred

(* From its ranking to its end a turn holds the slices of one ranking.     *)
RankingIn(s) ==
  /\ pc[s] \in {"read", "ranking"} => mine[s] = OpenTurn(base[s], s)
  /\ pc[s] \in {"saving", "saved", "queueing"} =>
       Sliced(OpenTurn(base[s], s), prompt[s], stamp[s], matched[s], queue[s].threads)

LEMMA RankingStep ==
  ASSUME TypeOK, [Next]_vars, NEW s \in Sessions, RankingIn(s)
  PROVE  RankingIn(s)'
<1>1. ASSUME UNCHANGED <<prompt, mine, base, stamp, matched>>, NEW t \in Sessions,
             \/ Goto(t, "idle", "loading") \/ Goto(t, "read", "ranking")
             \/ Goto(t, "saving", "saved") \/ Goto(t, "saved", "queueing")
             \/ UNCHANGED pc,
             queue'[s] = queue[s] \/ (t = s /\ pc'[s] = "ranking")
      PROVE  RankingIn(s)'
  <2>1. pc \in [Sessions -> Phases]
    BY DEF TypeOK
  <2>. QED
    BY <1>1, <2>1 DEF RankingIn, Goto
<1>2. ASSUME NEW t \in Sessions, NEW raw \in Prompts, Begin(t, raw)
      PROVE  RankingIn(s)'
  <2>1. /\ prompt' = [prompt EXCEPT ![t] = raw] /\ Goto(t, "idle", "loading")
        /\ UNCHANGED <<mine, base, stamp, matched, queue>>
    BY <1>2 DEF Begin
  <2>2. t # s => prompt'[s] = prompt[s] /\ pc'[s] = pc[s]
    BY <2>1 DEF TypeOK, Goto
  <2>3. t = s => pc'[s] = "loading"
    BY <2>1 DEF TypeOK, Goto
  <2>. QED
    BY <2>1, <2>2, <2>3 DEF RankingIn
<1>3. ASSUME NEW t \in Sessions, ReadState(t)
      PROVE  RankingIn(s)'
  <2>. DEFINE found == ReadJson(disk, InitMemoryState)
  <2>1. /\ mine' = [mine EXCEPT ![t] = OpenTurn(found, t)] /\ base' = [base EXCEPT ![t] = found]
        /\ Goto(t, "loading", "read") /\ UNCHANGED <<prompt, stamp, matched, queue>>
    BY <1>3 DEF ReadState
  <2>. HIDE DEF found
  <2>2. t # s => mine'[s] = mine[s] /\ base'[s] = base[s] /\ pc'[s] = pc[s]
    BY <2>1 DEF TypeOK, Goto
  <2>3. t = s => mine'[s] = OpenTurn(base'[s], s) /\ pc'[s] = "read"
    BY <2>1 DEF TypeOK, Goto
  <2>4. CASE t # s
    BY <2>1, <2>2, <2>4 DEF RankingIn
  <2>5. CASE t = s
    BY <2>3, <2>5 DEF RankingIn
  <2>. QED
    BY <2>4, <2>5
<1>4. ASSUME NEW t \in Sessions, ReadPrefetch(t)
      PROVE  RankingIn(s)'
  <2>1. /\ Goto(t, "read", "ranking") /\ UNCHANGED <<prompt, mine, base, stamp, matched>>
        /\ queue' = [queue EXCEPT ![t] = ReadJson(prefetch, NoQueue)]
    BY <1>4 DEF ReadPrefetch
  <2>2. queue'[s] = queue[s] \/ (t = s /\ pc'[s] = "ranking")
    BY <2>1 DEF TypeOK, Goto
  <2>. QED
    BY <1>1, <2>1, <2>2
<1>5. ASSUME NEW t \in Sessions, NEW lane \in Lanes, Retrieve(t, lane)
      PROVE  RankingIn(s)'
  <2>1. /\ Goto(t, "ranking", "saving") /\ UNCHANGED <<prompt, base>>
        /\ queue' = [queue EXCEPT ![t] = BuildMemoryPrefetchQueue(mine[t], prompt[t], now)]
        /\ stamp' = [stamp EXCEPT ![t] = now]
        /\ matched' = [matched EXCEPT ![t] = SyncMatches(mine[t], prompt[t], now)]
        /\ \A q \in Sessions \ {t} : mine'[q] = mine[q]
    BY <1>5 DEF Retrieve, TypeOK
  <2>2. CASE t # s
    <3>1. /\ queue'[s] = queue[s] /\ stamp'[s] = stamp[s] /\ matched'[s] = matched[s]
          /\ mine'[s] = mine[s] /\ pc'[s] = pc[s]
      BY <2>1, <2>2 DEF TypeOK, Goto
    <3>. QED
      BY <2>1, <3>1 DEF RankingIn
  <2>3. CASE t = s
    <3>. DEFINE st == OpenTurn(base[s], s)
    <3>1. /\ pc[s] = "ranking" /\ pc'[s] = "saving" /\ stamp'[s] = now
          /\ matched'[s] = SyncMatches(mine[s], prompt[s], now)
          /\ queue'[s] = BuildMemoryPrefetchQueue(mine[s], prompt[s], now)
      BY <2>1, <2>3 DEF TypeOK, Goto
    <3>2. mine[s] = st /\ st \in State /\ prompt[s] \in [Threads -> Nat] /\ now \in Nat
      BY <3>1 DEF RankingIn, TypeOK
    <3>3. queue'[s].threads = PrefetchMatches(st, prompt[s], now)
      BY <3>1, <3>2 DEF BuildMemoryPrefetchQueue
    <3>4. Sliced(st, prompt[s], now, matched'[s], queue'[s].threads)
      BY <3>1, <3>2, <3>3, SlicesAre
    <3>. QED
      BY <2>1, <3>1, <3>4 DEF RankingIn
  <2>. QED
    BY <2>2, <2>3
<1>6. ASSUME NEW t \in Sessions, Forget(t)
      PROVE  RankingIn(s)'
  <2>1. t = s => pc'[s] = "idle"
    BY <1>6 DEF Forget, TypeOK
  <2>2. t # s => /\ prompt'[s] = prompt[s] /\ mine'[s] = mine[s] /\ queue'[s] = queue[s]
                 /\ base'[s] = base[s] /\ stamp'[s] = stamp[s] /\ matched'[s] = matched[s]
                 /\ pc'[s] = pc[s]
    BY <1>6 DEF Forget, TypeOK
  <2>3. CASE t = s
    BY <2>1, <2>3 DEF RankingIn
  <2>4. CASE t # s
    BY <2>2, <2>4 DEF RankingIn
  <2>. QED
    BY <2>3, <2>4
<1>7. ASSUME NEW t \in Sessions, SaveState(t) \/ OpenPrefetch(t)
      PROVE  RankingIn(s)'
  BY <1>1, <1>7 DEF SaveState, OpenPrefetch
<1>8. CASE UNCHANGED turnVars
  BY <1>8 DEF turnVars, RankingIn
<1>. QED
  BY <1>2, <1>3, <1>4, <1>5, <1>6, <1>7, <1>8
  DEF Next, Advance, SavePrefetch, ReturnEmpty, CutOff, Pin, Tick, vars, turnVars

(* What a turn injects and what it defers never overlap and keep their     *)
(* limits (MEMORY_MAX_SYNC_INJECTIONS, MEMORY_MAX_PREFETCH_QUEUE); nothing *)
(* is deferred while there was room to inject, nothing dropped while there *)
(* was room to defer; and what is left out scored no higher than what was  *)
(* taken, by the state the turn read, for every prompt and index           *)
(* (rankMemoryThreads and the two slices of runRoomMemoryRetrieval).       *)
THEOREM SlicesAreKept == Spec => []SlicesKept
<1>1. Init => \A s \in Sessions : RankingIn(s)
  BY DEF Init, RankingIn
<1>2. TypeOK /\ (\A s \in Sessions : RankingIn(s)) /\ [Next]_vars =>
        (\A s \in Sessions : RankingIn(s))'
  BY RankingStep
<1>3. (\A s \in Sessions : RankingIn(s)) => SlicesKept
  BY DEF RankingIn, SlicesKept
<1>. QED
  BY <1>1, <1>2, <1>3, TypeCorrect, PTL DEF Spec

(* The queue on the disk and those in the turns' hands have their limit.   *)
QueuesFit ==
  /\ Cardinality(prefetch.value.threads) <= MaxPrefetch
  /\ \A s \in Sessions : Cardinality(queue[s].threads) <= MaxPrefetch

LEMMA NoQueueFits == Cardinality(NoQueue.threads) <= MaxPrefetch
<1>1. Cardinality({}) = 0
  BY FS_EmptySet
<1>. QED
  BY <1>1, RankAssumption DEF NoQueue

LEMMA QueuesFitStep ==
  ASSUME TypeOK, QueuesFit, \A s \in Sessions : RankingIn(s), [Next]_vars
  PROVE  QueuesFit'
<1>1. ASSUME NEW t \in Sessions, ReadPrefetch(t)
      PROVE  QueuesFit'
  <2>1. /\ queue' = [queue EXCEPT ![t] = ReadJson(prefetch, NoQueue)] /\ prefetch' = prefetch
    BY <1>1 DEF ReadPrefetch, files
  <2>2. Cardinality(ReadJson(prefetch, NoQueue).threads) <= MaxPrefetch
    BY NoQueueFits DEF QueuesFit, ReadJson
  <2>. QED
    BY <2>1, <2>2 DEF QueuesFit, TypeOK
<1>2. ASSUME NEW t \in Sessions, NEW lane \in Lanes, Retrieve(t, lane)
      PROVE  QueuesFit'
  <2>1. /\ Sliced(OpenTurn(base[t], t)', prompt'[t], stamp'[t], matched'[t], queue'[t].threads)
        /\ prefetch' = prefetch /\ \A q \in Sessions \ {t} : queue'[q] = queue[q]
    <3>1. pc'[t] = "saving"
      BY <1>2 DEF Retrieve, Goto, TypeOK
    <3>2. RankingIn(t)'
      BY RankingStep
    <3>. QED
      BY <1>2, <3>1, <3>2 DEF RankingIn, Retrieve, TypeOK
  <2>. QED
    BY <2>1 DEF QueuesFit, Sliced
<1>3. ASSUME NEW t \in Sessions, OpenPrefetch(t)
      PROVE  QueuesFit'
  BY <1>3, NoQueueFits DEF OpenPrefetch, Emptied, QueuesFit
<1>4. ASSUME NEW t \in Sessions, Forget(t), prefetch' = prefetch \/ SavePrefetch(t)
      PROVE  QueuesFit'
  <2>1. \A s \in Sessions : queue'[s] \in {queue[s], NoQueue}
    BY <1>4 DEF Forget, TypeOK
  <2>2. prefetch' = prefetch \/ prefetch'.value \in {queue[t], NoQueue}
    BY <1>4 DEF SavePrefetch, AfterWrite, Whole, Torn
  <2>. QED
    BY <2>1, <2>2, NoQueueFits DEF QueuesFit
<1>5. CASE UNCHANGED <<prefetch, queue>>
  BY <1>5 DEF QueuesFit
<1>. QED
  BY <1>1, <1>2, <1>3, <1>4, <1>5
  DEF Next, Advance, Begin, ReadState, SaveState, SavePrefetch, ReturnEmpty, CutOff, Pin, Tick,
      vars, turnVars, files

(* A deferred queue, on the disk or in a turn's hands, is never longer than*)
(* MEMORY_MAX_PREFETCH_QUEUE, however turns overlap or are cut off: what a *)
(* turn restores of it beside its own matches is bounded.                  *)
THEOREM QueueIsCapped == Spec => []QueuesFit
<1>1. Init => QueuesFit /\ \A s \in Sessions : RankingIn(s)
  BY NoQueueFits DEF Init, QueuesFit, RankingIn, Emptied
<1>2. TypeOK /\ QueuesFit /\ (\A s \in Sessions : RankingIn(s)) /\ [Next]_vars =>
        QueuesFit' /\ (\A s \in Sessions : RankingIn(s))'
  BY RankingStep, QueuesFitStep
<1>. QED
  BY <1>1, <1>2, TypeCorrect, PTL DEF Spec
-----------------------------------------------------------------------------
(***************************************************************************)
(* Turns that do not overlap, and that no fault cuts off while they write, *)
(* are atomic: the room as the next turn will find it goes through the     *)
(* steps of AtomicRoom. What holds of the room between two turns follows.  *)
(***************************************************************************)

Serial == ~Overlapping /\ ~Faults

(* The ranking and the updates AtomicRoom computes with are these.         *)
LEMMA SameInit == /\ Atomic!InitMemoryState = InitMemoryState
                  /\ Atomic!NoQueue = NoQueue
BY DEF Atomic!InitMemoryState, InitMemoryState, Atomic!NoQueue, NoQueue,
       Atomic!NoTouch, NoTouch, Atomic!NoHits, NoHits, Atomic!NoSession, NoSession

LEMMA SameOpen ==
  ASSUME NEW st, NEW sid
  PROVE  Atomic!OpenTurn(st, sid) = OpenTurn(st, sid)
BY DEF Atomic!OpenTurn, OpenTurn, Atomic!ResetMemorySessionIfNeeded, ResetMemorySessionIfNeeded,
       Atomic!NoHits, NoHits

LEMMA SamePower ==
  ASSUME NEW b, NEW n
  PROVE  Atomic!Power(b, n) = Power(b, n)
BY DEF Atomic!Power, Power

LEMMA SameScores ==
  ASSUME NEW st, NEW raw, NEW at, NEW t
  PROVE  /\ Atomic!Numerator(st, raw, t) = Numerator(st, raw, t)
         /\ Atomic!Denominator(st, t, at) = Denominator(st, t, at)
BY SamePower
   DEF Atomic!Numerator, Numerator, Atomic!Denominator, Denominator,
       Atomic!SessionRepeatCountForThread, SessionRepeatCountForThread,
       Atomic!ThreadAge, ThreadAge, Atomic!ResolveLastTouchedAt, ResolveLastTouchedAt,
       Atomic!EntryFiles, EntryFiles, Atomic!Max, Max, Atomic!NoDate, NoDate

LEMMA SameRanked ==
  ASSUME NEW st, NEW raw, NEW at
  PROVE  Atomic!Ranked(st, raw, at) = Ranked(st, raw, at)
BY SameScores DEF Atomic!Ranked, Ranked

LEMMA SameCardinality ==
  ASSUME NEW S
  PROVE  Atomic!Cardinality(S) = Cardinality(S)
BY DEF Atomic!Cardinality, Cardinality

LEMMA SamePosition ==
  ASSUME NEW st, NEW raw, NEW at, NEW t
  PROVE  Atomic!Position(st, raw, at, t) = Position(st, raw, at, t)
<1>1. \A u : /\ Atomic!Numerator(st, raw, u) = Numerator(st, raw, u)
            /\ Atomic!Denominator(st, u, at) = Denominator(st, u, at)
  BY SameScores
<1>. QED
  BY <1>1, SameRanked, SameCardinality DEF Atomic!Position, Position

LEMMA SameMatches ==
  ASSUME NEW st, NEW raw, NEW at
  PROVE  /\ Atomic!SyncMatches(st, raw, at) = SyncMatches(st, raw, at)
         /\ Atomic!PrefetchMatches(st, raw, at) = PrefetchMatches(st, raw, at)
BY SameRanked, SamePosition
   DEF Atomic!SyncMatches, SyncMatches, Atomic!PrefetchMatches, PrefetchMatches

LEMMA SameQueue ==
  ASSUME NEW st, NEW raw, NEW at
  PROVE  Atomic!BuildMemoryPrefetchQueue(st, raw, at) = BuildMemoryPrefetchQueue(st, raw, at)
BY SameMatches DEF Atomic!BuildMemoryPrefetchQueue, BuildMemoryPrefetchQueue

LEMMA SameRestored ==
  ASSUME NEW queued, NEW st, NEW raw, NEW at
  PROVE  Atomic!RestoreMemoryPrefetchMatches(queued, st, raw, at)
           = RestoreMemoryPrefetchMatches(queued, st, raw, at)
BY SamePower
   DEF Atomic!RestoreMemoryPrefetchMatches, RestoreMemoryPrefetchMatches,
       Atomic!ThreadAge, ThreadAge, Atomic!ResolveLastTouchedAt, ResolveLastTouchedAt,
       Atomic!EntryFiles, EntryFiles, Atomic!Max, Max, Atomic!NoDate, NoDate

LEMMA SameUnion ==
  ASSUME NEW st, NEW raw, NEW queued, NEW found, NEW at
  PROVE  Atomic!RetrievedUnion(st, raw, queued, found, at)
           = RetrievedUnion(st, raw, queued, found, at)
BY SameMatches, SameRestored
   DEF Atomic!RetrievedUnion, RetrievedUnion, Atomic!Pinned, Pinned,
       Atomic!ExcerptFiles, ExcerptFiles, Atomic!EntryFiles, EntryFiles

LEMMA SameClose ==
  ASSUME NEW st, NEW raw, NEW union, NEW at
  PROVE  Atomic!CloseTurn(st, raw, union, at) = CloseTurn(st, raw, union, at)
BY SameMatches, SameCardinality
   DEF Atomic!CloseTurn, CloseTurn, Atomic!UpdateMemorySessionHits, UpdateMemorySessionHits,
       Atomic!UpdateMemoryStateFreshness, UpdateMemoryStateFreshness
-----------------------------------------------------------------------------
(* The inductive invariant: one turn at a time, and what it holds agrees   *)
(* with the files it has read and not yet rewritten.                       *)
Alone == \A s1, s2 \in Sessions : pc[s1] # "idle" /\ pc[s2] # "idle" => s1 = s2

DiskState == ReadJson(disk, InitMemoryState)
DiskQueue == ReadJson(prefetch, NoQueue)

HasRead(s) == pc[s] \in {"read", "ranking"} =>
  base[s] = DiskState /\ mine[s] = OpenTurn(DiskState, s)

HasQueue(s) == pc[s] = "ranking" => queue[s] = DiskQueue

HasRetrieved(s) == pc[s] = "saving" =>
  LET st == OpenTurn(base[s], s)
  IN  /\ disk.kind = "empty"
      /\ stamp[s] \in 1 .. now
      /\ mine[s] = CloseTurn(st, prompt[s], pulled[s], stamp[s])
      /\ pulled[s] = RetrievedUnion(st, prompt[s], DiskQueue.threads, pulled[s], stamp[s])
      /\ queue[s] = BuildMemoryPrefetchQueue(st, prompt[s], stamp[s])

HasOpened(s) == pc[s] = "queueing" => prefetch.kind = "empty"

HasPrompt(s) == pc[s] # "idle" => prompt[s] \in Prompts

InStep(s) == HasRead(s) /\ HasQueue(s) /\ HasRetrieved(s) /\ HasOpened(s) /\ HasPrompt(s)

SerialInv ==
  /\ TypeOK
  /\ now >= 1
  /\ Alone
  /\ \A s \in Sessions : InStep(s)

LEMMA ReadEmpty ==
  ASSUME NEW file, NEW v, file.kind = "empty" \/ file = Emptied(v)
  PROVE  ReadJson(file, v) = v
BY DEF ReadJson, Emptied

LEMMA UnionAgain ==
  ASSUME NEW st, NEW raw, NEW queued, NEW found, NEW at
  PROVE  LET union == RetrievedUnion(st, raw, queued, found, at)
         IN  union = RetrievedUnion(st, raw, queued, union, at)
BY DEF RetrievedUnion

(* A step of the turn of s leaves every other session idle.                *)
LEMMA AloneStep ==
  ASSUME TypeOK, Alone, NEW s \in Sessions, NEW phase,
         pc[s] # "idle" \/ AllIdle, pc' = [pc EXCEPT ![s] = phase]
  PROVE  /\ Alone'
         /\ \A u \in Sessions : u # s => pc[u] = "idle" /\ pc'[u] = "idle"
         /\ pc'[s] = phase
BY DEF TypeOK, Alone, AllIdle, Idle

LEMMA IdleInStep ==
  ASSUME NEW u \in Sessions, pc'[u] = "idle"
  PROVE  InStep(u)'
BY DEF InStep, HasRead, HasQueue, HasRetrieved, HasOpened, HasPrompt

LEMMA SerialInvariant ==
  ASSUME Serial
  PROVE  Spec => []SerialInv
<1>1. Init => SerialInv
  <2>1. Init => now >= 1 /\ Alone /\ \A s \in Sessions : InStep(s)
    BY DEF Init, Alone, InStep, HasRead, HasQueue, HasRetrieved, HasOpened, HasPrompt
  <2>2. QED
    BY <2>1, TypeInit DEF SerialInv
<1>2. SerialInv /\ [Next]_vars => SerialInv'
  <2>. SUFFICES ASSUME SerialInv, [Next]_vars
                PROVE  SerialInv'
    OBVIOUS
  <2>0. TypeOK' /\ TypeOK /\ Alone /\ (\A s \in Sessions : InStep(s)) /\ now \in Nat /\ now >= 1
    BY TypeStep DEF SerialInv, TypeOK
  <2>. USE <2>0
  <2>a. ASSUME now' >= 1, NEW s \in Sessions, InStep(s)', NEW phase,
               pc[s] # "idle" \/ AllIdle, pc' = [pc EXCEPT ![s] = phase]
        PROVE  SerialInv'
    BY <2>a, AloneStep, IdleInStep DEF SerialInv
  <2>1. ASSUME NEW s \in Sessions, NEW raw \in Prompts, Begin(s, raw)
        PROVE  SerialInv'
    <3>1. /\ AllIdle /\ pc' = [pc EXCEPT ![s] = "loading"] /\ now' = now /\ prompt'[s] = raw
          /\ pc'[s] = "loading"
      BY <2>1 DEF Begin, Goto, Serial, TypeOK
    <3>2. InStep(s)'
      BY <3>1 DEF InStep, HasRead, HasQueue, HasRetrieved, HasOpened, HasPrompt
    <3>3. QED
      BY <2>a, <3>1, <3>2
  <2>2. ASSUME NEW s \in Sessions, ReadState(s)
        PROVE  SerialInv'
    <3>1. /\ pc[s] = "loading" /\ pc' = [pc EXCEPT ![s] = "read"] /\ now' = now
          /\ mine'[s] = OpenTurn(DiskState, s) /\ base'[s] = DiskState
          /\ disk' = disk /\ prompt' = prompt
      BY <2>2 DEF ReadState, Goto, TypeOK, files, DiskState
    <3>2. InStep(s)'
      BY <3>1, AloneStep
      DEF InStep, HasRead, HasQueue, HasRetrieved, HasOpened, HasPrompt, DiskState
    <3>3. QED
      BY <2>a, <3>1, <3>2
  <2>3. ASSUME NEW s \in Sessions, ReadPrefetch(s)
        PROVE  SerialInv'
    <3>1. /\ pc[s] = "read" /\ pc' = [pc EXCEPT ![s] = "ranking"] /\ now' = now
          /\ queue'[s] = DiskQueue
          /\ UNCHANGED <<disk, prefetch, prompt, mine, base>>
      BY <2>3 DEF ReadPrefetch, Goto, TypeOK, files, DiskQueue
    <3>2. InStep(s)'
      BY <3>1, AloneStep
      DEF InStep, HasRead, HasQueue, HasRetrieved, HasOpened, HasPrompt, DiskState, DiskQueue
    <3>3. QED
      BY <2>a, <3>1, <3>2
  <2>4. ASSUME NEW s \in Sessions, NEW found \in Lanes, Retrieve(s, found)
        PROVE  SerialInv'
    <3>. DEFINE st == mine[s]
                union == RetrievedUnion(st, prompt[s], queue[s].threads, found, now)
    <3>1. /\ pc[s] = "ranking" /\ pc' = [pc EXCEPT ![s] = "saving"] /\ now' = now
          /\ mine'[s] = CloseTurn(st, prompt[s], union, now)
          /\ queue'[s] = BuildMemoryPrefetchQueue(st, prompt[s], now)
          /\ stamp'[s] = now /\ pulled'[s] = union /\ disk' = Emptied(InitMemoryState)
          /\ UNCHANGED <<prefetch, prompt, base>>
      BY <2>4 DEF Retrieve, Goto, TypeOK
    <3>2. st = OpenTurn(base[s], s) /\ queue[s] = DiskQueue /\ prompt[s] \in Prompts
      BY <3>1 DEF InStep, HasRead, HasQueue, HasPrompt
    <3>3. union = RetrievedUnion(st, prompt[s], DiskQueue.threads, union, now)
      BY <3>2, UnionAgain
    <3>4. disk'.kind = "empty" /\ DiskQueue' = DiskQueue /\ now \in 1 .. now
      BY <3>1 DEF Emptied, DiskQueue
    <3>5. pc'[s] = "saving"
      BY <3>1 DEF TypeOK
    <3>. HIDE DEF st, union
    <3>6. HasRetrieved(s)'
      BY <3>1, <3>2, <3>3, <3>4 DEF HasRetrieved
    <3>7. InStep(s)'
      BY <3>1, <3>2, <3>5, <3>6 DEF InStep, HasRead, HasQueue, HasOpened, HasPrompt
    <3>8. QED
      BY <2>a, <3>1, <3>7
  <2>5. ASSUME NEW s \in Sessions, SaveState(s)
        PROVE  SerialInv'
    <3>1. /\ pc[s] = "saving" /\ pc' = [pc EXCEPT ![s] = "saved"]
          /\ now' = now /\ prompt' = prompt /\ pc'[s] = "saved"
      BY <2>5 DEF SaveState, Goto, TypeOK
    <3>2. InStep(s)'
      BY <3>1 DEF InStep, HasRead, HasQueue, HasRetrieved, HasOpened, HasPrompt
    <3>3. QED
      BY <2>a, <3>1, <3>2
  <2>6. ASSUME NEW s \in Sessions, OpenPrefetch(s)
        PROVE  SerialInv'
    <3>1. /\ pc[s] = "saved" /\ pc' = [pc EXCEPT ![s] = "queueing"] /\ now' = now
          /\ prompt' = prompt /\ prefetch'.kind = "empty" /\ pc'[s] = "queueing"
      BY <2>6 DEF OpenPrefetch, Goto, Emptied, TypeOK
    <3>2. InStep(s)'
      BY <3>1 DEF InStep, HasRead, HasQueue, HasRetrieved, HasOpened, HasPrompt
    <3>3. QED
      BY <2>a, <3>1, <3>2
  <2>7. ASSUME NEW s \in Sessions, SavePrefetch(s) \/ ReturnEmpty(s)
        PROVE  SerialInv'
    <3>1. pc[s] # "idle" /\ pc' = [pc EXCEPT ![s] = "idle"] /\ now' = now
      BY <2>7 DEF SavePrefetch, ReturnEmpty, Forget
    <3>2. QED
      BY <2>a, <3>1, AloneStep, IdleInStep
  <2>8. ASSUME NEW f \in Files, Pin(f)
        PROVE  SerialInv'
    <3>1. AllIdle /\ pc' = pc /\ now' = now
      BY <2>8 DEF Pin, turnVars, Serial
    <3>2. \A u \in Sessions : pc'[u] = "idle"
      BY <3>1 DEF AllIdle, Idle
    <3>3. QED
      BY <3>1, <3>2, IdleInStep DEF SerialInv, Alone
  <2>9. CASE Tick
    <3>1. /\ now' = now + 1
          /\ UNCHANGED <<disk, prefetch, pc, prompt, mine, queue, base, stamp, pulled>>
      BY <2>9 DEF Tick, files, turnVars
    <3>2. \A u \in Sessions : InStep(u)'
      <4>1. ASSUME NEW u \in Sessions, NEW k \in 1 .. now
            PROVE  k \in 1 .. now'
        BY <3>1
      <4>2. QED
        BY <3>1, <4>1
        DEF InStep, HasRead, HasQueue, HasRetrieved, HasOpened, HasPrompt, DiskState, DiskQueue
    <3>3. QED
      BY <3>1, <3>2 DEF SerialInv, Alone
  <2>10. CASE UNCHANGED vars
    BY <2>10 DEF vars, SerialInv, Alone, InStep, HasRead, HasQueue, HasRetrieved, HasOpened,
                 HasPrompt, DiskState, DiskQueue
  <2>11. QED
    BY <2>1, <2>2, <2>3, <2>4, <2>5, <2>6, <2>7, <2>8, <2>9, <2>10
    DEF Next, Advance, CutOff, Serial
<1>3. QED
  BY <1>1, <1>2, PTL DEF Spec
-----------------------------------------------------------------------------
(* What the mapping gives, before and after a step of the one turn.        *)
LEMMA CurrentBefore ==
  ASSUME NEW s \in Sessions, \A u \in Sessions : u # s => pc[u] = "idle"
  PROVE  /\ CurrentState = IF pc[s] = "saving" THEN base[s] ELSE DiskState
         /\ CurrentQueue = IF pc[s] \in {"saved", "queueing"} THEN queue[s] ELSE DiskQueue
<1>1. pc[s] = "saving" => Writer({"saving"}) = s
  BY DEF Writer
<1>2. pc[s] \in {"saved", "queueing"} => Writer({"saved", "queueing"}) = s
  BY DEF Writer
<1>3. QED
  BY <1>1, <1>2 DEF CurrentState, CurrentQueue, DiskState, DiskQueue

LEMMA CurrentAfter ==
  ASSUME NEW s \in Sessions, \A u \in Sessions : u # s => pc'[u] = "idle"
  PROVE  /\ CurrentState' = IF pc'[s] = "saving" THEN base'[s] ELSE DiskState'
         /\ CurrentQueue' = IF pc'[s] \in {"saved", "queueing"} THEN queue'[s] ELSE DiskQueue'
<1>1. pc'[s] = "saving" => Writer({"saving"})' = s
  BY DEF Writer
<1>2. pc'[s] \in {"saved", "queueing"} => Writer({"saved", "queueing"})' = s
  BY DEF Writer
<1>3. QED
  BY <1>1, <1>2 DEF CurrentState, CurrentQueue, DiskState, DiskQueue

LEMMA CurrentIdle ==
  AllIdle => CurrentState = DiskState /\ CurrentQueue = DiskQueue
BY DEF AllIdle, Idle, CurrentState, CurrentQueue, DiskState, DiskQueue

(* The step that matters: writing the state is the atomic turn.            *)
LEMMA SaveIsTurn ==
  ASSUME SerialInv, NEW s \in Sessions, SaveState(s)
  PROVE  Atomic!Turn(s, prompt[s], pulled[s], stamp[s])
<1>. DEFINE st == OpenTurn(base[s], s)
<1>1. /\ pc[s] = "saving" /\ pc' = [pc EXCEPT ![s] = "saved"] /\ pc'[s] = "saved"
      /\ disk' \in AfterWrite(disk, mine[s], InitMemoryState)
      /\ queue' = queue /\ prefetch' = prefetch /\ now' = now
  BY DEF SaveState, Goto, SerialInv, TypeOK
<1>2. /\ disk.kind = "empty"
      /\ mine[s] = CloseTurn(st, prompt[s], pulled[s], stamp[s])
      /\ pulled[s] = RetrievedUnion(st, prompt[s], DiskQueue.threads, pulled[s], stamp[s])
      /\ queue[s] = BuildMemoryPrefetchQueue(st, prompt[s], stamp[s])
      /\ base[s] \in State /\ stamp[s] \in Nat
  BY <1>1 DEF SerialInv, InStep, HasRetrieved, TypeOK
<1>3. \A u \in Sessions : u # s => pc[u] = "idle" /\ pc'[u] = "idle"
  BY <1>1, AloneStep DEF SerialInv
<1>4. CurrentState = base[s] /\ CurrentQueue = DiskQueue
  BY <1>1, <1>3, CurrentBefore
<1>5. CurrentState' = mine[s] /\ CurrentQueue' = queue[s]
  <2>1. DiskState' = mine[s]
    BY <1>1, <1>2 DEF DiskState, AfterWrite, Whole, ReadJson
  <2>2. QED
    BY <1>1, <1>3, <2>1, CurrentAfter
<1>6. mine[s].turn = base[s].turn + 1
  BY <1>2, OpenTurnEffect, OpenTurnType, CloseTurnKeeps
<1>. HIDE DEF st
<1>7. /\ mine[s] = CloseTurn(st, prompt[s],
                       RetrievedUnion(st, prompt[s], DiskQueue.threads, pulled[s], stamp[s]),
                       stamp[s])
      /\ queue[s] = BuildMemoryPrefetchQueue(st, prompt[s], stamp[s])
  BY <1>2
<1>8. QED
  BY <1>1, <1>4, <1>5, <1>6, <1>7, SameOpen, SameUnion, SameClose, SameQueue
  DEF Atomic!Turn, st

(* Every other step of the turn leaves the room as the next turn will find *)
(* it.                                                                     *)
LEMMA OtherStepsStutter ==
  ASSUME Serial, SerialInv, NEW s \in Sessions,
         \/ \E raw \in Prompts : Begin(s, raw)
         \/ ReadState(s) \/ ReadPrefetch(s)
         \/ \E found \in Lanes : Retrieve(s, found)
         \/ OpenPrefetch(s) \/ SavePrefetch(s) \/ ReturnEmpty(s)
  PROVE  CurrentState' = CurrentState /\ CurrentQueue' = CurrentQueue
<1>. DEFINE Others == \A u \in Sessions : u # s => pc'[u] = pc[u]
<1>0. pc \in [Sessions -> Phases] /\ TypeOK /\ Alone /\ InStep(s)
  BY DEF SerialInv, TypeOK
<1>1. ASSUME pc[s] # "idle" \/ AllIdle, \A u \in Sessions : u # s => pc'[u] = pc[u]
      PROVE  /\ CurrentState = IF pc[s] = "saving" THEN base[s] ELSE DiskState
             /\ CurrentQueue = IF pc[s] \in {"saved", "queueing"} THEN queue[s] ELSE DiskQueue
             /\ CurrentState' = IF pc'[s] = "saving" THEN base'[s] ELSE DiskState'
             /\ CurrentQueue' = IF pc'[s] \in {"saved", "queueing"} THEN queue'[s] ELSE DiskQueue'
  <2>1. \A u \in Sessions : u # s => pc[u] = "idle" /\ pc'[u] = "idle"
    BY <1>0, <1>1 DEF Alone, AllIdle, Idle
  <2>2. QED
    BY <2>1, CurrentBefore, CurrentAfter
<1>2. CASE \E raw \in Prompts : Begin(s, raw)
  <2>1. /\ AllIdle /\ pc[s] = "idle" /\ pc'[s] = "loading" /\ Others
        /\ DiskState' = DiskState /\ DiskQueue' = DiskQueue
    BY <1>0, <1>2 DEF Begin, Goto, Serial, DiskState, DiskQueue
  <2>2. QED
    BY <1>1, <2>1
<1>3. CASE ReadState(s)
  <2>1. /\ pc[s] = "loading" /\ pc'[s] = "read" /\ Others
        /\ DiskState' = DiskState /\ DiskQueue' = DiskQueue
    BY <1>0, <1>3 DEF ReadState, Goto, files, DiskState, DiskQueue
  <2>2. QED
    BY <1>1, <2>1
<1>4. CASE ReadPrefetch(s)
  <2>1. /\ pc[s] = "read" /\ pc'[s] = "ranking" /\ Others
        /\ DiskState' = DiskState /\ DiskQueue' = DiskQueue
    BY <1>0, <1>4 DEF ReadPrefetch, Goto, files, DiskState, DiskQueue
  <2>2. QED
    BY <1>1, <2>1
<1>5. CASE \E found \in Lanes : Retrieve(s, found)
  <2>1. /\ pc[s] = "ranking" /\ pc'[s] = "saving" /\ Others
        /\ base' = base /\ DiskQueue' = DiskQueue
    BY <1>0, <1>5 DEF Retrieve, Goto, DiskState, DiskQueue
  <2>2. base[s] = DiskState
    BY <1>0, <2>1 DEF InStep, HasRead
  <2>3. QED
    BY <1>1, <2>1, <2>2
<1>6. CASE OpenPrefetch(s)
  <2>1. /\ pc[s] = "saved" /\ pc'[s] = "queueing" /\ Others
        /\ DiskState' = DiskState /\ queue' = queue
    BY <1>0, <1>6 DEF OpenPrefetch, Goto, DiskState, DiskQueue
  <2>2. QED
    BY <1>1, <2>1
<1>7. CASE SavePrefetch(s)
  <2>1. /\ pc[s] = "queueing" /\ pc'[s] = "idle" /\ Others /\ DiskState' = DiskState
        /\ prefetch' \in AfterWrite(prefetch, queue[s], NoQueue)
    BY <1>0, <1>7 DEF SavePrefetch, Forget, DiskState, DiskQueue
  <2>2. prefetch.kind = "empty"
    BY <1>0, <2>1 DEF InStep, HasOpened
  <2>3. DiskQueue' = queue[s]
    BY <2>1, <2>2 DEF AfterWrite, Whole, ReadJson, DiskQueue
  <2>4. QED
    BY <1>1, <2>1, <2>3
<1>8. CASE ReturnEmpty(s)
  <2>1. /\ pc[s] \in {"loading", "read", "ranking"} /\ pc'[s] = "idle" /\ Others
        /\ DiskState' = DiskState /\ DiskQueue' = DiskQueue
    BY <1>0, <1>8 DEF ReturnEmpty, Forget, files, DiskState, DiskQueue
  <2>2. QED
    BY <1>1, <2>1
<1>9. QED
  BY <1>2, <1>3, <1>4, <1>5, <1>6, <1>7, <1>8

LEMMA PinIsPin ==
  ASSUME Serial, SerialInv, NEW f \in Files, Pin(f)
  PROVE  Atomic!Pin(f)
<1>1. /\ AllIdle /\ pc' = pc /\ disk.kind = "whole" /\ prefetch' = prefetch /\ now' = now
      /\ disk.value.loaded[f].at > 0
      /\ disk' = [disk EXCEPT !.value.loaded[f].pinned = TRUE]
  BY DEF Pin, turnVars, Serial
<1>2. AllIdle'
  BY <1>1 DEF AllIdle, Idle
<1>3. /\ CurrentState = DiskState /\ CurrentQueue = DiskQueue
      /\ CurrentState' = DiskState' /\ CurrentQueue' = DiskQueue'
  BY <1>1, <1>2 DEF AllIdle, Idle, CurrentState, CurrentQueue, DiskState, DiskQueue
<1>4. disk \in [kind: FileKinds, value: State]
  BY DEF SerialInv, TypeOK, JsonFiles
<1>5. /\ DiskState = disk.value /\ DiskQueue' = DiskQueue
      /\ DiskState' = [disk.value EXCEPT !.loaded[f].pinned = TRUE]
  BY <1>1, <1>4 DEF DiskState, DiskQueue, ReadJson
<1>6. QED
  BY <1>1, <1>3, <1>5 DEF Atomic!Pin

LEMMA TickIsTick ==
  ASSUME Tick
  PROVE  Atomic!Tick
<1>1. /\ now' = now + 1
      /\ UNCHANGED <<disk, prefetch, pc, base, queue>>
  BY DEF Tick, files, turnVars
<1>2. CurrentState' = CurrentState /\ CurrentQueue' = CurrentQueue
  BY <1>1 DEF CurrentState, CurrentQueue, Writer
<1>3. QED
  BY <1>1, <1>2 DEF Atomic!Tick

LEMMA NowKept ==
  ASSUME NEW s \in Sessions,
         \/ \E raw \in Prompts : Begin(s, raw)
         \/ ReadState(s) \/ ReadPrefetch(s)
         \/ \E found \in Lanes : Retrieve(s, found)
         \/ OpenPrefetch(s) \/ SavePrefetch(s) \/ ReturnEmpty(s)
  PROVE  UNCHANGED <<now, pins, pulledAt>>
BY DEF Begin, ReadState, ReadPrefetch, Retrieve, OpenPrefetch, SavePrefetch, ReturnEmpty, ledger

LEMMA StepRefines ==
  ASSUME Serial, SerialInv, [Next]_vars
  PROVE  [Atomic!Next]_(Atomic!atomicVars)
<1>1. ASSUME NEW s \in Sessions, SaveState(s)
      PROVE  Atomic!Next
  <2>1. pc[s] = "saving" /\ pc[s] # "idle"
    BY <1>1 DEF SaveState, Goto
  <2>2. prompt[s] \in Prompts /\ stamp[s] \in 1 .. now /\ pulled[s] \in SUBSET Files
    BY <2>1 DEF SerialInv, InStep, HasPrompt, HasRetrieved, TypeOK
  <2>3. Atomic!Turn(s, prompt[s], pulled[s], stamp[s])
    BY <1>1, SaveIsTurn
  <2>4. QED
    BY <2>2, <2>3 DEF Atomic!Next
<1>2. ASSUME NEW s \in Sessions,
             \/ \E raw \in Prompts : Begin(s, raw)
             \/ ReadState(s) \/ ReadPrefetch(s)
             \/ \E found \in Lanes : Retrieve(s, found)
             \/ OpenPrefetch(s) \/ SavePrefetch(s) \/ ReturnEmpty(s)
      PROVE  UNCHANGED Atomic!atomicVars
  BY <1>2, OtherStepsStutter, NowKept DEF Atomic!atomicVars
<1>3. ASSUME NEW f \in Files, Pin(f)
      PROVE  Atomic!Next
  BY <1>3, PinIsPin DEF Atomic!Next
<1>4. CASE Tick
  BY <1>4, TickIsTick DEF Atomic!Next
<1>5. CASE UNCHANGED vars
  <2>1. UNCHANGED <<disk, prefetch, now, pc, base, queue>>
    BY <1>5 DEF vars
  <2>2. CurrentState' = CurrentState /\ CurrentQueue' = CurrentQueue /\ now' = now
    BY <2>1 DEF CurrentState, CurrentQueue, Writer
  <2>3. QED
    BY <2>2 DEF Atomic!atomicVars
<1>6. ~ \E s \in Sessions : CutOff(s)
  BY DEF CutOff, Serial
<1>7. QED
  BY <1>1, <1>2, <1>3, <1>4, <1>5, <1>6 DEF Next, Advance

LEMMA InitRefines == Init => Atomic!Init
<1>. SUFFICES ASSUME Init
              PROVE  Atomic!Init
  OBVIOUS
<1>1. AllIdle /\ DiskState = InitMemoryState /\ DiskQueue = NoQueue /\ now = 1
  BY DEF Init, AllIdle, Idle, DiskState, DiskQueue, ReadJson, Emptied
<1>2. QED
  BY <1>1, CurrentIdle, SameInit DEF Atomic!Init

(* A room used by one turn at a time, with no fault, behaves as if every   *)
(* turn read and replaced its two files in one step.                       *)
THEOREM SerialRoomIsAtomic ==
  ASSUME Serial
  PROVE  Spec => RefinesAtomicRoom
<1>1. SerialInv /\ [Next]_vars => [Atomic!Next]_(Atomic!atomicVars)
  BY StepRefines
<1>2. QED
  BY <1>1, InitRefines, SerialInvariant, PTL DEF Spec, RefinesAtomicRoom, Atomic!Spec
-----------------------------------------------------------------------------
(* What a serial room keeps from turn to turn, of the state as the next    *)
(* turn will find it; it survives every step because only the atomic steps *)
(* change that state.                                                      *)
RoomKeeps ==
  /\ \A f \in Files : pulledAt[f] <= CurrentState.loaded[f].at
  /\ \A f \in pins : CurrentState.loaded[f].pinned
  /\ CurrentQueue.turn = CurrentState.turn

LEMMA SaveKeeps ==
  ASSUME SerialInv, RoomKeeps, NEW s \in Sessions, SaveState(s)
  PROVE  RoomKeeps'
<1>. DEFINE st == OpenTurn(base[s], s)
<1>1. /\ pc[s] = "saving" /\ pc' = [pc EXCEPT ![s] = "saved"] /\ pc'[s] = "saved"
      /\ disk' \in AfterWrite(disk, mine[s], InitMemoryState)
      /\ queue' = queue /\ pins' = pins
      /\ pulledAt' = [f \in Files |-> IF f \in pulled[s] THEN stamp[s] ELSE pulledAt[f]]
  BY DEF SaveState, Goto, SerialInv, TypeOK
<1>2. /\ disk.kind = "empty"
      /\ mine[s] = CloseTurn(st, prompt[s], pulled[s], stamp[s])
      /\ queue[s] = BuildMemoryPrefetchQueue(st, prompt[s], stamp[s])
      /\ base[s] \in State /\ stamp[s] \in Nat /\ pins \subseteq Files
  BY <1>1 DEF SerialInv, InStep, HasRetrieved, TypeOK
<1>3. CurrentState = base[s] /\ CurrentState' = mine[s] /\ CurrentQueue' = queue[s]
  <2>1. \A u \in Sessions : u # s => pc[u] = "idle" /\ pc'[u] = "idle"
    BY <1>1, AloneStep DEF SerialInv
  <2>2. DiskState' = mine[s]
    BY <1>1, <1>2 DEF DiskState, AfterWrite, Whole, ReadJson
  <2>3. QED
    BY <1>1, <2>1, <2>2, CurrentBefore, CurrentAfter
<1>4. st \in State /\ st.loaded = base[s].loaded
  BY <1>2, OpenTurnType, OpenTurnEffect
<1>5. queue[s].turn = mine[s].turn
  <2>1. mine[s].turn = st.turn
    BY <1>2, <1>4, CloseTurnKeeps
  <2>2. QED
    BY <1>2, <2>1 DEF BuildMemoryPrefetchQueue
<1>. HIDE DEF st
<1>6. ASSUME NEW f \in Files
      PROVE  /\ mine[s].loaded[f].pinned = base[s].loaded[f].pinned
             /\ f \in pulled[s] => mine[s].loaded[f].at = stamp[s]
             /\ f \notin pulled[s] => mine[s].loaded[f].at = base[s].loaded[f].at
  BY <1>2, <1>4, CloseTurnTouches
<1>7. \A f \in Files : pulledAt'[f] <= mine[s].loaded[f].at
  BY <1>1, <1>2, <1>3, <1>6 DEF RoomKeeps
<1>8. \A f \in pins' : mine[s].loaded[f].pinned
  BY <1>1, <1>2, <1>3, <1>6 DEF RoomKeeps
<1>9. QED
  BY <1>3, <1>5, <1>7, <1>8 DEF RoomKeeps

LEMMA PinKeeps ==
  ASSUME Serial, SerialInv, RoomKeeps, NEW f \in Files, Pin(f)
  PROVE  RoomKeeps'
<1>1. CurrentState' = [CurrentState EXCEPT !.loaded[f].pinned = TRUE]
      /\ CurrentQueue' = CurrentQueue
  BY PinIsPin DEF Atomic!Pin
<1>2. pins' = pins \union {f} /\ pulledAt' = pulledAt
  BY DEF Pin
<1>3. CurrentState \in State /\ pins \subseteq Files
  <2>1. CurrentState = DiskState
    BY CurrentIdle DEF Pin, Serial
  <2>2. QED
    BY <2>1, InitStateType DEF SerialInv, TypeOK, DiskState, ReadJson, JsonFiles
<1>4. /\ CurrentState'.turn = CurrentState.turn
      /\ \A g \in Files : /\ CurrentState'.loaded[g].at = CurrentState.loaded[g].at
                          /\ CurrentState.loaded[g].pinned => CurrentState'.loaded[g].pinned
      /\ CurrentState'.loaded[f].pinned
  BY <1>1, <1>3 DEF State, StateOf, Touch
<1>5. QED
  BY <1>1, <1>2, <1>3, <1>4 DEF RoomKeeps

LEMMA RoomKept ==
  ASSUME Serial
  PROVE  Spec => []RoomKeeps
<1>1. Init => RoomKeeps
  <2>. SUFFICES ASSUME Init
                PROVE  RoomKeeps
    OBVIOUS
  <2>1. CurrentState = InitMemoryState /\ CurrentQueue = NoQueue
    BY InitRefines, SameInit DEF Atomic!Init
  <2>2. QED
    BY <2>1 DEF Init, RoomKeeps, InitMemoryState, NoQueue, NoTouch
<1>2. SerialInv /\ RoomKeeps /\ [Next]_vars => RoomKeeps'
  <2>. SUFFICES ASSUME SerialInv, RoomKeeps, [Next]_vars
                PROVE  RoomKeeps'
    OBVIOUS
  <2>1. ASSUME NEW s \in Sessions,
               \/ \E raw \in Prompts : Begin(s, raw)
               \/ ReadState(s) \/ ReadPrefetch(s)
               \/ \E found \in Lanes : Retrieve(s, found)
               \/ OpenPrefetch(s) \/ SavePrefetch(s) \/ ReturnEmpty(s)
        PROVE  RoomKeeps'
    BY <2>1, OtherStepsStutter, NowKept DEF RoomKeeps
  <2>2. CASE Tick
    <3>1. CurrentState' = CurrentState /\ CurrentQueue' = CurrentQueue
      BY <2>2, TickIsTick DEF Atomic!Tick
    <3>2. QED
      BY <2>2, <3>1 DEF Tick, ledger, RoomKeeps
  <2>3. CASE UNCHANGED vars
    <3>1. UNCHANGED <<disk, prefetch, pc, base, queue, pins, pulledAt>>
      BY <2>3 DEF vars
    <3>2. QED
      BY <3>1 DEF RoomKeeps, CurrentState, CurrentQueue, Writer
  <2>4. ~ \E s \in Sessions : CutOff(s)
    BY DEF CutOff, Serial
  <2>5. QED
    BY <2>1, <2>2, <2>3, <2>4, SaveKeeps, PinKeeps DEF Next, Advance
<1>3. QED
  BY <1>1, <1>2, SerialInvariant, PTL DEF Spec

LEMMA KeptBetweenTurns ==
  ASSUME RoomKeeps
  PROVE  /\ PullRemembered
         /\ pins \subseteq Files => PinRemembered
         /\ DeferredFromPriorTurn
<1>1. AllIdle => CurrentState = ReadJson(disk, InitMemoryState)
                 /\ CurrentQueue = ReadJson(prefetch, NoQueue)
  BY CurrentIdle DEF DiskState, DiskQueue
<1>2. QED
  BY <1>1 DEF RoomKeeps, PullRemembered, PinRemembered, Pinned, DeferredFromPriorTurn

(* Between the turns of a serial room the state on the disk knows of every *)
(* pull of every saved turn.                                               *)
THEOREM PullsRemembered ==
  ASSUME Serial
  PROVE  Spec => []PullRemembered
BY RoomKept, KeptBetweenTurns, PTL

(* Between the turns of a serial room whatever was pinned is pinned.       *)
THEOREM PinsRemembered ==
  ASSUME Serial
  PROVE  Spec => []PinRemembered
<1>1. RoomKeeps /\ TypeOK => PinRemembered
  BY KeptBetweenTurns DEF TypeOK
<1>2. QED
  BY <1>1, RoomKept, TypeCorrect, PTL

(* Between the turns of a serial room the deferred queue is that of the    *)
(* last turn the state counts.                                             *)
THEOREM DeferredAgrees ==
  ASSUME Serial
  PROVE  Spec => []DeferredFromPriorTurn
BY RoomKept, KeptBetweenTurns, PTL
=============================================================================
