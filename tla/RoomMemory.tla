------------------------------ MODULE RoomMemory ------------------------------
(***************************************************************************)
(* The retrieval turn of a room, runRoomMemoryRetrieval in src/memory.ts,  *)
(* at the grain of its awaits. Each session open on the room runs its      *)
(* turns one after the other; the sessions share the two files of the room *)
(* (loaded_state.json, prefetch.json) and no lock protects them.           *)
(*                                                                         *)
(* A write of a file is two steps (JsonFile): a reader in between finds no *)
(* JSON and starts from a fresh state.                                     *)
(***************************************************************************)
EXTENDS MemoryRank, JsonFile

CONSTANTS
  Sessions,       \* conversations open on the room
  Prompts,        \* the raw scores a prompt may give to the threads
  Lanes,          \* what the date, important, content and semantic passes may find
  Overlapping,    \* TRUE: turns and operator edits may overlap in time
  Faults,         \* TRUE: a turn may be cut off inside its writes
  MaxTurns,       \* bound: turns begun in a behaviour
  MaxNow          \* bound: recency half-lives that pass

ASSUME TurnAssumption ==
  /\ Overlapping \in BOOLEAN /\ Faults \in BOOLEAN
  /\ Prompts \subseteq [Threads -> Nat]
  /\ Lanes \subseteq SUBSET Files
  /\ NoSession \notin Sessions
  /\ MaxTurns \in Nat /\ MaxNow \in Nat

VARIABLES
  disk,           \* loaded_state.json
  prefetch,       \* prefetch.json
  now,            \* the time, in recency half-lives
  begun,          \* turns begun so far
  pc,             \* pc[s]: where the turn of session s is
  prompt,         \* prompt[s]: the raw scores of the prompt of s's turn
  mine,           \* mine[s]: the state object s's turn works on
  queue,          \* queue[s]: the queue s's turn read; once it is saving, the one it built
  base,           \* history: base[s], the state s's turn found on the disk
  stamp,          \* history: stamp[s], when s's turn retrieved pulled[s]
  pulled,         \* history: pulled[s], the files s's turn retrieved
  matched,        \* history: matched[s], the threads s's turn matched
  served,         \* history: served[s][t], the saved turns of s that matched t
  pulledAt,       \* history: pulledAt[f], when a saved turn last retrieved f
  pins,           \* history: the files the operator pinned
  mixed           \* history: two sessions were inside a write of disk at once

files == <<disk, prefetch>>
ledger == <<served, pulledAt, pins, mixed>>
turnVars == <<pc, prompt, mine, queue, base, stamp, pulled, matched>>
vars == <<disk, prefetch, now, begun, pc, prompt, mine, queue, base, stamp, pulled,
          matched, served, pulledAt, pins, mixed>>

State == StateOf(Sessions)
Phases == {"idle", "loading", "read", "ranking", "saving", "saved", "queueing"}
NoPrompt == [t \in Threads |-> 0]

Idle(s) == pc[s] = "idle"
AllIdle == \A s \in Sessions : Idle(s)
Goto(s, from, to) == pc[s] = from /\ pc' = [pc EXCEPT ![s] = to]

(* What a session holds between two turns: nothing.                        *)
Forget(s) ==
  /\ pc' = [pc EXCEPT ![s] = "idle"]
  /\ prompt' = [prompt EXCEPT ![s] = NoPrompt]
  /\ mine' = [mine EXCEPT ![s] = InitMemoryState]
  /\ queue' = [queue EXCEPT ![s] = NoQueue]
  /\ base' = [base EXCEPT ![s] = InitMemoryState]
  /\ stamp' = [stamp EXCEPT ![s] = 0]
  /\ pulled' = [pulled EXCEPT ![s] = {}]
  /\ matched' = [matched EXCEPT ![s] = {}]
-----------------------------------------------------------------------------
Init ==
  /\ disk = Emptied(InitMemoryState)
  /\ prefetch = Emptied(NoQueue)
  /\ now = 1 /\ begun = 0
  /\ pc = [s \in Sessions |-> "idle"]
  /\ prompt = [s \in Sessions |-> NoPrompt]
  /\ mine = [s \in Sessions |-> InitMemoryState]
  /\ queue = [s \in Sessions |-> NoQueue]
  /\ base = [s \in Sessions |-> InitMemoryState]
  /\ stamp = [s \in Sessions |-> 0]
  /\ pulled = [s \in Sessions |-> {}]
  /\ matched = [s \in Sessions |-> {}]
  /\ served = [s \in Sessions |-> [t \in Threads |-> 0]]
  /\ pulledAt = [f \in Files |-> 0]
  /\ pins = {}
  /\ mixed = FALSE

(* A user message reaches the hook: the turn starts by loading the lexical *)
(* index, a process with a timeout or, failing that, the JSON index.       *)
Begin(s, raw) ==
  /\ begun < MaxTurns
  /\ Overlapping \/ AllIdle
  /\ Goto(s, "idle", "loading")
  /\ prompt' = [prompt EXCEPT ![s] = raw]
  /\ begun' = begun + 1
  /\ UNCHANGED <<disk, prefetch, now, mine, queue, base, stamp, pulled, matched, ledger>>

\* A variant with a bug: the hits of another session are kept.
ReadStateNoReset(s) ==
  LET found == ReadJson(disk, InitMemoryState)
  IN  /\ Goto(s, "loading", "read")
      /\ mine' = [mine EXCEPT ![s] = [found EXCEPT !.turn = found.turn + 1]]
      /\ base' = [base EXCEPT ![s] = found]
      /\ UNCHANGED <<files, now, begun, prompt, queue, stamp, pulled, matched, ledger>>

(* The state is read, or a fresh one taken; the session is reset and the   *)
(* turn counted, in memory.                                                *)
ReadState(s) ==
  LET found == ReadJson(disk, InitMemoryState)
  IN  /\ Goto(s, "loading", "read")
      /\ mine' = [mine EXCEPT ![s] = OpenTurn(found, s)]
      /\ base' = [base EXCEPT ![s] = found]
      /\ UNCHANGED <<files, now, begun, prompt, queue, stamp, pulled, matched, ledger>>

\* A variant with a bug: a missing or unreadable file is waited for.
ReadPrefetchWhole(s) ==
  /\ prefetch.kind = "whole"
  /\ Goto(s, "read", "ranking")
  /\ queue' = [queue EXCEPT ![s] = prefetch.value]
  /\ UNCHANGED <<files, now, begun, prompt, mine, base, stamp, pulled, matched, ledger>>

ReadPrefetch(s) ==
  /\ Goto(s, "read", "ranking")
  /\ queue' = [queue EXCEPT ![s] = ReadJson(prefetch, NoQueue)]
  /\ UNCHANGED <<files, now, begun, prompt, mine, base, stamp, pulled, matched, ledger>>

(* The threads are ranked against the prompt at this moment, the lanes     *)
(* have answered and the excerpts are collected: everything the            *)
(* turn retrieved is touched in its state object, its matches are counted, *)
(* and loaded_state.json is opened for writing.                            *)
Retrieve(s, lane) ==
  LET st == mine[s]
      raw == prompt[s]
      union == RetrievedUnion(st, raw, queue[s].threads, lane, now)
  IN  /\ Goto(s, "ranking", "saving")
      /\ mine' = [mine EXCEPT ![s] = CloseTurn(st, raw, union, now)]
      /\ queue' = [queue EXCEPT ![s] = BuildMemoryPrefetchQueue(st, raw, now)]
      /\ disk' = Emptied(InitMemoryState)
      /\ stamp' = [stamp EXCEPT ![s] = now]
      /\ pulled' = [pulled EXCEPT ![s] = union]
      /\ matched' = [matched EXCEPT ![s] = SyncMatches(st, raw, now)]
      /\ mixed' = (mixed \/ \E other \in Sessions \ {s} : pc[other] = "saving")
      /\ UNCHANGED <<prefetch, now, begun, prompt, base, served, pulledAt, pins>>

SaveState(s) ==
  /\ Goto(s, "saving", "saved")
  /\ disk' \in AfterWrite(disk, mine[s], InitMemoryState)
  /\ served' = [served EXCEPT ![s] = [t \in Threads |->
                  IF t \in matched[s] THEN served[s][t] + 1 ELSE served[s][t]]]
  /\ pulledAt' = [f \in Files |-> IF f \in pulled[s] THEN stamp[s] ELSE pulledAt[f]]
  /\ UNCHANGED <<prefetch, now, begun, prompt, mine, queue, base, stamp, pulled, matched,
                  pins, mixed>>

OpenPrefetch(s) ==
  /\ Goto(s, "saved", "queueing")
  /\ prefetch' = Emptied(NoQueue)
  /\ UNCHANGED <<disk, now, begun, prompt, mine, queue, base, stamp, pulled, matched, ledger>>

\* A variant with a bug: an empty queue is not worth a write.
SavePrefetchIfAny(s) ==
  /\ pc[s] = "queueing"
  /\ prefetch' \in IF queue[s].threads = {} THEN {prefetch}
                   ELSE AfterWrite(prefetch, queue[s], NoQueue)
  /\ Forget(s)
  /\ UNCHANGED <<disk, now, begun, ledger>>

(* The queue is written and the context is handed to the caller.           *)
SavePrefetch(s) ==
  /\ pc[s] = "queueing"
  /\ prefetch' \in AfterWrite(prefetch, queue[s], NoQueue)
  /\ Forget(s)
  /\ UNCHANGED <<disk, now, begun, ledger>>

(* Fail-open: no index, or an exception before the first write. The turn   *)
(* returns an empty context and has changed no file.                       *)
ReturnEmpty(s) ==
  /\ pc[s] \in {"loading", "read", "ranking"}
  /\ Forget(s)
  /\ UNCHANGED <<files, now, begun, ledger>>

(* A write fails, or the process dies, with the files as they then are.    *)
CutOff(s) ==
  /\ Faults
  /\ pc[s] \in {"saving", "saved", "queueing"}
  /\ Forget(s)
  /\ UNCHANGED <<files, now, begun, ledger>>

(* The operator pins a file in loaded_state.json; nothing in src does.     *)
Pin(f) ==
  /\ Overlapping \/ AllIdle
  /\ disk.kind = "whole" /\ disk.value.loaded[f].at > 0
  /\ f \notin pins
  /\ disk' = [disk EXCEPT !.value.loaded[f].pinned = TRUE]
  /\ pins' = pins \union {f}
  /\ UNCHANGED <<prefetch, now, begun, turnVars, served, pulledAt, mixed>>

Tick ==
  /\ now < MaxNow
  /\ now' = now + 1
  /\ UNCHANGED <<files, begun, turnVars, ledger>>

(* The steps of a turn once it has begun.                                  *)
Advance(s) ==
  \/ ReadState(s) \/ ReadPrefetch(s)
  \/ \E lane \in Lanes : Retrieve(s, lane)
  \/ SaveState(s) \/ OpenPrefetch(s) \/ SavePrefetch(s)

Next ==
  \/ \E s \in Sessions :
       \/ \E raw \in Prompts : Begin(s, raw)
       \/ Advance(s)
       \/ ReturnEmpty(s)
       \/ CutOff(s)
  \/ \E f \in Files : Pin(f)
  \/ Tick

Spec == Init /\ [][Next]_vars

(* Every await of a turn is a file operation or a process runWsl kills     *)
(* when its time is up, so a turn that has begun takes its next step.      *)
Fairness == \A s \in Sessions : WF_vars(Advance(s))

FairSpec == Spec /\ Fairness
-----------------------------------------------------------------------------
TypeOK ==
  /\ disk \in JsonFiles(State) /\ prefetch \in JsonFiles(Queue)
  /\ now \in Nat /\ begun \in Nat
  /\ pc \in [Sessions -> Phases]
  /\ prompt \in [Sessions -> [Threads -> Nat]]
  /\ mine \in [Sessions -> State] /\ base \in [Sessions -> State]
  /\ queue \in [Sessions -> Queue]
  /\ stamp \in [Sessions -> Nat]
  /\ pulled \in [Sessions -> SUBSET Files]
  /\ matched \in [Sessions -> SUBSET Threads]
  /\ served \in [Sessions -> [Threads -> Nat]]
  /\ pulledAt \in [Files -> Nat]
  /\ pins \subseteq Files
  /\ mixed \in BOOLEAN

(* No state, on the disk or in a turn's hands, says a file was touched in  *)
(* a turn that state has not reached: however turns overlap, are cut off   *)
(* or restart from nothing, each state is the work of one line of turns.   *)
NotAhead(st) == \A f \in Files : st.loaded[f].turn <= st.turn
TouchNeverAhead ==
  /\ NotAhead(disk.value)
  /\ \A s \in Sessions : NotAhead(mine[s])

(* The repeat counts on the disk belong to the session named there and     *)
(* never exceed the turns of that session that did match the thread: a     *)
(* memory is not penalised for what another session was shown.             *)
HitsAreEarned ==
  \A s \in Sessions, t \in Threads :
    disk.value.session = s => disk.value.hits.thread[t] <= served[s][t]

(* The state file is left unreadable by interleaved texts only if two      *)
(* sessions were inside their writes at once.                              *)
TornNeedsTwoWriters == disk.kind = "torn" => mixed

(* t scores no less than u.                                                *)
Outranks(st, raw, at, t, u) ==
  Numerator(st, raw, t) * Denominator(st, u, at) >= Numerator(st, raw, u) * Denominator(st, t, at)

Sliced(st, raw, at, injected, deferred) ==
  /\ injected \subseteq Ranked(st, raw, at) /\ deferred \subseteq Ranked(st, raw, at)
  /\ injected \intersect deferred = {}
  /\ Cardinality(injected) <= MaxSync /\ Cardinality(deferred) <= MaxPrefetch
  /\ deferred # {} => Cardinality(injected) = MaxSync
  /\ \A u \in Ranked(st, raw, at) \ injected :
       /\ Cardinality(injected) = MaxSync
       /\ \A t \in injected : Outranks(st, raw, at, t, u)
  /\ \A u \in Ranked(st, raw, at) \ (injected \union deferred) :
       /\ Cardinality(deferred) = MaxPrefetch
       /\ \A t \in deferred : Outranks(st, raw, at, t, u)

(* From its ranking on, a turn holds two slices of one ranking, that of the*)
(* state it read under its own session: disjoint, within their limits, full*)
(* before anything is left out, and outscored by nothing left out, whatever*)
(* other turns reset, save or tear in the meantime.                        *)
SlicesKept ==
  \A s \in Sessions : pc[s] \in {"saving", "saved", "queueing"} =>
    Sliced(OpenTurn(base[s], s), prompt[s], stamp[s], matched[s], queue[s].threads)

(* The next turn will find every retrieval of every saved turn: "touch-on- *)
(* retrieval ... a pull is a use; reset the clock so it's fresh next turn" *)
(* (src/memory.ts:666).                                                    *)
PullRemembered ==
  AllIdle => \A f \in Files : pulledAt[f] <= ReadJson(disk, InitMemoryState).loaded[f].at

(* What the operator pinned stays pinned through the rewrites of the file. *)
PinRemembered == AllIdle => pins \subseteq Pinned(ReadJson(disk, InitMemoryState))

(* The queue a turn defers to the next one is that of the turn before it:  *)
(* the two files of the room agree on the turn they were written in.       *)
DeferredFromPriorTurn ==
  AllIdle => ReadJson(prefetch, NoQueue).turn = ReadJson(disk, InitMemoryState).turn

(* A turn that has begun ends: the conversation is never blocked on it.    *)
TurnEnds == \A s \in Sessions : pc[s] # "idle" ~> pc[s] = "idle"
-----------------------------------------------------------------------------
(* Refinement. A turn takes effect when its state is written: until then   *)
(* the room is as its writer found it; from then until the queue is        *)
(* written, the queue the next turn will find is the one in its hands.     *)
Writer(phases) == CHOOSE s \in Sessions : pc[s] \in phases
CurrentState ==
  IF \E s \in Sessions : pc[s] = "saving"
  THEN base[Writer({"saving"})]
  ELSE ReadJson(disk, InitMemoryState)
CurrentQueue ==
  IF \E s \in Sessions : pc[s] \in {"saved", "queueing"}
  THEN queue[Writer({"saved", "queueing"})]
  ELSE ReadJson(prefetch, NoQueue)

Atomic == INSTANCE AtomicRoom WITH room <- CurrentState, deferred <- CurrentQueue

(* Turns that do not overlap and are not cut off while they write are      *)
(* atomic: the awaits and the two files cannot be told from one step.      *)
RefinesAtomicRoom == Atomic!Spec
=============================================================================
