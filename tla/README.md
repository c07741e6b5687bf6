# Solarisael House: a verification development

Solarisael House keeps the memory of long-lived agents ("rooms") outside any one
model session. The TypeScript core (`src/src/*.ts`) runs inside a host: on each
user message it retrieves room memory and on each turn it logs what was said.
Python scripts (`src/src/*.py`) read and change a PostgreSQL database on its
behalf. Two Rust crates (`src/crates`) define the typed protocol of the house.

The hard part of this code is not any one computation. It is that several host
sessions share a room's files without a lock, that every step of a turn is an
`await` other sessions come between, that answers come from child processes that
may be late, partial or dead, and that a failure anywhere has to leave the
conversation running. That is what these modules model.

Paths below are paths of the repository (`src/memory.ts` is the file of that
name in the repository's `src` directory).

## Components

| Component | State | Operations | What makes it correct |
|---|---|---|---|
| Retrieval turn (`src/memory.ts`, `src/memory-rank.ts`) | `loaded_state.json`: turn counter, per-file clock and pin, session, repeat counts; `prefetch.json`: deferred queue | `runRoomMemoryRetrieval` | nothing retrieved or pinned is forgotten; penalties belong to the session; the two files agree; the turn ends |
| Context block (`src/memory.ts`, `src/memory-rank.ts`) | lanes of excerpts, merged list, block | collectors, demotion, canon overlay, dedupe, budget trim | each source once, in its highest place; the budget cuts the least important; nothing is demoted without cover |
| JSON files (`src/util.ts`) | files | `readJson`, `writeJson`, `writeJsonFile` | a reader survives any content |
| Child processes (`src/wsl.ts`) | child, timer, promise, collected output | `runWsl` | a good answer is not lost, what is late is killed |
| Source lanes (`src/memory-sources.ts`) | the turn's index and lanes | lexical with fallback, then semantic, content and date by `Promise.all` | a partial answer is not an answer; the gathering ends |
| PostgreSQL source (`src/postgres-memory-source.py`) | one transaction, payload, lifecycle columns | passes of nine modes | rooms, visibility and archiving are honoured; an index is whole or the run fails; a caught failure does not end the run |
| Lesson mutation (`src/update-lesson.py`, `src/delete-lesson.py`) | lesson rows, row locks | update, delete | the row changed is the row confirmed; an answer is true |
| Turn log (`src/ledger.ts`) | ledgers, windows, live context (JSON and markdown) | `logUserTurn`, `logAssistantTurn` | what is shown is true history |
| Session state (`src/directives.ts`) | global and per-session JSON | `loadState`, `saveState`, `recordDirectives` | a session keeps its own directives, and starts from a state that was shared |
| Spirits (`src/spirit.ts`) | mtime cache, the house's and the room's `active_spirit.md` | `loadSpiritContract`, `readActiveSpirit`, `writeActiveSpiritFiles` | the cache follows the file; a mirror is of its own room |
| Context injection (`src/memory.ts`, `src/directives.ts`) | the conversation's messages | `injectRoomMemoryContext`, `patchDirectiveHistory`, `patchSyntheticReminders` | injected once; the prompt is the user's |
| Recall (`src/memory.ts`, `src/retrieval-candidates.ts`) | candidates by key | `runRecallQuery`, `runAnamnesisQuery`, `fuseRetrievalCandidates` | merging loses no evidence; what is left out is outranked; canon is complete |
| Query routing (`src/query-routing.ts`) | none | `classifyRetrievalQuery` | the first rule that applies decides |
| Worker routing, triggers (`src/routing.ts`, `src/triggers-core.ts`) | none | pure | bands |
| House protocol (`src/crates`) | none | request validation, receipts, envelopes | what is accepted is well formed |
| Read-only scripts, configuration, paths | none | one query or lookup each | - |

How they interact: the host calls the retrieval turn; the turn calls the source
lanes and assembles the context block from what they answered; each lane calls `runWsl`, which runs the PostgreSQL source as a process;
the files a lexical run returns are the scope of the semantic run. What a turn
assembled is pushed into the conversation by the injecting hook. The host also
calls the turn log, the session state, and with its answer the spirits; recall
asks the same lanes and fuses them in its own way. Sessions of one room share its two retrieval files and its
live context. Lesson scripts are processes of their own that meet in the
database only.

The behaviours that are hard to test, each at its line and with the properties
that would catch it, are the hazards of `PROJECT.json`.

## Modules

| Module | Models | Correspondence |
|---|---|---|
| `MemoryRank` | `src/memory-rank.ts` and the state updates of `src/memory.ts` | pure operators named after the functions; time in recency half-lives and exact rationals instead of doubles |
| `JsonFile` | `src/util.ts` | a file is empty, torn or whole; a write is an open that empties and, later, a text |
| `RoomMemory` | `runRoomMemoryRetrieval` | one action per await that reads or writes a file: `Begin`, `ReadState`, `ReadPrefetch`, `Retrieve`, `SaveState`, `OpenPrefetch`, `SavePrefetch`; `ReturnEmpty` and `CutOff` are the ways out; `Pin` is the operator's edit |
| `AtomicRoom` | what the room promises | a turn is one step |
| `ContextBlock` | the excerpts of a turn, `src/memory.ts:79`-`306` and `576`-`644`, and `collectCanonAssertions` | one action per excerpt a collector adds, and per turn of the loops of demotion, `dedupeMemoryExcerpts` and `trimMemoryExcerptsToBudget` |
| `Spawn` | `runWsl` | one action per callback (`OnTimeout`, `OnData`, `OnError`, `OnClose`), `Settle` is the latch; the child is external |
| `SourceLanes` | `src/memory-sources.ts` and the `Promise.all` | composes `Spawn` with the two stages of the gathering |
| `MemorySource` | `src/postgres-memory-source.py` | `PlanOf` is the mode, one step per pass (`Detect`, `Embed`, `Query`, `QueryFails`), one operator per loader for what it may return; `Archive` and `Restore` are other processes |
| `Lessons`, `LessonStore` | the two lesson scripts | arguments and rows; one action per statement of the transaction, with the row lock |
| `LessonRegistry` | what the scripts promise | a call is served or refused in one step |
| `TurnLog` | `src/ledger.ts` | one action per await: append, read ledger, open and write window, read live context, open and write each of its files |
| `SessionRules` | `defaultState`, `applyDirectives`, the overlays of `src/directives.ts` | a state is a record of fields; a partial state is a record of fewer |
| `SessionState` | `loadState`, `saveState`, `recordDirectives` | one action per await: `ReadGlobal`, `Merge` (the session's file), `OpenGlobal`, `WriteGlobal`, `OpenFile`, `WriteFile`, `Return`; `CutOff` is a crash or a write that failed |
| `SessionRegister` | what those files promise | a register per session; a save publishes its state and is one step |
| `ActiveSpirit` | `src/spirit.ts` on top of `SessionState` | `StatContract` and `ReadContract` are the two awaits of the cache, `OpenActive` .. `WriteMirror` those of the two mirrors; `Edit` is the operator's editor |
| `QueryRoute` | `src/query-routing.ts` | the rules in their order over the signals parsing finds |
| `RetrievalFusion` | `src/retrieval-candidates.ts` | pure operators: a row's candidate, its score in ten-thousandths, the merge of two candidates. The code adds and compares doubles; whole ten-thousandths decide alike unless two scores differ by less than the rounding |
| `Recall` | `runRecallQuery`, `runAnamnesisQuery` and the loops of fusion | composes the two: one action per row merged (`TakeRow`) and per candidate considered (`Consider`), `Answer` cuts and looks canon up |
| `Conversation` | the hooks on messages | `Start`, `TakePrompt`, `Inject` are `injectRoomMemoryContext` between its awaits; the two patches are one step each, modelled with the copies they strip and preserve, more than the properties need; `Say` is the user and the model |
| `MC*` | instances for TLC | |
| `*Proofs` | theorems | one module per component; `LaneProofs` has those of `SourceLanes` and of `Recall`, `ActiveSpiritProofs` those of `SessionState` and of `ActiveSpirit` |

Operators whose comment says "a variant with a bug" are not used by the
specifications. Each is the form a definition would have with a plausible
mistake in the code, and breaks a property of a run when put in its place.

What is abstracted, everywhere: texts are identities or scores, not characters;
which rows a query matches is left open; logging and wording are left out.
`MemorySource` takes the statements of one pass as one read and does not model
the `anamnesis` mode. `RoomMemory` leaves the assembly of the block to
`ContextBlock`, because what a turn saves does not depend on it. `ContextBlock`
in turn takes any rows and threads as retrieved, fixes for one assembly which
files are on the disk, gives each excerpt a length instead of a text, and leaves
out the canon cross-references, which only add a line to an excerpt. A scope that came from the room's JSON index instead of a lexical
run is not modelled.

## Runs

| Run | Question | Result |
|---|---|---|
| `room_serial` | turns that follow each other | are atomic (`RefinesAtomicRoom`), forget no retrieval and no pin, keep the files in step, end |
| `room_overlap` | turns that overlap anywhere, are cut off inside writes, with operator edits | no state is ahead of its own counter, penalties are earned by their session, a torn file needs two writers, and what a turn injects and defers are two full slices of one ranking (`SlicesKept`) |
| `room_lost_pull` | do overlapping turns keep every retrieval? | no: read at `src/memory.ts:519`, whole-file write at 683 |
| `context` | every combination of up to four excerpts from the seven lanes | each source once and in its highest place; demotion covered by a chunk; the budget is kept and cuts no more than it must |
| `source_lanes` | slow, partial, missing and failing processes | a good answer is kept, no partial answer becomes chunks, the gathering ends, no process is left |
| `memory_source` | two runs of the source, any modes, with failed statements, rows that cannot be read, and archiving in between | rooms, visibility and archiving hold; a run that goes on from its index has all of it (`IndexIsWhole`), so that the caller's fallback is never masked by a part; a failure that is caught does not become fatal (`CaughtIsNotFatal`) |
| `memory_hot` | are dormant chunks what the semantic pass did not surface? | no, for shared memories |
| `lessons` | concurrent updates and deletes, failures, lost acknowledgements | implement the registry; confirmed by title; every call answered |
| `turn_log` | overlapping, cut-off calls around midnight | what the files show is always true; the next call that is alone repairs what overlap and cut-offs left: the window is complete again (`WindowUpToDate`) and the two live files agree (`MarkdownAgrees`) |
| `session` | calls of two sessions and of none, overlapping and cut off, while a contract is edited | implement a register per session (`RefinesRegister`); no call goes on with a contract older than the one it saw (`ContractIsFresh`); a room's mirror shows its own session (`MirrorIsOwn`); the house's file agrees with the mirror of the room it names (`ActiveAgrees`) |
| `recall` | every question, and any rows the lanes may bring in their order | no flag, source or score of a row is lost in merging (`EvidenceKept`); the text shown is that of the best row (`BestRowShown`); what is left out is outranked or capped (`OutrankedOnly`); canon is complete and counted once (`CanonComplete`) |
| `conversation` | overlapping hooks on one conversation | a block is in a message twice only when two hooks were at work on it at once (`InjectedOnce`); a prompt never holds injected memory, and canon only then (`PromptIsOwn`) |

### Bounds, and why they are enough

* `MCRoomMemory`: two sessions, because every file race needs two writers and no
  property speaks of three; two threads that compete for one injection slot and
  one deferred slot, so that a thread is injected, deferred and dropped; two
  files, one of them undated; two prompts (both threads score, or only the
  second). `MaxTurns` = 3 lets two turns overlap and a third read what they left.
  `MaxNow` bounds the half-lives that pass: 2 where clocks are compared, 1 in the
  overlapping run.
* `MCSourceLanes`: the lexical source and two lanes, so that one can fail while
  the other answers; an answer of one piece, which may arrive before or after the
  exit and the timer.
* `MCMemorySource`: a paper-boat and a session record of one room and a shared
  paper-boat, all under one path, and a memory of another room: every rule on
  paths, rooms and visibility tells at least two of them apart. One memory can be
  archived (`Archivable`), a search returns at most one row (`MaxRows`), and two
  processes run one after the other (`MaxRuns`), the second with the first one's
  scope.
* `MCContextBlock`: the code's own limits (8000, 3500 and 8). Two files and two
  canon entries, one of which points into a file and one of which has a summary
  larger than the budget; up to four collected excerpts (`MaxFound`; an entry may
  bring its pointer besides), enough for two clipped files to leave room for one
  more excerpt and not for the next, and for two lanes to find one source. Two
  clipped files and a content chunk of 1014 characters fill the 8000 exactly.
* `MCLessonStore`: two callers on one row of each table, three calls, two values
  per column; the requests include one of each way of being refused.
* `MCTurnLog`: two sessions, three calls, one midnight; a live context of two
  turns and a window of one, so that both overflow; two calls that overlap or are
  cut off leave a third to come alone and repair.
* `MCActiveSpirit`: two sessions in two rooms and calls without a session, three
  calls in all (`MaxCalls`): two that overlap and one that finds what they left.
  Four requests: nothing, a refused spirit with an operator, an accepted spirit
  with a dismissal, and a raw partial state. One contract is edited in up to
  four steps (`MaxEdits`, two edits: each is an open and a write, and counts as a
  call), so that a text is cached, replaced and read again. `Faults` cuts calls off anywhere.
* `MCRecall`: seven rows, of which up to five are merged (`MaxRows`): one memory
  that three lanes find with different text and strength, an archived shared one,
  one found by its date, one without a path. Two calls of the fusion have caps
  and a cut of one and two, which recall itself does not reach; `NoCap` stands
  for `Infinity`. Six requests take every branch of the routing.
* `MCConversation`: two hooks at once, four calls (`MaxHooks`), two messages, so
  that a message grows while a hook works on another, and is found again.

Symmetry is used in runs of invariants only, over sessions that no definition
distinguishes. Deadlock is not checked: every instance stops when its bound on
turns, runs or calls is used up.

### Fairness

`RoomMemory` assumes a turn that has begun takes its next step, because each of
its awaits is a file operation or a process `runWsl` kills. `SourceLanes` assumes
only that the event loop runs what is ready, that an armed timer fires, and that
a killed child dies; a child owes nothing else. `LessonStore` assumes a
statement the database can run is run; a caller waits for one lock and holds no
other. The other modules are checked for safety only: whether the host calls
again, or a cut-off call is made again, is not in this code.

### Assumptions about what is outside

The host runs the calls of one session one after the other (`SessionState`; the
conversation's hooks may overlap). A room has one session in `ActiveSpirit`
(`SpiritAssumption`); with two, the second overwrites the mirror and `MirrorIsOwn`
has nothing to say. Contents of a contract that share one mtime are excepted
from `ContractIsFresh` by name: an mtime cache cannot tell them apart. A
retrieval has at most one memory and one canon block
(`ConversationAssumption`). Recall's rows, questions and calls are any of their
types, over finitely many words, and the canon index names an entry once
(`RecallAssumption`).

## Proofs

TLC checks the instances above; the following hold for every value of the
constants that satisfies the named assumptions.

* `RoomMemoryProofs` (any overlap, any faults): `TypeCorrect`, `NeverAhead`,
  `TornByTwo`, `HitsEarned`. The invariant says of each state in a turn's hands
  what it says of the one on the disk, since either may become the other.
  Then the ranking: `SlicesAreKept` says that what a turn injects and what it
  defers are disjoint, keep their limits, are full before anything is left out,
  and are not outscored by what is left out (for `Ranked`, with the state the
  turn read), and `QueueIsCapped` that no queue outgrows its limit, whatever
  overlaps. The argument: scores are fractions with a positive denominator
  (`ScoreType`), compared by cross multiplication, which orders them
  (`FractionsOrder`); with the place in the index as the last key that is a strict
  total order (`ListingOrders`), so positions are a bijection to 0, 1, 2 ...
  (`PositionsAre`) and a slice of them has the size of its interval (`SliceSize`).
  `SlicesKept` is a property of `room_overlap`; `QueueIsCapped` is proved only.
  In the same module, assuming `Serial` (no overlap, no cut-off):
  `SerialRoomIsAtomic` (refinement of `AtomicRoom`), `PullsRemembered`,
  `PinsRemembered`, `DeferredAgrees`. The invariant relates the one turn under
  way to the files it read, and the refinement takes effect at `SaveState`.
* `ContextBlockProofs`: `TypeCorrect`, `DedupeKeepsFirst`, `DemotionIsCovered`,
  `PriorityIsKept`, `BudgetIsKept`. Each loop has an invariant over the excerpts
  before `next` (`Demoted`, `Deduped`, `TrimInv`), and the next stage uses it at
  the end of the list. The total is the sum of the kept sizes (`Counted`): the
  sum is a recursive function on the indices, and two such functions that differed
  would differ at a least index, where they cannot.
* `LessonStoreProofs`: `TypeCorrect`, `Confirmed`, `Omitted`, `Answered`,
  `StoreIsRegistry`. Between its SELECT and its commit a call holds its row's
  lock, so the row is the one whose title it compared. `Answered` (an answer is
  true unless an acknowledgement is lost) is proved only; its run would be the
  one of the registry with acknowledgements kept. `NoCircularWait` is what of
  `CallAnswered` does not depend on fairness: locks are held exactly by the calls
  between their SELECT and their end (`Brief` and `Holds`), and such a call needs
  no other lock, so whoever waits waits for a caller that does not.
* `MemorySourceProofs`: `TypeCorrect`, `RoomsAreKept`, `HiddenStay`,
  `WholeIndex`, `CaughtSurvived`, `ArchivedStay`. The argument rests on the
  order of the passes: an answered pass comes before every pass still to run
  (`Ordered`). An index keeps every memory that could be shown since the run
  began, because that set only shrinks (`LastingShrinks`) and the loaders of the
  index either answer all of it or end the run (`Indexed`). The names of the passes are ranked by `Rank`; that all
  caught passes follow all fatal ones is `CaughtLast`.
* `LaneProofs`, first for `SourceLanes`: `TypeCorrect`, `GoodAnswers`,
  `WholeChunks`. The invariant says that a process that was not
  called has done nothing (`NotCalled`), that promise, timer, exit code and pieces
  of a run agree at every callback (`RunAgrees`), and that what a lane gave came
  from a settled, whole answer (`Found`). `ChildrenAreTimed` and `GatheringIsTimed`
  are what of `NoProcessLeft` and `GatheringEnds` does not depend on fairness:
  whatever runs or is waited for has an armed timer (`Timed`), and the turn waits
  only for promises that were made (`Launched`).
  Then for `Recall`, with any rows, questions, caps and canon index:
  `RecallTypeCorrect`, `EvidenceIsKept`, `BestRowIsShown`, `OnlyOutrankedIsMissing`,
  `CanonIsComplete`, and `SortHasNoTies`, which says that the order the answer is
  in is total. While rows are merged, each candidate has the flags, sources and
  words of its rows (`Carries`) and the total of their scores (`Scored`); a total
  grows by the row that is added because it is a recursive function of the rows
  so far (`TotalsNext`). While candidates are considered, what was passed over is
  outranked by a full answer or by all its source may have (`Ranked`). The canon
  entries are picked by a recursive function whose value is a selection without
  repetition (`PicksSelect`, `ChosenGives`).
* `TurnLogProofs`: `TypeCorrect`, `LiveHistory`, `LatestTexts`,
  `WindowsOfLedgers`, `WindowsFollow`, `MarkdownFollows`. A call writes with its
  own session's values only (`Own`); every context on the disk or in a call's
  hands is a history (`Contexts`), because ledgers only grow (`Ledgers`). For the
  two theorems on repair, `alone` says that no two calls have met since all were
  idle, so that at most one is under way (`Alone`). What that one has written is
  complete up to its step (`Followed`, `Paired`), and when it is done its files
  are among those kept up (`sound`, `paired`); calls that meet take all files off
  that list (`Overlapped`), and a call cut off in between takes its own.
* `ActiveSpiritProofs`, first for `SessionState` alone: `TypeCorrect` and
  `StateIsRegister` (refinement of `SessionRegister`). What a call holds is its
  session's register, or a shared state, overlaid with its request (`Prepared`),
  since only calls of a session write the session's file; the refinement takes
  effect at `WriteGlobal` for what is shared and at `WriteFile` for the register.
  Then for the whole host: `HostIsRegister`, `ContractsFresh`, `MirrorsOwn`,
  `ActivesAgree`. The cache is never behind the contract of its mtime
  (`CacheIsFresh`), nor is a call that is reading (`ReadingIsFresh`); the mirrors
  hold what their session was answered (`MirrorKept`, `ActiveKept`).
* `ConversationProofs`: `TypeCorrect`, `MemoryOnce`, `PromptsOwn`. The invariant
  counts: the copies of a block in a message and the hooks still at work on it
  are together at most the most hooks that were there at once (`Crowded`).

Recursive functions take the place of induction over data, which the provers
cannot use: a fact about `f[n]` for every n is shown by taking the least n for
which it fails (`LeastNatural`). For that reason powers are the function `Power`
and not the operator `^`, of which the provers know nothing.

Only model-checked: the liveness properties (`TurnEnds`, `GatheringEnds`,
`NoProcessLeft`, `CallAnswered`), because fairness and ENABLED are out of the
provers' reach, and the two violations. Every invariant, action property and
refinement of a passing run is stated by a theorem.

## Plan

Done: every component with state, composed where the code composes them, and
theorems about each of them. What could follow: the `anamnesis` mode of
`MemorySource`; a scope that comes from the room's JSON index; that the fusion of
the same rows in another order differs only where rows tie.

## Where code and documents differ

Two differences have a run that shows them, `room_lost_pull` and `memory_hot`
(`findings` in `PROJECT.json`). Others were met while modelling. The models
follow the code in each:

* The deferred queue's scores lack the saturation penalty
  (`src/memory-rank.ts:179`), which `docs/RETRIEVAL.md:42` says applies to a
  memory that keeps coming back.
* `runWsl` rejects when `spawn` throws (`src/wsl.ts:32`); the comment at line 22
  says it never does.
* The summary of a canon entry the prompt names may be cut by the budget
  (`src/memory.ts:641`) while the canon overlay leaves the entry out because it
  is named (`src/memory-rank.ts:247`): it is then nowhere.
* Recall of a lone proper noun is classified as casual contact, so the semantic
  and the content lane are not asked, while `docs/RETRIEVAL.md` calls explicit
  recall broader.
* `patchDirectiveHistory` skips messages whose own `role` is not the user's, but
  the host's messages have their role in `info`: answers are stripped too.
* A failed statement aborts the transaction and no handler rolls back
  (`src/postgres-memory-source.py:1778`): the passes after it come out empty too,
  although a comment at line 1845 calls every pass fail-open. An error in reading
  the rows that came back empties its own pass only.
* When the lifecycle columns cannot be detected (`src/postgres-memory-source.py:147`)
  archived memories surface, which `docs/RETRIEVAL.md:80` excludes.
* The docstring of `embed_query` promises None on any exception; what line 1093
  does not list, such as an answer that is not an object, ends the run.
* The commit of a lesson may be refused in the answer and done in the database
  (`src/update-lesson.py:138`).
* Recall sets no diversity caps, although `docs/ARCHITECTURE.md:126` lists them.

## Not modelled, and why

* Worker routing and triggers (`src/routing.ts`, `src/triggers-core.ts`): pure
  functions of one text or number, nearly all regular expressions and wording.
  The band state of the nudge is kept by a caller outside the repository.
* House protocol (`src/crates`): validation of one value at a time and
  serialisation, without state or order, and called by nothing in `src/*.ts`.
* Read-only scripts run one query and print it; `SourceLanes` has their failure.
  `paths.ts`, `constants.ts`, `substrate_config.py` and `index.ts` hold no state.
* Text: the regular expressions of query classification, directive parsing,
  prompt tokenising and Babel tags; the parsing of each lane's JSON, which is
  whole or not; headings, excerpts and the order of `LIMIT` inside PostgreSQL.
* The 'error' event of a dead child's stdin (`src/wsl.ts:54`) ends the host, which
  is outside; the decoding of each chunk by itself (`src/wsl.ts:58`) is about
  bytes, and pieces of an answer have none here.
* Features that are only described (the hippocampus, `docs/HIPPOCAMPUS.md`) have
  no code.
