------------------------------ MODULE MemoryRank ------------------------------
(***************************************************************************)
(* The values a retrieval turn computes with: the room state kept in       *)
(* loaded_state.json, the ranking of the threads of the memory index       *)
(* against a prompt (src/memory-rank.ts), and the updates a turn applies   *)
(* to the state before it writes it back (src/memory.ts, "state lifecycle")*)
(*                                                                         *)
(* Time is counted in recency half-lives (7 days), so the recency factor   *)
(* of a thread untouched for n units is 1/2^n. Scores are exact rationals  *)
(* here; the code uses doubles. A prompt is its raw score per thread, in   *)
(* half points: the tokens it shares with the thread's concepts (3 points  *)
(* each), contexts (1) and file lines (a half).                            *)
(***************************************************************************)
EXTENDS Naturals, FiniteSets, FiniteSetsExt

CONSTANTS
  Threads,        \* thread keys, as their positions in index.threads
  Files,          \* memory files
  Refs,           \* pointers (a file and a line range) listed under threads
  FileOf,         \* FileOf[r]: the file pointer r names
  Entries,        \* Entries[t]: the pointers listed under thread t
  FileDate,       \* FileDate[f]: the date in f's name, NoDate when it has none
  Canonical,      \* files some named entity of the important index points to
  OnDisk,         \* files that exist, so that readMemoryEntry finds them
  MaxSync,        \* MEMORY_MAX_SYNC_INJECTIONS (3)
  MaxPrefetch,    \* MEMORY_MAX_PREFETCH_QUEUE (5)
  MinScore        \* MEMORY_MIN_SCORE_TO_INJECT, in half points (6)

NoDate == 0

ASSUME RankAssumption ==
  /\ Threads \subseteq Nat /\ IsFiniteSet(Threads)
  /\ IsFiniteSet(Refs) /\ FileOf \in [Refs -> Files]
  /\ Entries \in [Threads -> SUBSET Refs]
  /\ FileDate \in [Files -> Nat]
  /\ Canonical \subseteq Files /\ OnDisk \subseteq Files
  /\ MaxSync \in Nat /\ MaxPrefetch \in Nat /\ MinScore \in Nat

EntryFiles(t) == {FileOf[r] : r \in Entries[t]}
-----------------------------------------------------------------------------
(* The state record. `at` is last_touched_at (0: the file has no entry),   *)
(* `turn` is last_touched_turn; the hits are the two families of keys of   *)
(* session_memory_hits, "thread:..." and "file:...".                       *)
Touch == [at: Nat, turn: Nat, pinned: BOOLEAN]
NoTouch == [at |-> 0, turn |-> 0, pinned |-> FALSE]
NoHits == [thread |-> [t \in Threads |-> 0], file |-> [f \in Files |-> 0]]
NoSession == "no session"

StateOf(SessionIds) ==
  [turn: Nat, session: SessionIds \union {NoSession},
   loaded: [Files -> Touch],
   hits: [thread: [Threads -> Nat], file: [Files -> Nat]]]

InitMemoryState ==
  [turn |-> 0, session |-> NoSession, loaded |-> [f \in Files |-> NoTouch], hits |-> NoHits]

Pinned(st) == {f \in Files : st.loaded[f].pinned}
-----------------------------------------------------------------------------
(* Ranking. A score is a numerator over a denominator: raw * 3^n over      *)
(* 4^n * 2^age, n the session repeat count.                                *)
SessionRepeatCountForThread(st, t) ==
  Max({st.hits.thread[t]} \union {st.hits.file[f] : f \in EntryFiles(t)})

ResolveLastTouchedAt(st, f) == IF st.loaded[f].at > 0 THEN st.loaded[f].at ELSE FileDate[f]

(* The age, in half-lives, the recency penalty of a thread is computed     *)
(* from: none for a thread that touches canon or has no dated file.        *)
ThreadAge(st, t, now) ==
  LET freshest == Max({NoDate} \union {ResolveLastTouchedAt(st, f) : f \in EntryFiles(t)})
  IN  IF EntryFiles(t) \intersect Canonical # {} \/ freshest = NoDate \/ freshest >= now
      THEN 0
      ELSE now - freshest

(* Math.pow of a whole exponent: a recursive function, which can be        *)
(* reasoned about where the operator ^ of Naturals cannot.                 *)
Power(b, n) ==
  LET p[k \in Nat] == IF k = 0 THEN 1 ELSE b * p[k - 1]
  IN  p[n]

Numerator(st, raw, t) == raw[t] * Power(3, SessionRepeatCountForThread(st, t))
Denominator(st, t, now) ==
  Power(4, SessionRepeatCountForThread(st, t)) * Power(2, ThreadAge(st, t, now))

Ranked(st, raw, now) ==
  {t \in Threads : Numerator(st, raw, t) >= MinScore * Denominator(st, t, now)}

(* How many ranked threads sort before t: a higher score, or the same one  *)
(* and an earlier position in the index (the sort is stable).              *)
Position(st, raw, now, t) ==
  Cardinality({u \in Ranked(st, raw, now) :
    LET a == Numerator(st, raw, u) * Denominator(st, t, now)
        b == Numerator(st, raw, t) * Denominator(st, u, now)
    IN  a > b \/ (a = b /\ u < t)})

SyncMatches(st, raw, now) ==
  {t \in Ranked(st, raw, now) : Position(st, raw, now, t) < MaxSync}

\* A variant with a bug: the end of the slice is given as its length.
PrefetchByLength(st, raw, now) ==
  {t \in Ranked(st, raw, now) : Position(st, raw, now, t) \in MaxSync .. MaxPrefetch - 1}

PrefetchMatches(st, raw, now) ==
  {t \in Ranked(st, raw, now) :
     Position(st, raw, now, t) \in MaxSync .. MaxSync + MaxPrefetch - 1}

(* A queued thread is scored again against this turn's prompt, with its    *)
(* recency penalty and without any session penalty.                        *)
RestoreMemoryPrefetchMatches(queued, st, raw, now) ==
  {t \in queued : raw[t] >= MinScore * Power(2, ThreadAge(st, t, now))}

(* The files whose excerpts a set of matched threads contributes.          *)
ExcerptFiles(matched) == {f \in OnDisk : \E t \in matched : f \in EntryFiles(t)}
-----------------------------------------------------------------------------
(* The updates of a turn.                                                  *)
\* A variant with a bug: the hits of another session are kept.
ResetKeepingHits(st, sid) == [st EXCEPT !.session = sid]

ResetMemorySessionIfNeeded(st, sid) ==
  IF st.session = sid THEN st ELSE [st EXCEPT !.session = sid, !.hits = NoHits]

\* Variants with a bug: the next turn is stamped; a new entry takes the old one's place.
FreshnessOfNextTurn(st, pulled, now) ==
  [st EXCEPT !.loaded = [f \in Files |->
     IF f \in pulled THEN [st.loaded[f] EXCEPT !.at = now, !.turn = st.turn + 1]
                     ELSE st.loaded[f]]]
FreshnessRebuilt(st, pulled, now) ==
  [st EXCEPT !.loaded = [f \in Files |->
     IF f \in pulled THEN [at |-> now, turn |-> st.turn, pinned |-> FALSE]
                     ELSE st.loaded[f]]]

UpdateMemoryStateFreshness(st, pulled, now) ==
  [st EXCEPT !.loaded = [f \in Files |->
     IF f \in pulled THEN [st.loaded[f] EXCEPT !.at = now, !.turn = st.turn]
                     ELSE st.loaded[f]]]

(* One hit per matched thread, and one per pointer for the file it names.  *)
UpdateMemorySessionHits(st, matched) ==
  [st EXCEPT !.hits =
     [thread |-> [t \in Threads |->
                    IF t \in matched THEN st.hits.thread[t] + 1 ELSE st.hits.thread[t]],
      file |-> [f \in Files |->
                  st.hits.file[f] +
                  Cardinality({p \in matched \X Refs :
                                 p[2] \in Entries[p[1]] /\ FileOf[p[2]] = f})]]]

(* The queue the turn leaves for the next one.                             *)
Queue == [turn: Nat, threads: SUBSET Threads]
NoQueue == [turn |-> 0, threads |-> {}]

BuildMemoryPrefetchQueue(st, raw, now) ==
  [turn |-> st.turn, threads |-> PrefetchMatches(st, raw, now)]
-----------------------------------------------------------------------------
(* A whole turn of session sid: the state it works on once it has read st, *)
(* the files whose excerpts any pass surfaced (lane: those found by the    *)
(* date, important, content and semantic passes), and what it saves.       *)
OpenTurn(st, sid) ==
  LET reset == ResetMemorySessionIfNeeded(st, sid)
  IN  [reset EXCEPT !.turn = reset.turn + 1]

RetrievedUnion(st, raw, queuedThreads, lane, now) ==
  (Pinned(st) \intersect OnDisk) \union lane
    \union ExcerptFiles(SyncMatches(st, raw, now))
    \union ExcerptFiles(RestoreMemoryPrefetchMatches(queuedThreads, st, raw, now))

\* A variant with a bug: only the files of ranked threads are touched.
CloseTurnRankedOnly(st, raw, pulled, now) ==
  UpdateMemorySessionHits(
    UpdateMemoryStateFreshness(st, ExcerptFiles(SyncMatches(st, raw, now)), now),
    SyncMatches(st, raw, now))

CloseTurn(st, raw, pulled, now) ==
  UpdateMemorySessionHits(UpdateMemoryStateFreshness(st, pulled, now),
                          SyncMatches(st, raw, now))
=============================================================================
