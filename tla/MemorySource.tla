----------------------------- MODULE MemorySource -----------------------------
(***************************************************************************)
(* A run of src/postgres-memory-source.py: the process connects, asks once *)
(* which lifecycle columns the database has, and then runs the passes of   *)
(* its mode one after the other over one connection and one transaction,   *)
(* while other processes archive and restore memories. Statements are at   *)
(* READ COMMITTED: each sees the memories as they are when it runs.        *)
(*                                                                         *)
(* A pass is the set of memories it returns; what a query matches is left  *)
(* open, up to its LIMIT. A retrieval turn calls the source twice: the  *)
(* files a lexical run returned are the scope of a semantic one.           *)
(***************************************************************************)
EXTENDS Naturals, FiniteSets

CONSTANTS
  Memories,       \* rows of the memories table
  Room,           \* the room the process serves
  RoomOf,         \* RoomOf[m]
  PathOf,         \* PathOf[m]: source_path, bare
  DbOnly,         \* memories under db-only/ that are no paper-boats
  Migrated,       \* TRUE: the database has the archived_at column
  Faults,         \* TRUE: a statement, the reading of its rows or the embedding
                  \* endpoint may fail
  Archivable,     \* bound: the memories another process archives or restores
  MaxRows,        \* bound: the rows a search returns, its LIMIT
  MaxRuns         \* bound: processes started in a behaviour

House == "house"

ASSUME SourceAssumption ==
  /\ Room # House
  /\ DbOnly \subseteq Memories /\ Archivable \subseteq Memories
  /\ Migrated \in BOOLEAN /\ Faults \in BOOLEAN /\ MaxRows \in Nat /\ MaxRuns \in Nat

VARIABLES
  archived,       \* the memories whose archived_at is set
  index,          \* the files, as rendered, of the last lexical run
  runs,           \* processes started so far
  mode,           \* --mode of the process
  scope,          \* --scope-files, as rendered by the index
  history,        \* --include-archived
  plan,           \* the passes still to run
  erasure,        \* erasure_columns["archived_at"]
  txn,            \* the transaction: "none", "open" or "aborted"
  payload,        \* payload[p]: the memories pass p returned
  exit,           \* "none", "running", "printed" or "failed"
  steady          \* history: memories not archived or restored since the start

vars == <<archived, index, runs, mode, scope, history, plan, erasure, txn, payload,
          exit, steady>>
run == <<index, runs, mode, scope, history>>
database == <<archived, steady>>

\* A variant with a bug: the taxonomy is asked for last.
RankMenuLast ==
  [detect |-> 0, handle |-> 1, files |-> 2, threads |-> 3, entities |-> 4, candidates |-> 5,
   embed |-> 6, semantic |-> 7, resonance |-> 8, content |-> 9, date |-> 10, taxonomy |-> 11,
   staleness |-> 12]

(* The passes in the order main runs them. An error of the passes in       *)
(* Caught is logged and leaves them empty; any other ends the process.     *)
Rank == [detect |-> 0, handle |-> 1, files |-> 2, threads |-> 3, entities |-> 4,
         taxonomy |-> 5, staleness |-> 6, candidates |-> 7, embed |-> 8, semantic |-> 9,
         resonance |-> 10, content |-> 11, date |-> 12]
Passes == DOMAIN Rank

\* A variant with a bug: an index that cannot be read is empty.
CaughtIndex ==
  {"files", "threads", "candidates", "semantic", "resonance", "content", "date"}

Caught == {"candidates", "semantic", "resonance", "content", "date"}
Nothing == [p \in Passes |-> {}]
Modes == {"full", "lexical", "taxonomy", "candidates", "semantic", "content", "date", "fetch"}

(* The passes of a mode. Those that search need something to look for:     *)
(* asked is what the prompt gives them.                                    *)
PlanOf(m, skipped, asked) ==
  LET lexical == {"files", "threads", "entities"}
      menu == {"taxonomy", "staleness"}
      vector == {"embed", "semantic", "resonance"}
      searches == asked \intersect
        CASE m = "full" -> {"candidates", "content", "date"} \union vector
          [] m = "semantic" -> vector
          [] m \in {"candidates", "content", "date"} -> {m}
          [] OTHER -> {}
  IN  {"detect"} \union (searches \ skipped)
        \union (IF m \in {"full", "lexical"} THEN lexical ELSE {})
        \union (IF m \in {"full", "taxonomy"} THEN menu ELSE {})
        \union (IF m = "fetch" THEN {"handle"} ELSE {})

(* What a prompt gives the searches: a vector, and perhaps search terms,   *)
(* words that are not stopwords, dates.                                    *)
Prompts == {{}} \union {{"embed", "semantic", "resonance"} \union more :
                          more \in SUBSET {"candidates", "content", "date"}}
Skips == {vector \union other : vector \in {{}, {"embed", "semantic", "resonance"}},
                                other \in SUBSET {"content", "date"}}

(* The name of a memory's file in an answer: house/ is put before the path *)
(* of a shared one.                                                        *)
Rendered(m) == <<RoomOf[m] = House, PathOf[m]>>
Bare(names) == {name[2] : name \in names}
-----------------------------------------------------------------------------
(* What each pass may return.                                              *)
\* A variant with a bug: every room is searched.
AnyRoom == Memories

InRooms == {m \in Memories : RoomOf[m] \in {Room, House}}
Visible == Memories \ DbOnly
ErasureFilter == IF erasure /\ ~history THEN Memories \ archived ELSE Memories
Retrievable == InRooms \intersect Visible \intersect ErasureFilter

(* The answers of a search over the memories of a set.                     *)
Found(set) == {rows \in SUBSET set : Cardinality(rows) <= MaxRows}

(* load_index: every memory is returned, and every memory is taken to be   *)
(* listed under a thread.                                                  *)
IndexRows == {Retrievable}

(* load_search_candidates, load_date_matches, load_taxonomy.               *)
CandidateRows == Found(Retrievable)
DateRows == Found(Retrievable)
TaxonomyRows == {Retrievable}

(* load_semantic_chunks and load_content_chunks: a scope, its house/       *)
(* prefixes stripped, replaces the visibility policy.                      *)
\* A variant with a bug: a scope replaces the erasure filter too.
ScopedAnyAge == {m \in InRooms : PathOf[m] \in Bare(scope)}

Scoped == {m \in InRooms \intersect ErasureFilter : PathOf[m] \in Bare(scope)}

\* A variant with a bug: the visibility policy is missing from the pass.
ChunkRowsNoPolicy ==
  Found(IF scope = {} THEN InRooms \intersect ErasureFilter ELSE Scoped)

ChunkRows == Found(IF scope = {} THEN Retrievable ELSE Scoped)

(* load_cluster_resonance: the hot chunks are those whose path is not      *)
(* among the names the semantic pass gave.                                 *)
HotRows ==
  Found({m \in Retrievable : <<FALSE, PathOf[m]>> \notin {Rendered(c) : c \in payload.semantic}})

(* fetch_memory: a handle crosses rooms, and follows a receipt anywhere.   *)
HandleRows == {{}} \union {{m} : m \in Memories}

Results(p) ==
  CASE p \in {"files", "threads"} -> IndexRows
    [] p = "candidates" -> CandidateRows
    [] p = "date" -> DateRows
    [] p = "taxonomy" -> TaxonomyRows
    [] p \in {"semantic", "content"} -> ChunkRows
    [] p = "resonance" -> HotRows
    [] p = "handle" -> HandleRows
    [] OTHER -> {{}}
-----------------------------------------------------------------------------
Init ==
  /\ archived \in IF Migrated THEN SUBSET Archivable ELSE {{}}
  /\ steady = Memories
  /\ index = {} /\ runs = 0
  /\ mode = "full" /\ scope = {} /\ history = FALSE
  /\ plan = {} /\ erasure = FALSE /\ txn = "none"
  /\ payload = Nothing
  /\ exit = "none"

(* The arguments are parsed, the prompt is read and the connection is      *)
(* opened. The caller gives a scope to semantic runs only, and skips       *)
(* passes in full ones only.                                               *)
Start(m, asked, skipped, files, all) ==
  /\ exit # "running" /\ runs < MaxRuns
  /\ m = "semantic" \/ files = {}
  /\ m = "full" \/ skipped = {}
  /\ runs' = runs + 1
  /\ mode' = m /\ scope' = files /\ history' = all
  /\ plan' = PlanOf(m, skipped, asked)
  /\ erasure' = FALSE /\ txn' = "none"
  /\ payload' = Nothing
  /\ exit' = "running"
  /\ steady' = Memories
  /\ UNCHANGED <<archived, index>>

(* substrate_config or connect raises.                                     *)
ConnectFails ==
  /\ Faults /\ exit = "running" /\ "detect" \in plan
  /\ exit' = "failed" /\ plan' = {}
  /\ UNCHANGED <<database, run, erasure, txn, payload>>

Turn(p) ==
  /\ exit = "running"
  /\ p \in plan /\ \A q \in plan : Rank[p] <= Rank[q]

(* detect_erasure_columns. If it fails it rolls back, and the columns are  *)
(* taken to be absent.                                                     *)
Detect ==
  /\ Turn("detect")
  /\ \/ erasure' = Migrated /\ txn' = "open"
     \/ Faults /\ erasure' = FALSE /\ txn' = "none"
  /\ plan' = plan \ {"detect"}
  /\ UNCHANGED <<database, run, payload, exit>>

(* embed_query: without a vector neither pass that needs one is run. An    *)
(* answer cut short or of another shape raises what it does not catch.     *)
Embed ==
  /\ Turn("embed")
  /\ \/ /\ \/ plan' = plan \ {"embed"}
           \/ Faults /\ plan' = plan \ {"embed", "semantic", "resonance"}
        /\ UNCHANGED <<payload, exit>>
     \/ Faults /\ plan' = {} /\ payload' = Nothing /\ exit' = "failed"
  /\ UNCHANGED <<database, run, erasure, txn>>

(* A pass whose statements succeed.                                        *)
Query(p) ==
  /\ Turn(p) /\ p \notin {"detect", "embed"}
  /\ txn # "aborted"
  /\ \E rows \in Results(p) : payload' = [payload EXCEPT ![p] = rows]
  /\ txn' = "open"
  /\ plan' = plan \ {p}
  /\ UNCHANGED <<database, run, erasure, exit>>

(* A statement fails, by itself or because an earlier one has aborted the  *)
(* transaction, which nothing rolls back; or what its statements returned  *)
(* cannot be made into rows, and the transaction goes on.                  *)
QueryFails(p) ==
  /\ Turn(p) /\ p \notin {"detect", "embed"}
  /\ \/ (Faults \/ txn = "aborted") /\ txn' = "aborted"
     \/ Faults /\ txn # "aborted" /\ txn' = "open"
  /\ IF p \in Caught
     THEN plan' = plan \ {p} /\ UNCHANGED <<payload, exit>>
     ELSE plan' = {} /\ payload' = Nothing /\ exit' = "failed"
  /\ UNCHANGED <<database, run, erasure>>

(* The payload is printed and the process is gone. A lexical one is what   *)
(* the next run's scope is taken from.                                     *)
Finish ==
  /\ exit = "running" /\ plan = {}
  /\ exit' = "printed"
  /\ index' = IF mode = "lexical" THEN {Rendered(m) : m \in payload.threads} ELSE index
  /\ payload' = Nothing
  /\ UNCHANGED <<database, runs, mode, scope, history, plan, erasure, txn>>

(* Another process archives a memory, or restores one.                     *)
Archive(m) ==
  /\ Migrated /\ m \in Archivable \ archived
  /\ archived' = archived \union {m}
  /\ steady' = steady \ {m}
  /\ UNCHANGED <<run, plan, erasure, txn, payload, exit>>
Restore(m) ==
  /\ m \in archived
  /\ archived' = archived \ {m}
  /\ steady' = steady \ {m}
  /\ UNCHANGED <<run, plan, erasure, txn, payload, exit>>

Process ==
  \/ ConnectFails \/ Detect \/ Embed \/ Finish
  \/ \E p \in Passes : Query(p) \/ QueryFails(p)

Next ==
  \/ \E m \in Modes, asked \in Prompts, skipped \in Skips, files \in SUBSET index,
        all \in BOOLEAN : Start(m, asked, skipped, files, all)
  \/ Process
  \/ \E m \in Memories : Archive(m) \/ Restore(m)

Spec == Init /\ [][Next]_vars
-----------------------------------------------------------------------------
TypeOK ==
  /\ archived \subseteq Memories /\ steady \subseteq Memories
  /\ index \subseteq {Rendered(m) : m \in Memories} /\ scope \subseteq index
  /\ runs \in Nat /\ mode \in Modes /\ history \in BOOLEAN
  /\ plan \subseteq Passes /\ erasure \in BOOLEAN
  /\ txn \in {"none", "open", "aborted"}
  /\ payload \in [Passes -> SUBSET Memories]
  /\ exit \in {"none", "running", "printed", "failed"}

(* Ambient passes give memories of the room and the shared house only; a   *)
(* handle alone crosses rooms ("a knock, not a key").                      *)
RoomsKept ==
  \A p \in Passes \ {"handle"} : \A m \in payload[p] : RoomOf[m] \in {Room, House}

(* db-only memories stay out of every pass ("One policy, applied at every  *)
(* pass") unless the scope an earlier lexical run gave names their path:   *)
(* that is, only where a memory that may be seen has the same path.        *)
HiddenOnlyByPath ==
  \A p \in Passes \ {"handle"} : \A m \in payload[p] \intersect DbOnly :
    /\ p = "semantic"
    /\ \E seen \in Memories \ DbOnly :
         Rendered(seen) \in scope /\ RoomOf[seen] \in {Room, House} /\ PathOf[seen] = PathOf[m]

(* A memory archived before the process started, and since, is in no pass, *)
(* provided the process found the column.                                  *)
ArchiveHonoured ==
  erasure /\ ~history =>
    \A p \in Passes \ {"handle"} : payload[p] \intersect archived \intersect steady = {}

(* An index is whole or there is none: the caller falls back on the room's *)
(* JSON index only "when the postgres source fails" (memory-sources.ts:3), *)
(* so a run that goes on from its index, or has printed it, has in it every*)
(* memory that could be shown all along, whatever failed in it and         *)
(* whatever others archived or restored.                                   *)
IndexIsWhole ==
  /\ exit = "running" /\ mode \in {"full", "lexical"} /\ "threads" \notin plan =>
       Retrievable \intersect steady \subseteq payload.files \intersect payload.threads
  /\ exit = "printed" /\ mode = "lexical" =>
       {Rendered(m) : m \in Retrievable \intersect steady} \subseteq index

(* A query failure the code means to survive never ends the process by   *)
(* the transaction it aborts: no statement to come is one of a fatal pass. *)
CaughtIsNotFatal == txn = "aborted" => plan \subseteq Caught \union {"embed"}

(* "the nearest member chunks per top cluster that the semantic pass did   *)
(* NOT already surface" (src/postgres-memory-source.py:907).               *)
HotIsDormant == payload.resonance \intersect payload.semantic = {}
=============================================================================
