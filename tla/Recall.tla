-------------------------------- MODULE Recall --------------------------------
(***************************************************************************)
(* runRecallQuery of src/memory.ts and the loops of                        *)
(* fuseRetrievalCandidates: a query is refused, fetched by its handle or   *)
(* routed; the rows its lanes answer are merged one by one, in the order   *)
(* of the lanes; the candidates are gone through from the best, capped and *)
(* cut; and the canon the rows point to is looked up. Which rows a lane    *)
(* answers is left open. fuseRetrievalCandidates is also called by itself, *)
(* with caps that recall does not set.                                     *)
(***************************************************************************)
EXTENDS RetrievalFusion, QueryRoute, Sequences, SequencesExt

CONSTANTS
  Rows,           \* rows the lanes may answer
  Requests,       \* queries recall may get
  Calls,          \* the options of calls of fuseRetrievalCandidates by itself
  NoRoom,         \* a path or a name that is not a room's
  Entries,        \* the entries of the canon index, in its order
  FilesOf,        \* FilesOf[e]: the files entry e points to
  Stripped,       \* Stripped[p]: the path p without the house's directory, where it has one
  Alphabet,       \* Alphabet[n]: the place of a name in localeCompare's order
  MaxNamed,       \* MEMORY_MAX_IMPORTANT_MATCHES
  MaxResults,     \* 12, the maxResults of recall
  NoCap,          \* Infinity: more than there are rows
  MaxRows         \* bound: rows the lanes answer

(* The options of fuseRetrievalCandidates, and what a lane may answer.     *)
OptionType ==
  [perPath: Nat, perSource: Nat, results: Nat, lanes: SUBSET LaneNames, terms: SUBSET Words,
   technical: BOOLEAN, rows: SUBSET Rows]

ASSUME RecallAssumption ==
  /\ IsFiniteSet(Words) /\ None \notin Names
  /\ Rows \subseteq RowType
  /\ \A r \in Requests : r.terms \subseteq Words
  /\ Calls \subseteq OptionType
  /\ DOMAIN Stripped \subseteq Names /\ Alphabet \in [Names -> Nat \ {0}]
  /\ {MaxNamed, MaxResults, NoCap, MaxRows} \subseteq Nat /\ NoCap >= MaxRows
  /\ Entries \in Seq(Range(Entries)) /\ IsInjective(Entries)
  /\ FilesOf \in [Range(Entries) -> SUBSET Names]

VARIABLES
  phase,          \* "idle", "gathering", "ranking", "answered", "refused" or "fetched"
  request,        \* the query
  options,        \* the options of fuseRetrievalCandidates
  taken,          \* the rows merged so far
  merged,         \* byKey: the candidates by their keys
  pool,           \* keys still to be gone through
  kept,           \* keys that passed the caps, in order
  canon           \* canonMatches

recallVars == <<phase, request, options, taken, merged, pool, kept, canon>>

NoRequest == [text |-> "none"]
NoOptions == [perPath |-> NoCap, perSource |-> NoCap, results |-> 0, lanes |-> {},
              terms |-> {}, technical |-> FALSE, rows |-> Rows]

RecallInit ==
  /\ phase = "idle" /\ request = NoRequest /\ options = NoOptions
  /\ taken = <<>> /\ merged = [k \in {} |-> NoRequest]
  /\ pool = {} /\ kept = <<>> /\ canon = <<>>

(* validateAmbientRoom: the name, when there is one, is the path's.        *)
Ambient(r) == r.path # NoRoom /\ r.name \in {None, r.path}

(* The JSON index answers rows of threads, which carry no flags.           *)
JsonRows == {r \in Rows :
  r.lane = "search" /\ r.source = "memory" /\ ~r.archived /\ ~r.superseded /\ r.matched = {}}

RecallOptions(r, rows) ==
  [perPath |-> NoCap, perSource |-> NoCap, results |-> MaxResults,
   lanes |-> RecallLanes(r.query), terms |-> r.terms,
   technical |-> Intent(r.query) = "technical_project", rows |-> rows]

Ask(r) ==
  /\ phase = "idle" /\ request' = r
  /\ UNCHANGED <<taken, merged, pool, kept, canon>>

(* No ambient room, no query, a handle of an unknown room, or a source     *)
(* that fails.                                                             *)
Refuse(r) ==
  /\ Ask(r) /\ phase' = "refused"
  /\ UNCHANGED options

(* memory://<room>/<id>: one row, fetched as it is.                        *)
Fetch(r) ==
  /\ Ask(r) /\ phase' = "fetched"
  /\ Ambient(r) /\ r.text = "handle" /\ r.claimed # NoRoom
  /\ UNCHANGED options

(* runAnamnesisQuery: one run of the source; consulting without a query is *)
(* refused.                                                                *)
Anamnesis(r) ==
  /\ Ask(r) /\ phase' = "fetched"
  /\ Ambient(r) /\ r.text \in {"wake", "consult"}
  /\ UNCHANGED options

Route(r) ==
  /\ Ask(r) /\ phase' = "gathering"
  /\ Ambient(r) /\ r.text = "words"
  /\ \E rows \in {Rows, JsonRows} : options' = RecallOptions(r, rows)

(* fuseRetrievalCandidates, called by itself.                              *)
Fuse(call) ==
  /\ phase = "idle" /\ phase' = "gathering"
  /\ options' = call
  /\ UNCHANGED <<request, taken, merged, pool, kept, canon>>

LaneOrder == <<"search", "semantic", "content", "date">>
Place(lane) == CHOOSE i \in DOMAIN LaneOrder : LaneOrder[i] = lane
RankIn(lane) == 1 + Cardinality({i \in DOMAIN taken : taken[i].lane = lane})

(* The next row: a candidate of its own, or merged into one.               *)
TakeRow(row) ==
  LET k == Key(row)
      c == LaneCandidate(row, RankIn(row.lane), options.terms, options.technical,
                         Cardinality(DOMAIN merged))
  IN  /\ phase = "gathering" /\ Len(taken) < MaxRows
      /\ row \in options.rows /\ row.lane \in options.lanes
      /\ taken # <<>> => Place(Last(taken).lane) <= Place(row.lane)
      /\ taken' = Append(taken, row)
      /\ merged' = [j \in DOMAIN merged \union {k} |->
           CASE j # k -> merged[j]
             [] j = k /\ k \in DOMAIN merged -> Merge(merged[k], c)
             [] j = k /\ k \notin DOMAIN merged -> c]
      /\ UNCHANGED <<phase, request, options, pool, kept, canon>>

EndRows ==
  /\ phase = "gathering" /\ phase' = "ranking"
  /\ pool' = DOMAIN merged
  /\ UNCHANGED <<request, options, taken, merged, kept, canon>>

Name(c) == LET n == Or(c.path, c.title) IN IF n = None THEN 0 ELSE Alphabet[n]

(* The order of the sort: the greater comes first.                         *)
Ranking(k) ==
  LET c == merged[k]
  IN  <<Final(c), Cardinality(c.matched), Cardinality(c.sources), -Name(c), -c.place>>

Greater(s, t) == \E i \in DOMAIN s : s[i] > t[i] /\ \A j \in 1 .. i - 1 : s[j] = t[j]
Outranks(k, l) == Greater(Ranking(k), Ranking(l))

\* A variant with a bug: what does not pass a cap ends the loop.
ConsiderUntilCapped(k) ==
  /\ phase = "ranking" /\ k \in pool
  /\ \A l \in pool \ {k} : Outranks(k, l)
  /\ LET source == merged[k].source
         capped == options.perSource <= Cardinality({i \in DOMAIN kept : merged[kept[i]].source = source})
     IN  /\ kept' = IF capped THEN kept ELSE Append(kept, k)
         /\ pool' = IF capped THEN {} ELSE pool \ {k}
  /\ UNCHANGED <<phase, request, options, taken, merged, canon>>

(* capCandidateDiversity: the best candidate left is kept unless its path  *)
(* or its source has had its share. Before it no candidate had its path,   *)
(* because rows of one path are one candidate.                             *)
Consider(k) ==
  /\ phase = "ranking" /\ k \in pool
  /\ \A l \in pool \ {k} : Outranks(k, l)
  /\ LET source == merged[k].source
         passes == /\ merged[k].path # None => options.perPath > 0
                   /\ options.perSource > Cardinality({i \in DOMAIN kept : merged[kept[i]].source = source})
     IN  kept' = IF passes THEN Append(kept, k) ELSE kept
  /\ pool' = pool \ {k}
  /\ UNCHANGED <<phase, request, options, taken, merged, canon>>

Results == IF Len(kept) <= options.results THEN kept ELSE SubSeq(kept, 1, options.results)
TakenPaths == {taken[i].path : i \in DOMAIN taken} \ {None}

(* The first of the entries that fit, in the order of the index.           *)
Chosen(fitting, most) ==
  LET pick[n \in 0 .. Len(Entries)] ==
        IF n = 0 THEN <<>>
        ELSE IF Entries[n] \in fitting /\ Len(pick[n - 1]) < most
             THEN Append(pick[n - 1], Entries[n])
             ELSE pick[n - 1]
  IN  pick[Len(Entries)]

(* matchMemoryImportantTerms: the first entries the query names.           *)
NamedEntries(r) == Chosen(r.named, MaxNamed)

WithStripped(paths) == paths \union {Stripped[p] : p \in paths \intersect DOMAIN Stripped}

\* A variant with a bug: what the query names is not left out.
PointedAll(paths, names) ==
  LET matched == WithStripped(paths)
  IN  Chosen({e \in Range(Entries) : FilesOf[e] \intersect matched # {}}, Len(Entries))

(* collectCanonByMatchedFiles: the entries that point to a path, as it is  *)
(* or without the house's directory, and are not named by the query.       *)
Pointed(paths, names) ==
  LET matched == WithStripped(paths)
  IN  Chosen({e \in Range(Entries) \ names : FilesOf[e] \intersect matched # {}}, Len(Entries))

(* The paths of the candidates are among those of the rows.                *)
Answer ==
  /\ phase = "ranking" /\ pool = {}
  /\ phase' = "answered"
  /\ kept' = Results
  /\ canon' = IF request = NoRequest THEN <<>>
              ELSE LET names == NamedEntries(request)
                   IN  names \o Pointed(TakenPaths, Range(names))
  /\ UNCHANGED <<request, options, taken, merged, pool>>

RecallNext ==
  \/ \E r \in Requests : Refuse(r) \/ Fetch(r) \/ Anamnesis(r) \/ Route(r)
  \/ \E call \in Calls : Fuse(call)
  \/ \E row \in Rows : TakeRow(row)
  \/ EndRows \/ Answer
  \/ \E k \in pool : Consider(k)

RecallSpec == RecallInit /\ [][RecallNext]_recallVars
-----------------------------------------------------------------------------
CandidateType ==
  [source: Sources, path: Texts, title: Texts, excerpt: Texts, sources: SUBSET Sources,
   lanes: SUBSET LaneNames, matched: SUBSET Words, score: Int, best: Int, exact: BOOLEAN,
   archived: BOOLEAN, superseded: BOOLEAN, place: Nat]

RecallTypeOK ==
  /\ phase \in {"idle", "gathering", "ranking", "answered", "refused", "fetched"}
  /\ request \in Requests \union {NoRequest}
  /\ options \in OptionType
  /\ taken \in Seq(Rows) /\ Len(taken) <= MaxRows
  /\ merged = [k \in DOMAIN merged |-> merged[k]]
  /\ \A k \in DOMAIN merged : merged[k] \in CandidateType
  /\ pool \subseteq DOMAIN merged
  /\ kept \in Seq(DOMAIN merged)
  /\ canon \in Seq(Range(Entries))

RowsOf(k) == {i \in DOMAIN taken : Key(taken[i]) = k}

(* The score of a row by itself: its rank is its place in its lane.        *)
RowScore(i) ==
  LET rank == Cardinality({j \in 1 .. i : taken[j].lane = taken[i].lane})
  IN  Score(taken[i], rank, options.terms, options.technical)

(* The scores of the rows of a key, one after the other.                   *)
ScoreOf(k) ==
  LET sum[n \in 0 .. Len(taken)] ==
        IF n = 0 THEN 0
        ELSE sum[n - 1] + IF Key(taken[n]) = k THEN RowScore(n) ELSE 0
  IN  sum[Len(taken)]

(* "fused, deduplicated" (docs/RETRIEVAL.md:42): whatever lanes answered   *)
(* and in which order, a candidate carries the flags, the sources and the  *)
(* words of all the rows of its memory. No archived or superseded memory   *)
(* gets rid of its flag because another lane found it as well.             *)
EvidenceKept ==
  /\ DOMAIN merged = {Key(taken[i]) : i \in DOMAIN taken}
  /\ \A k \in DOMAIN merged :
       LET c == merged[k]
           rows == {taken[i] : i \in RowsOf(k)}
       IN  /\ c.archived <=> \E r \in rows : r.archived
           /\ c.superseded <=> \E r \in rows : r.superseded
           /\ c.exact <=> \E r \in rows : r.exact
           /\ c.sources = {r.source : r \in rows}
           /\ c.matched = UNION {Matched(r, options.terms) : r \in rows}

(* A candidate has the scores of all its rows, and is shown as the one     *)
(* that scored best, the first of equals; what that one lacks is taken     *)
(* from rows before it (mergeCandidateEvidence).                           *)
BestRowShown ==
  \A k \in DOMAIN merged : \E i \in RowsOf(k) :
    /\ merged[k].score = ScoreOf(k)
    /\ \A j \in RowsOf(k) \ {i} : RowScore(j) < RowScore(i) \/ (RowScore(j) = RowScore(i) /\ i < j)
    /\ merged[k].source = taken[i].source
    /\ merged[k].title = taken[i].title \/ taken[i].title = None
    /\ merged[k].excerpt = taken[i].excerpt \/ taken[i].excerpt = None

(* "diversified, and trimmed" (docs/RETRIEVAL.md:42): the answer is in     *)
(* order, and what is missing from it is outranked by a full answer or by  *)
(* all its source may have.                                                *)
OutrankedOnly ==
  phase = "answered" =>
    /\ \A i, j \in DOMAIN kept : i < j => Outranks(kept[i], kept[j])
    /\ \A k \in DOMAIN merged \ Range(kept) :
         LET better == {i \in DOMAIN kept : Outranks(kept[i], k)}
             same == {i \in better : merged[kept[i]].source = merged[k].source}
         IN  \/ Cardinality(better) = options.results
             \/ Cardinality(same) = options.perSource
             \/ merged[k].path # None /\ options.perPath = 0

(* "Deduped against the name-match termKeys so an entry matched both ways  *)
(* isn't double-counted" (src/memory-rank.ts:290): canon is what the query *)
(* names, and what the rows it brought up are pointed to by, once each.    *)
CanonComplete ==
  phase = "answered" /\ request # NoRequest =>
    /\ IsInjective(canon)
    /\ Range(canon) = Range(NamedEntries(request)) \union
         {e \in Range(Entries) : \E i \in DOMAIN taken, file \in FilesOf[e] :
            LET path == taken[i].path
            IN  path = file \/ (path \in DOMAIN Stripped /\ Stripped[path] = file)}
=============================================================================
