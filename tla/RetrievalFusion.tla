---------------------------- MODULE RetrievalFusion ----------------------------
(***************************************************************************)
(* src/retrieval-candidates.ts: how the rows of the four lanes become      *)
(* candidates. A row is what laneCandidate makes of an item: its lane and  *)
(* source, what identifies it, the excerpt it brings, the words found in   *)
(* each of its fields, and its flags.                                      *)
(*                                                                         *)
(* Scores are whole ten-thousandths, the unit roundScore rounds to. The    *)
(* code merges and sorts by the doubles it has before it rounds them, so   *)
(* that scores closer than that tie here and not there.                    *)
(***************************************************************************)
EXTENDS Integers, FiniteSets

CONSTANTS
  Words,          \* words a query may be made of
  Names,          \* paths, row IDs, titles and excerpts
  None            \* an empty field

LaneNames == {"search", "semantic", "content", "date"}
Sources == LaneNames \union {"memory", "entity", "thread", "coding_lesson", "project_lesson"}
Fields == {"title", "path", "heading", "excerpt"}
Texts == Names \union {None}

RowType ==
  [lane: LaneNames, source: Sources, path: Texts, id: Texts, origin: Texts, title: Texts,
   excerpt: Texts, strength: Nat, matched: SUBSET Words, in: [Fields -> SUBSET Words],
   exact: BOOLEAN, weighty: BOOLEAN, kind: {"person", "project", "other"},
   archived: BOOLEAN, superseded: BOOLEAN]

Tenths(n) == n * 1000

Prior(source) ==
  CASE source = "date" -> Tenths(40)
    [] source = "entity" -> Tenths(34)
    [] source \in {"coding_lesson", "project_lesson"} -> Tenths(30)
    [] source = "thread" -> Tenths(24)
    [] source = "memory" -> Tenths(20)
    [] source = "content" -> Tenths(18)
    [] source = "semantic" -> Tenths(14)
    [] source = "search" -> Tenths(10)

RawScore(row) ==
  CASE row.lane = "search" -> row.strength
    [] row.lane = "semantic" -> 5 * row.strength
    [] row.lane = "content" -> 6 * row.strength
    [] row.lane = "date" -> Tenths(60)

Hits(row, f, terms) == row.in[f] \intersect terms
Matched(row, terms) == row.matched \union UNION {Hits(row, f, terms) : f \in Fields}

FieldBoost(f) ==
  CASE f = "title" -> Tenths(12) [] f = "path" -> Tenths(8)
    [] f = "heading" -> Tenths(5) [] f = "excerpt" -> Tenths(2)
Boost(row, f, terms) == IF Hits(row, f, terms) = {} THEN 0 ELSE FieldBoost(f)

FieldScore(row, terms) ==
  Boost(row, "title", terms) + Boost(row, "path", terms)
  + Boost(row, "heading", terms) + Boost(row, "excerpt", terms)

Coverage(row, terms) ==
  IF terms = {} THEN 0 ELSE (Tenths(60) * Cardinality(Matched(row, terms))) \div Cardinality(terms)

(* What only mentions the query somewhere is held back.                    *)
Broad(row, terms) ==
  /\ row.source \in {"memory", "content", "semantic"} /\ ~row.exact
  /\ Hits(row, "title", terms) = {} /\ Hits(row, "path", terms) = {}
  /\ terms = {} \/ 2 * Cardinality(Matched(row, terms)) < Cardinality(terms)

Weight(row, technical) ==
  CASE ~row.weighty -> 0
    [] row.weighty /\ row.exact -> Tenths(12)
    [] row.weighty /\ ~row.exact /\ technical /\ row.kind = "person" -> Tenths(-18)
    [] row.weighty /\ ~row.exact /\ technical /\ row.kind = "project" -> Tenths(6)
    [] OTHER -> Tenths(4)

Penalty(row) ==
  (IF row.superseded THEN Tenths(80) ELSE 0) + (IF row.archived THEN Tenths(100) ELSE 0)

(* scoreCandidate. The row is the rank-th of its lane.                     *)
Score(row, rank, terms, technical) ==
  Prior(row.source) + RawScore(row) + (30 * Tenths(10)) \div (60 + rank)
  + Coverage(row, terms) + FieldScore(row, terms)
  + (IF row.exact THEN Tenths(20) ELSE 0) + Weight(row, technical)
  - (IF Broad(row, terms) THEN Tenths(14) ELSE 0) - Penalty(row)

(* candidateKey: what makes two rows the same memory.                      *)
Key(row) ==
  CASE row.path # None -> <<"path", row.path>>
    [] row.path = None /\ row.id # None -> <<"id", row.id>>
    [] row.path = None /\ row.id = None /\ row.origin # None -> <<"source", row.origin>>
    [] OTHER -> <<"anon", row.source, row.title>>

(* laneCandidate. place is its place among the candidates.                 *)
LaneCandidate(row, rank, terms, technical, place) ==
  LET score == Score(row, rank, terms, technical)
  IN  [source |-> row.source, path |-> row.path, title |-> row.title, excerpt |-> row.excerpt,
       sources |-> {row.source}, lanes |-> {row.lane}, matched |-> Matched(row, terms),
       score |-> score, best |-> score, exact |-> row.exact,
       archived |-> row.archived, superseded |-> row.superseded, place |-> place]

(* existing.field = incoming.field || existing.field                       *)
Or(text, other) == IF text # None THEN text ELSE other

Evidence(c, d) ==
  [c EXCEPT !.score = @ + d.score, !.exact = @ \/ d.exact,
            !.archived = @ \/ d.archived, !.superseded = @ \/ d.superseded,
            !.sources = @ \union d.sources, !.lanes = @ \union d.lanes,
            !.matched = @ \union d.matched]

Shown(c, d) ==
  [c EXCEPT !.best = d.best, !.source = d.source, !.title = Or(d.title, @),
            !.excerpt = Or(d.excerpt, @)]

\* Variants with a bug: only the better row's flags are kept; the last of
\* equals is shown.
MergeFlagsOfBest(c, d) ==
  IF d.best > c.best
  THEN [Shown(Evidence(c, d), d) EXCEPT !.archived = d.archived, !.superseded = d.superseded]
  ELSE [Evidence(c, d) EXCEPT !.archived = c.archived, !.superseded = c.superseded]
MergeLastOfEquals(c, d) ==
  IF d.best >= c.best THEN Shown(Evidence(c, d), d) ELSE Evidence(c, d)

(* mergeCandidateEvidence: everything is added up; what is shown is of the *)
(* row that scored best so far.                                            *)
Merge(c, d) == IF d.best > c.best THEN Shown(Evidence(c, d), d) ELSE Evidence(c, d)

(* finalizeCandidate                                                       *)
Final(c) == c.score + Tenths(6) * (Cardinality(c.sources) - 1)
=============================================================================
