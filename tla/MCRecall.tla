------------------------------- MODULE MCRecall -------------------------------
(***************************************************************************)
(* Seven rows: a memory the search, semantic and content lanes find, where *)
(* one of them knows that it is superseded and two of them score alike;    *)
(* an archived one that is shared; one that is found by its date; and one  *)
(* that has no path.                                                       *)
(***************************************************************************)
EXTENDS Recall, TLC

CONSTANTS none, canonA, canonB, noRoom, kodo, kintsu, w1, w2,
          fileA, fileB, houseB, idC, textD, textE

Plain ==
  [lane |-> "search", source |-> "memory", path |-> none, id |-> none, origin |-> none,
   title |-> none, excerpt |-> none, strength |-> 10000, matched |-> {},
   in |-> [f \in Fields |-> {}], exact |-> FALSE, weighty |-> FALSE, kind |-> "other",
   archived |-> FALSE, superseded |-> FALSE]

MCRows == {
  [Plain EXCEPT !.path = fileA, !.id = idC, !.title = textD, !.superseded = TRUE,
                !.matched = {w1}],
  [Plain EXCEPT !.path = fileA, !.title = textE, !.excerpt = textD],
  [Plain EXCEPT !.lane = "semantic", !.source = "semantic", !.path = fileA,
                !.excerpt = textE, !.strength = 4400],
  [Plain EXCEPT !.lane = "content", !.source = "content", !.path = fileA,
                !.excerpt = textD, !.strength = 3000, !.in["excerpt"] = {}],
  [Plain EXCEPT !.lane = "semantic", !.source = "semantic", !.path = houseB,
                !.excerpt = textE, !.strength = 6000, !.archived = TRUE],
  [Plain EXCEPT !.lane = "date", !.source = "date", !.path = fileB, !.title = textD,
                !.exact = TRUE, !.in["title"] = {w1, w2}],
  [Plain EXCEPT !.id = idC, !.title = textD, !.weighty = TRUE,
                !.kind = "person"] }

Query(terms, technical, memory, dates) ==
  [terms |-> terms, technical |-> technical, memory |-> memory, dates |-> dates,
   phrases |-> 0, entities |-> 0, asks |-> FALSE, plans |-> FALSE, looksUp |-> FALSE]
Request(path, name, text, query, named) ==
  [path |-> path, name |-> name, text |-> text, claimed |-> kintsu, query |-> query,
   terms |-> {w1, w2}, named |-> named]

MCRequests == {
  Request(kodo, none, "words", Query(2, 0, 1, 1), {canonA}),
  Request(kodo, kodo, "words", Query(4, 2, 0, 0), {canonA, canonB}),
  Request(kodo, none, "words", Query(1, 0, 1, 0), {}),
  Request(kodo, none, "handle", Query(1, 0, 0, 0), {}),
  Request(kodo, none, "wake", Query(0, 0, 0, 0), {}),
  Request(kodo, kintsu, "words", Query(1, 0, 0, 0), {canonB}) }

Call(perSource, results, terms) ==
  [perPath |-> NoCap, perSource |-> perSource, results |-> results, lanes |-> LaneNames,
   terms |-> terms, technical |-> FALSE, rows |-> Rows]
MCCalls == { Call(1, 2, {w1}), Call(NoCap, 2, {}), [Call(1, 1, {w1}) EXCEPT !.perPath = 0] }

MCEntries == <<canonA, canonB>>
MCFilesOf == canonA :> {fileA} @@ canonB :> {fileB}
MCStripped == houseB :> fileB
MCAlphabet == fileA :> 1 @@ fileB :> 2 @@ houseB :> 3 @@ idC :> 4 @@ textD :> 5 @@ textE :> 6
=============================================================================
