-------------------------- MODULE MemorySourceProofs --------------------------
(***************************************************************************)
(* Proofs about MemorySource, for any rooms, memories and paths, with or   *)
(* without faults. Most of what the source guarantees rests on the order   *)
(* of its passes: a pass that has answered comes before every pass still   *)
(* to run (Ordered), so that nothing was answered before the columns were  *)
(* looked for, and an index pass either answers or ends the process        *)
(* (Indexed).                                                              *)
(***************************************************************************)
EXTENDS MemorySource, TLAPS

Ambient == Passes \ {"handle"}

(* A pass that returned something ran before those still to run.           *)
Ordered == \A p \in Passes, q \in plan : payload[p] # {} => Rank[p] < Rank[q]

(* While an indexing process runs, each half of its index is still to be   *)
(* read or has every memory that could be shown since the process started, *)
(* and neither was read before the columns were looked for; the files come *)
(* first. A printed index keeps them.                                      *)
IndexPasses == {"files", "threads"}
Lasting == Retrievable \intersect steady
Indexing == exit = "running" /\ mode \in {"full", "lexical"}
Indexed ==
  /\ Indexing =>
       /\ "files" \in plan => "threads" \in plan
       /\ \A p \in IndexPasses :
            p \in plan \/ ("detect" \notin plan /\ Lasting \subseteq payload[p])
  /\ exit = "printed" /\ mode = "lexical" => {Rendered(m) : m \in Lasting} \subseteq index

(* The scope is for the semantic pass, and names memories that may be seen.*)
ScopeKnown ==
  /\ mode # "semantic" => scope = {}
  /\ "content" \in plan => mode # "semantic"
  /\ scope \subseteq index
  /\ index \subseteq {Rendered(m) : m \in Visible \intersect InRooms}

(* Every answer but a handle's keeps to the rooms, and to what may be seen *)
(* unless a scope names its path.                                          *)
Within ==
  \A p \in Ambient :
    /\ payload[p] \subseteq InRooms
    /\ p \notin {"semantic", "content"} => payload[p] \subseteq Visible
    /\ \A m \in payload[p] : m \in Visible \/ (mode = "semantic" /\ PathOf[m] \in Bare(scope))
    /\ p = "content" /\ payload[p] # {} => mode # "semantic"

IInv == TypeOK /\ Ordered /\ ScopeKnown /\ Within /\ Indexed
-----------------------------------------------------------------------------
LEMMA PassNames ==
  Passes = {"detect", "handle", "files", "threads", "entities", "taxonomy", "staleness",
            "candidates", "embed", "semantic", "resonance", "content", "date"}
BY DEF Passes, Rank

LEMMA RankType == \A p \in Passes : Rank[p] \in Nat
BY PassNames DEF Rank

LEMMA RankInjective == \A p, q \in Passes : Rank[p] = Rank[q] => p = q
BY PassNames DEF Rank

(* A pass that follows a caught one is caught, or asks no statement.       *)
LEMMA CaughtLast ==
  \A p \in Caught, q \in Passes : Rank[p] < Rank[q] => q \in Caught \union {"embed"}
BY PassNames DEF Rank, Caught

LEMMA PlanType ==
  ASSUME NEW m, NEW skipped, NEW asked \in Prompts
  PROVE  /\ PlanOf(m, skipped, asked) \subseteq Passes
         /\ m = "semantic" => "content" \notin PlanOf(m, skipped, asked)
         /\ m \in {"full", "lexical"} => IndexPasses \subseteq PlanOf(m, skipped, asked)
<1>1. asked \subseteq {"embed", "semantic", "resonance", "candidates", "content", "date"}
  BY DEF Prompts
<1> QED BY <1>1, PassNames DEF PlanOf, IndexPasses

LEMMA NothingType ==
  Nothing \in [Passes -> SUBSET Memories] /\ \A p \in Passes : Nothing[p] = {}
BY DEF Nothing

(* What a pass may return: memories of the room and the house, unless it   *)
(* is a handle; only memories not archived, if the column is looked at;    *)
(* only memories that may be seen, unless a scope names their path.        *)
LEMMA Answers ==
  ASSUME NEW p \in Passes, NEW rows \in Results(p)
  PROVE  /\ rows \subseteq Memories
         /\ p # "handle" => rows \subseteq InRooms \intersect ErasureFilter
         /\ p \notin {"handle", "semantic", "content"} => rows \subseteq Visible
         /\ p # "handle" =>
              \A m \in rows : m \in Visible \/ (scope # {} /\ PathOf[m] \in Bare(scope))
<1> DEFINE Seen == InRooms \intersect Visible \intersect ErasureFilter
<1>1. Retrievable = Seen /\ InRooms \subseteq Memories
  BY DEF Retrievable, InRooms
<1>2. CASE p \in {"files", "threads", "taxonomy"}
  <2>1. rows = Seen
    BY <1>1, <1>2 DEF Results, IndexRows, TaxonomyRows
  <2> QED BY <1>1, <1>2, <2>1
<1>3. CASE p \in {"candidates", "date"}
  <2>1. rows \subseteq Seen
    BY <1>1, <1>3 DEF Results, CandidateRows, DateRows, Found
  <2> QED BY <1>1, <1>3, <2>1
<1>4. CASE p = "resonance"
  <2>1. rows \subseteq Seen
    BY <1>1, <1>4 DEF Results, HotRows, Found
  <2> QED BY <1>1, <1>4, <2>1
<1>5. CASE p \in {"semantic", "content"}
  <2>1. rows \in ChunkRows
    BY <1>5 DEF Results
  <2>2. CASE scope = {}
    <3>1. rows \subseteq Seen
      BY <1>1, <2>1, <2>2 DEF ChunkRows, Found
    <3>2. rows \subseteq Memories /\ rows \subseteq InRooms \intersect ErasureFilter
             /\ rows \subseteq Visible
      BY <1>1, <3>1
    <3> QED BY <1>5, <3>2
  <2>3. CASE scope # {}
    <3>1. rows \subseteq Scoped
      BY <2>1, <2>3 DEF ChunkRows, Found
    <3> QED BY <1>1, <1>5, <2>3, <3>1 DEF Scoped
  <2> QED BY <2>2, <2>3
<1>6. CASE p = "handle"
  <2>1. rows \in HandleRows
    BY <1>6 DEF Results
  <2> QED BY <1>6, <2>1 DEF HandleRows
<1>7. CASE p \in {"detect", "entities", "staleness", "embed"}
  <2>1. rows = {}
    BY <1>7 DEF Results
  <2> QED BY <2>1, <1>7
<1> QED BY <1>2, <1>3, <1>4, <1>5, <1>6, <1>7, PassNames
-----------------------------------------------------------------------------
LEMMA InvInit == Init => IInv
<1> SUFFICES ASSUME Init PROVE IInv
  OBVIOUS
<1>1. TypeOK
  BY SourceAssumption, NothingType DEF Init, TypeOK, Modes
<1>2. Ordered /\ ScopeKnown /\ Within /\ Indexed
  BY NothingType DEF Init, Ordered, ScopeKnown, Within, Ambient, Indexed, Indexing
<1> QED BY <1>1, <1>2 DEF IInv

(* A new process starts with nothing answered and nothing failed.          *)
LEMMA InvStart ==
  ASSUME IInv, NEW m \in Modes, NEW asked \in Prompts, NEW skipped \in Skips,
         NEW files \in SUBSET index, NEW all \in BOOLEAN, Start(m, asked, skipped, files, all)
  PROVE  IInv'
<1>1. TypeOK'
  <2>1. plan' \subseteq Passes /\ payload' \in [Passes -> SUBSET Memories]
    BY PlanType, NothingType DEF Start
  <2>2. index' = index /\ scope' \subseteq index'
    BY DEF Start
  <2>3. runs' \in Nat /\ mode' \in Modes /\ history' \in BOOLEAN
    BY DEF Start, IInv, TypeOK
  <2> QED BY <2>1, <2>2, <2>3 DEF IInv, TypeOK, Start, Rendered
<1>2. Ordered' /\ Within'
  BY NothingType DEF Start, Ordered, Within, Ambient
<1>3. Indexed'
  <2>1. exit' = "running" /\ mode' = m /\ plan' = PlanOf(m, skipped, asked)
    BY DEF Start
  <2>2. m \in {"full", "lexical"} => \A p \in IndexPasses : p \in plan'
    BY <2>1, PlanType
  <2> QED BY <2>1, <2>2 DEF Indexed, Indexing, IndexPasses
<1>4. ScopeKnown'
  <2>1. index' = index /\ scope' = files /\ mode' = m /\ plan' = PlanOf(m, skipped, asked)
    BY DEF Start
  <2>2. m = "semantic" \/ files = {}
    BY DEF Start
  <2> QED BY <2>1, <2>2, PlanType
          DEF IInv, ScopeKnown, Rendered, Visible, InRooms
<1> QED BY <1>1, <1>2, <1>3, <1>4 DEF IInv

(* What could be shown since the start only shrinks, as long as the columns*)
(* are those the process found.                                            *)
LEMMA LastingShrinks ==
  ASSUME TypeOK, UNCHANGED <<run, erasure>>,
         UNCHANGED database \/ (\E m \in Memories : Archive(m) \/ Restore(m))
  PROVE  Lasting' \subseteq Lasting
<1>1. CASE UNCHANGED database
  BY <1>1 DEF run, database, Lasting, Retrievable, InRooms, Visible, ErasureFilter
<1>2. ASSUME NEW m \in Memories, Archive(m) \/ Restore(m)
      PROVE  Lasting' \subseteq Lasting
  <2>1. /\ steady' = steady \ {m}
        /\ \A n \in steady' : n \in archived' <=> n \in archived
    BY <1>2 DEF Archive, Restore
  <2> QED BY <2>1 DEF run, Lasting, Retrievable, InRooms, Visible, ErasureFilter
<1> QED BY <1>1, <1>2

(* A step that answers nothing of the index keeps it.                      *)
LEMMA IndexedStep ==
  ASSUME TypeOK, Indexed, UNCHANGED <<run, erasure>>,
         UNCHANGED database \/ (\E m \in Memories : Archive(m) \/ Restore(m)),
         exit' = exit \/ exit' = "failed",
         exit' = "running" =>
           /\ plan' \subseteq plan /\ \A p \in IndexPasses : p \in plan => p \in plan'
           /\ \A p \in IndexPasses : payload'[p] = payload[p]
  PROVE  Indexed'
<1>1. Lasting' \subseteq Lasting /\ mode' = mode /\ index' = index
  BY LastingShrinks DEF run
<1>2. Indexing' => Indexing
  BY <1>1 DEF Indexing
<1>3. (\A p \in IndexPasses :
         p \in plan \/ ("detect" \notin plan /\ Lasting \subseteq payload[p]))' \/ ~Indexing'
  BY <1>1, <1>2 DEF Indexed, Indexing, IndexPasses
<1>4. exit' = "printed" /\ mode' = "lexical" => {Rendered(m) : m \in Lasting'} \subseteq index'
  BY <1>1 DEF Indexed, Rendered
<1>5. Indexing' => ("files" \in plan' => "threads" \in plan')
  BY <1>2 DEF Indexed, Indexing, IndexPasses
<1> QED BY <1>3, <1>4, <1>5 DEF Indexed, Rendered, IndexPasses

(* A step that leaves the scope alone and only shortens the plan keeps     *)
(* ScopeKnown.                                                             *)
LEMMA ScopeStep ==
  ASSUME ScopeKnown, UNCHANGED run, plan' \subseteq plan
  PROVE  ScopeKnown'
BY DEF ScopeKnown, run, Rendered, Visible, InRooms

LEMMA WithinStep ==
  ASSUME Within, UNCHANGED run, payload' \in {payload, Nothing}
  PROVE  Within'
BY NothingType DEF Within, Ambient, run, InRooms, Visible, Bare

LEMMA InvProcess ==
  ASSUME IInv, ConnectFails \/ Detect \/ Embed
  PROVE  IInv'
<1>0. UNCHANGED run /\ plan' \subseteq plan
  BY DEF ConnectFails, Detect, Embed, run
<1>1. TypeOK'
  BY <1>0, NothingType, SourceAssumption
     DEF IInv, TypeOK, ConnectFails, Detect, Embed, run, database, Rendered
<1>2. Ordered'
  BY <1>0, NothingType DEF IInv, TypeOK, Ordered, ConnectFails, Detect, Embed
<1>3. Indexed'
  <2>1. CASE Detect
    <3>1. /\ "detect" \in plan /\ plan' = plan \ {"detect"} /\ UNCHANGED <<run, exit>>
      BY <2>1 DEF Detect, Turn
    <3>2. Indexing' => \A p \in IndexPasses : p \in plan'
      BY <3>1 DEF Indexing, Indexed, IInv, IndexPasses, run
    <3>3. exit' # "printed"
      BY <2>1 DEF Detect, Turn
    <3> QED BY <3>1, <3>2, <3>3 DEF Indexed, Indexing, IndexPasses
  <2>2. CASE ConnectFails \/ Embed
    <3>1. /\ UNCHANGED <<run, erasure, database>> /\ (exit' = exit \/ exit' = "failed")
          /\ exit' = "running" =>
               payload' = payload /\ \A p \in IndexPasses : p \in plan => p \in plan'
      BY <2>2 DEF ConnectFails, Embed, run, IndexPasses
    <3> QED BY <1>0, <3>1, IndexedStep DEF IInv
  <2> QED BY <2>1, <2>2
<1>4. ScopeKnown'
  BY <1>0, ScopeStep DEF IInv
<1>5. Within'
  <2>1. payload' \in {payload, Nothing}
    BY DEF ConnectFails, Detect, Embed
  <2> QED BY <1>0, <2>1, WithinStep DEF IInv
<1> QED BY <1>1, <1>2, <1>3, <1>4, <1>5 DEF IInv

(* The pass whose turn it is comes before all the others.                  *)
LEMMA FirstPass ==
  ASSUME TypeOK, NEW p \in Passes, Turn(p)
  PROVE  p \in plan /\ \A q \in plan \ {p} : q \in Passes /\ Rank[p] < Rank[q]
<1>1. p \in plan /\ \A q \in plan : Rank[p] <= Rank[q] /\ q \in Passes
  BY DEF Turn, TypeOK
<1>2. \A q \in plan \ {p} : Rank[p] \in Nat /\ Rank[q] \in Nat /\ Rank[p] # Rank[q]
  BY <1>1, RankType, RankInjective
<1> QED BY <1>1, <1>2

(* The columns are looked for before anything is asked.                    *)
LEMMA DetectFirst ==
  ASSUME TypeOK, NEW p \in Passes, Turn(p), p # "detect"
  PROVE  "detect" \notin plan
<1>1. SUFFICES ASSUME "detect" \in plan PROVE FALSE
  OBVIOUS
<1>2. "detect" \in plan \ {p} /\ Rank[p] \in Nat
  BY <1>1, RankType
<1>3. Rank[p] < Rank["detect"]
  BY <1>2, FirstPass
<1> QED BY <1>2, <1>3 DEF Rank

LEMMA InvQuery ==
  ASSUME IInv, NEW p \in Passes, Query(p)
  PROVE  IInv'
<1>0. UNCHANGED run /\ plan' = plan \ {p} /\ UNCHANGED <<exit, erasure, database>>
  BY DEF Query, run
<1>1. PICK rows \in Results(p) : payload' = [payload EXCEPT ![p] = rows]
  BY DEF Query
<1>2. TypeOK'
  <2>1. payload' \in [Passes -> SUBSET Memories]
    BY <1>1, Answers DEF IInv, TypeOK
  <2> QED BY <1>0, <2>1 DEF IInv, TypeOK, Query, run, database, Rendered
<1>3. Ordered'
  <2>1. SUFFICES ASSUME NEW a \in Passes, NEW q \in plan', payload'[a] # {}
                 PROVE  Rank[a] < Rank[q]
    BY DEF Ordered
  <2>2. q \in plan /\ Rank[p] < Rank[q]
    BY <1>0, <2>1, FirstPass DEF IInv, Query
  <2>3. a # p => payload'[a] = payload[a]
    BY <1>1, <2>1 DEF IInv, TypeOK
  <2> QED BY <2>1, <2>2, <2>3 DEF IInv, Ordered
<1>4. Indexed'
  <2>1. p \in plan /\ exit = "running" /\ "detect" \notin plan'
    <3>1. p \in plan /\ exit = "running" /\ p # "detect" /\ Turn(p)
      BY DEF Query, Turn
    <3>2. "detect" \notin plan
      BY <3>1, DetectFirst DEF IInv
    <3> QED BY <1>0, <3>1, <3>2
  <2>2. Lasting' = Lasting
    BY <1>0 DEF run, database, Lasting, Retrievable, InRooms, Visible, ErasureFilter
  <2>3. ASSUME NEW q \in IndexPasses, q = p PROVE Lasting \subseteq payload'[q]
    <3>1. rows = Retrievable /\ payload'[q] = rows
      BY <1>1, <2>3 DEF IInv, TypeOK, IndexPasses, Results, IndexRows
    <3> QED BY <3>1 DEF Lasting
  <2>4. ASSUME NEW q \in IndexPasses, q # p PROVE payload'[q] = payload[q]
    BY <1>1, <2>4, PassNames DEF IInv, TypeOK, IndexPasses
  <2>5. Indexing' =>
          \A q \in IndexPasses :
            q \in plan' \/ ("detect" \notin plan' /\ Lasting' \subseteq payload'[q])
    BY <1>0, <2>1, <2>2, <2>3, <2>4 DEF IInv, Indexed, Indexing, run
  <2>6. Indexing' => ("files" \in plan' => "threads" \in plan')
    <3>1. p = "threads" => "files" \notin plan'
      BY <1>0, FirstPass, PassNames DEF IInv, Query, Rank
    <3>2. Indexing' => Indexing
      BY <1>0 DEF Indexing, run
    <3> QED BY <1>0, <3>1, <3>2 DEF IInv, Indexed
  <2> QED BY <1>0, <2>1, <2>5, <2>6 DEF Indexed, IndexPasses
<1>5. ScopeKnown'
  BY <1>0, ScopeStep DEF IInv
<1>6. Within'
  <2>1. ASSUME NEW q \in Ambient
        PROVE  /\ payload'[q] \subseteq InRooms
               /\ q \notin {"semantic", "content"} => payload'[q] \subseteq Visible
               /\ \A m \in payload'[q] :
                    m \in Visible \/ (mode = "semantic" /\ PathOf[m] \in Bare(scope))
               /\ q = "content" /\ payload'[q] # {} => mode # "semantic"
    <3>1. CASE q # p
      <4>1. payload'[q] = payload[q]
        BY <1>1, <3>1 DEF IInv, TypeOK, Ambient
      <4> QED BY <2>1, <4>1 DEF IInv, Within
    <3>2. CASE q = p
      <4>1. payload'[q] = rows /\ p \in plan /\ p # "handle"
        BY <1>1, <2>1, <3>2 DEF IInv, TypeOK, Ambient, Query, Turn
      <4>2. rows \subseteq InRooms /\ (p \notin {"semantic", "content"} => rows \subseteq Visible)
        BY <4>1, Answers
      <4>3. \A m \in rows : m \in Visible \/ (mode = "semantic" /\ PathOf[m] \in Bare(scope))
        BY <4>1, Answers DEF IInv, ScopeKnown
      <4>4. p = "content" => mode # "semantic"
        BY <4>1 DEF IInv, ScopeKnown
      <4> QED BY <3>2, <4>1, <4>2, <4>3, <4>4
    <3> QED BY <3>1, <3>2
  <2> QED BY <1>0, <2>1 DEF Within, run, InRooms, Visible, Bare
<1> QED BY <1>2, <1>3, <1>4, <1>5, <1>6 DEF IInv

LEMMA InvQueryFails ==
  ASSUME IInv, NEW p \in Passes, QueryFails(p)
  PROVE  IInv'
<1>0. UNCHANGED run /\ plan' \subseteq plan \ {p} /\ UNCHANGED <<erasure, database>>
  BY DEF QueryFails, run
<1>1. payload' \in {payload, Nothing}
  BY DEF QueryFails
<1>2. TypeOK'
  <2>1. payload' \in [Passes -> SUBSET Memories]
    BY <1>1, NothingType DEF IInv, TypeOK
  <2> QED BY <1>0, <1>1, <2>1 DEF IInv, TypeOK, QueryFails, run, database, Rendered
<1>3. Ordered'
  BY <1>0, <1>1, NothingType DEF IInv, TypeOK, Ordered
<1>4. Indexed'
  <2>1. CASE p \in Caught
    <3>1. plan' = plan \ {p} /\ UNCHANGED <<payload, exit>> /\ p \notin IndexPasses
      BY <2>1 DEF QueryFails, Caught, IndexPasses
    <3> QED BY <1>0, <3>1, IndexedStep DEF IInv
  <2>2. CASE p \notin Caught
    <3>1. exit' = "failed"
      BY <2>2 DEF QueryFails
    <3> QED BY <1>0, <3>1, IndexedStep DEF IInv
  <2> QED BY <2>1, <2>2
<1>5. ScopeKnown'
  BY <1>0, ScopeStep DEF IInv
<1>6. Within'
  BY <1>0, <1>1, WithinStep DEF IInv
<1> QED BY <1>2, <1>3, <1>4, <1>5, <1>6 DEF IInv

(* Only a lexical run, which has no scope, replaces the index.             *)
LEMMA InvFinish ==
  ASSUME IInv, Finish
  PROVE  IInv'
<1>1. payload' = Nothing /\ plan' = plan /\ plan = {} /\ UNCHANGED <<scope, mode, txn>>
  BY DEF Finish
<1>2. ScopeKnown'
  <2>1. CASE mode = "lexical"
    <3>1. payload["threads"] \subseteq Visible \intersect InRooms
      BY PassNames DEF IInv, Within, Ambient
    <3>2. index' = {Rendered(m) : m \in payload["threads"]} /\ scope = {}
      BY <2>1 DEF Finish, IInv, ScopeKnown
    <3> QED BY <1>1, <3>1, <3>2 DEF ScopeKnown, Rendered, Visible, InRooms
  <2>2. CASE mode # "lexical"
    <3>1. index' = index
      BY <2>2 DEF Finish
    <3> QED BY <1>1, <3>1 DEF IInv, ScopeKnown, Rendered, Visible, InRooms
  <2> QED BY <2>1, <2>2
<1>3. TypeOK'
  <2>1. index' \subseteq {Rendered(m) : m \in Memories}
    BY <1>2 DEF ScopeKnown, Visible, Rendered, InRooms
  <2>2. scope' \subseteq index'
    BY <1>2 DEF ScopeKnown
  <2> QED BY <1>1, <2>1, <2>2, NothingType DEF IInv, TypeOK, Finish, database, Rendered
<1>4. Ordered' /\ Within'
  BY <1>1, NothingType DEF Ordered, Within, Ambient
<1>5. Indexed'
  <2>2. Lasting' = Lasting
    BY DEF Finish, database, Lasting, Retrievable, InRooms, Visible, ErasureFilter
  <2>3. CASE mode = "lexical"
    <3>1. Lasting \subseteq payload["threads"]
      BY <1>1, <2>3 DEF IInv, Indexed, Indexing, IndexPasses, Finish
    <3>2. index' = {Rendered(m) : m \in payload["threads"]}
      BY <2>3 DEF Finish
    <3> QED BY <2>2, <3>1, <3>2 DEF Finish, Indexed, Indexing, Rendered
  <2>4. CASE mode # "lexical"
    BY <1>1, <2>4 DEF Finish, Indexed, Indexing
  <2> QED BY <2>3, <2>4
<1> QED BY <1>2, <1>3, <1>4, <1>5 DEF IInv

LEMMA InvDatabase ==
  ASSUME IInv, NEW m \in Memories, Archive(m) \/ Restore(m)
  PROVE  IInv'
<1>1. UNCHANGED run /\ UNCHANGED <<plan, erasure, txn, payload, exit>>
  BY DEF Archive, Restore
<1>2. TypeOK'
  BY <1>1, SourceAssumption DEF IInv, TypeOK, Archive, Restore, run, Rendered
<1>3. Ordered' /\ Indexed'
  BY <1>1, IndexedStep DEF IInv, Ordered
<1>4. ScopeKnown' /\ Within'
  BY <1>1, ScopeStep, WithinStep DEF IInv
<1> QED BY <1>2, <1>3, <1>4 DEF IInv

LEMMA InvStep == IInv /\ [Next]_vars => IInv'
<1> SUFFICES ASSUME IInv, [Next]_vars PROVE IInv'
  OBVIOUS
<1>1. CASE \E m \in Modes, asked \in Prompts, skipped \in Skips, files \in SUBSET index,
              all \in BOOLEAN : Start(m, asked, skipped, files, all)
  BY <1>1, InvStart
<1>2. CASE ConnectFails \/ Detect \/ Embed
  BY <1>2, InvProcess
<1>3. CASE Finish
  BY <1>3, InvFinish
<1>4. CASE \E p \in Passes : Query(p) \/ QueryFails(p)
  BY <1>4, InvQuery, InvQueryFails
<1>5. CASE \E m \in Memories : Archive(m) \/ Restore(m)
  BY <1>5, InvDatabase
<1>6. CASE UNCHANGED vars
  <2>1. Indexed'
    BY <1>6, IndexedStep DEF vars, run, database, IInv
  <2> QED BY <1>6, <2>1 DEF vars, IInv, TypeOK, Ordered, ScopeKnown, Within, Rendered,
                            InRooms, Visible, Bare
<1> QED BY <1>1, <1>2, <1>3, <1>4, <1>5, <1>6 DEF Next, Process

LEMMA Invariant == Spec => []IInv
BY InvInit, InvStep, PTL DEF Spec
-----------------------------------------------------------------------------
(* Every variable keeps its type.                                          *)
THEOREM TypeCorrect == Spec => []TypeOK
BY Invariant, PTL DEF IInv

(* No pass but the deliberate handle leaves the room and the house.        *)
THEOREM RoomsAreKept == Spec => []RoomsKept
<1>1. IInv => RoomsKept
  BY DEF IInv, Within, Ambient, RoomsKept, InRooms
<1> QED BY <1>1, Invariant, PTL

(* A db-only memory is only answered by a scoped semantic pass, for a path *)
(* it shares with a memory that may be seen.                               *)
THEOREM HiddenStay == Spec => []HiddenOnlyByPath
<1>1. ASSUME IInv PROVE HiddenOnlyByPath
  <2>1. SUFFICES ASSUME NEW p \in Passes \ {"handle"}, NEW m \in payload[p] \intersect DbOnly
                 PROVE  /\ p = "semantic"
                        /\ \E seen \in Visible \intersect InRooms :
                             Rendered(seen) \in scope /\ PathOf[seen] = PathOf[m]
    BY DEF HiddenOnlyByPath, Visible, InRooms
  <2>2. m \notin Visible
    BY <2>1 DEF Visible
  <2>3. mode = "semantic" /\ PathOf[m] \in Bare(scope)
    BY <1>1, <2>1, <2>2 DEF IInv, Within, Ambient
  <2>4. p = "semantic"
    BY <1>1, <2>1, <2>2, <2>3 DEF IInv, Within, Ambient
  <2>5. PICK name \in scope : name[2] = PathOf[m]
    BY <2>3 DEF Bare
  <2>6. PICK seen \in Visible \intersect InRooms : name = Rendered(seen)
    BY <1>1, <2>5 DEF IInv, ScopeKnown
  <2>7. PathOf[seen] = PathOf[m]
    BY <2>5, <2>6 DEF Rendered
  <2> QED BY <2>4, <2>5, <2>6, <2>7
<1> QED BY <1>1, Invariant, PTL

(* A process that goes on from its index, or has printed it, read all of   *)
(* it: what could be shown all along is there.                             *)
THEOREM WholeIndex == Spec => []IndexIsWhole
<1>1. ASSUME IInv PROVE IndexIsWhole
  <2>1. CASE Indexing /\ "threads" \notin plan
    BY <1>1, <2>1 DEF IInv, Indexed, IndexPasses, Lasting, IndexIsWhole, Indexing
  <2>2. CASE ~(Indexing /\ "threads" \notin plan)
    BY <1>1, <2>2 DEF IInv, Indexed, Lasting, IndexIsWhole, Indexing
  <2> QED BY <2>1, <2>2
<1> QED BY <1>1, Invariant, PTL

(* No fatal statement is still to run in an aborted transaction.           *)
THEOREM CaughtSurvived == Spec => []CaughtIsNotFatal
<1>1. Init => CaughtIsNotFatal
  BY DEF Init, CaughtIsNotFatal
<1>2. ASSUME IInv, CaughtIsNotFatal, [Next]_vars PROVE CaughtIsNotFatal'
  <2>1. ASSUME NEW p \in Passes, QueryFails(p) PROVE CaughtIsNotFatal'
    <3>1. CASE p \in Caught
      <4>1. \A q \in plan \ {p} : q \in Caught \union {"embed"}
        BY <1>2, <2>1, <3>1, FirstPass, CaughtLast DEF IInv, QueryFails
      <4> QED BY <2>1, <3>1, <4>1 DEF QueryFails, CaughtIsNotFatal
    <3>2. CASE p \notin Caught
      BY <2>1, <3>2 DEF QueryFails, CaughtIsNotFatal
    <3> QED BY <3>1, <3>2
  <2>2. ASSUME NEW p \in Passes, Query(p) PROVE CaughtIsNotFatal'
    BY <2>2 DEF Query, CaughtIsNotFatal
  <2>3. CASE \E m \in Modes, asked \in Prompts, skipped \in Skips, files \in SUBSET index,
                all \in BOOLEAN : Start(m, asked, skipped, files, all)
    BY <2>3 DEF Start, CaughtIsNotFatal
  <2>4. CASE Detect
    BY <2>4 DEF Detect, CaughtIsNotFatal
  <2>5. CASE txn' = txn /\ plan' \subseteq plan
    BY <1>2, <2>5 DEF CaughtIsNotFatal
  <2>6. ConnectFails \/ Embed \/ Finish \/ UNCHANGED vars
          \/ (\E m \in Memories : Archive(m) \/ Restore(m))
        => txn' = txn /\ plan' \subseteq plan
    BY DEF ConnectFails, Embed, Finish, Archive, Restore, vars
  <2> QED BY <1>2, <2>1, <2>2, <2>3, <2>4, <2>5, <2>6 DEF Next, Process
<1> QED BY <1>1, <1>2, Invariant, PTL DEF Spec

(* A process that found the column gives no memory archived all along.     *)
THEOREM ArchivedStay == Spec => []ArchiveHonoured
<1>1. Init => ArchiveHonoured
  BY DEF Init, ArchiveHonoured
<1>2. ASSUME IInv, ArchiveHonoured, [Next]_vars PROVE ArchiveHonoured'
  <2>1. ASSUME NEW p \in Passes, Query(p) PROVE ArchiveHonoured'
    <3>1. PICK rows \in Results(p) : payload' = [payload EXCEPT ![p] = rows]
      BY <2>1 DEF Query
    <3>2. UNCHANGED <<erasure, history, archived, steady>>
      BY <2>1 DEF Query, run, database
    <3>3. p # "handle" /\ erasure /\ ~history => rows \intersect archived = {}
      <4>1. p # "handle" => rows \subseteq ErasureFilter
        BY Answers
      <4> QED BY <1>2, <4>1 DEF IInv, TypeOK, ErasureFilter
    <3> QED BY <1>2, <3>1, <3>2, <3>3 DEF IInv, TypeOK, ArchiveHonoured
  <2>2. CASE \E m \in Modes, asked \in Prompts, skipped \in Skips, files \in SUBSET index,
                all \in BOOLEAN : Start(m, asked, skipped, files, all)
    BY <2>2, NothingType DEF Start, ArchiveHonoured
  <2>3. CASE Detect
    <3>1. "detect" \in plan /\ Rank["detect"] = 0 /\ payload' = payload
      BY <2>3 DEF Detect, Turn, Rank
    <3>2. \A p \in Passes : payload[p] = {}
      BY <1>2, <3>1, RankType DEF IInv, Ordered
    <3> QED BY <3>1, <3>2 DEF ArchiveHonoured
  <2>4. CASE /\ UNCHANGED <<erasure, history>>
             /\ (archived \intersect steady)' \subseteq archived \intersect steady /\ payload' \in {payload, Nothing}
    BY <1>2, <2>4, NothingType DEF ArchiveHonoured
  <2>5. ConnectFails \/ Embed \/ Finish \/ UNCHANGED vars
          \/ (\E p \in Passes : QueryFails(p))
          \/ (\E m \in Memories : Archive(m) \/ Restore(m))
        => /\ UNCHANGED <<erasure, history>>
           /\ (archived \intersect steady)' \subseteq archived \intersect steady /\ payload' \in {payload, Nothing}
    BY DEF ConnectFails, Embed, Finish, QueryFails, Archive, Restore, vars, run, database
  <2> QED BY <1>2, <2>1, <2>2, <2>3, <2>4, <2>5 DEF Next, Process
<1> QED BY <1>1, <1>2, Invariant, PTL DEF Spec
=============================================================================
