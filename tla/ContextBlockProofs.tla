-------------------------- MODULE ContextBlockProofs --------------------------
(***************************************************************************)
(* Theorems about ContextBlock for all files, canon entries, lengths and   *)
(* limits. Each loop has an invariant that says what it has done with the  *)
(* excerpts before `next`; what follows a loop uses it at the end of them. *)
(***************************************************************************)
EXTENDS ContextBlock, SequenceTheorems, WellFoundedInduction, TLAPS

(* The first n excerpts that were merged have been deduplicated.           *)
Deduped(n) ==
  /\ \A i \in 1 .. Len(unique) : \E h \in 1 .. n : merged[h] = unique[i]
  /\ \A h \in 1 .. n : \E i \in 1 .. Len(unique) : unique[i] = merged[h]
  /\ \A i, j \in 1 .. Len(unique) : i < j =>
       /\ unique[i] # unique[j]
       /\ \A k \in 1 .. Len(merged) : merged[k] = unique[j] => \E h \in 1 .. k : merged[h] = unique[i]

(* The first n lexical excerpts stand, or have been demoted.               *)
Demoted(n) ==
  \A i \in 1 .. n :
    Lexical[i] \in Range(standing) \/ \E c \in sure : c.of = Lexical[i].of

DemoteInv ==
  /\ pc = "collect" => next = 1
  /\ pc = "demote" => next <= Len(Lexical) + 1 /\ Demoted(next - 1)
  /\ pc \in {"dedupe", "trim", "done"} =>
       /\ Demoted(Len(Lexical))
       /\ Range(standing) \subseteq Range(merged) /\ sure \subseteq Range(merged)

DedupeInv ==
  /\ pc \in {"collect", "demote"} => unique = <<>>
  /\ pc = "dedupe" => next <= Len(merged) + 1 /\ Deduped(next - 1)
  /\ pc \in {"trim", "done"} => Deduped(Len(merged))

TrimInv ==
  /\ pc \in {"collect", "demote", "dedupe"} => kept = <<>>
  /\ kept = <<>> => total = 0
  /\ Len(kept) <= Len(unique)
  /\ \A i \in 1 .. Len(kept) : kept[i] = unique[i]
  /\ pc \in {"trim", "done"} => next = Len(kept) + 1
  /\ pc = "done" => ~Fits
  /\ WithinBudget

ContextInv == TypeOK /\ DemoteInv /\ DedupeInv /\ TrimInv
-----------------------------------------------------------------------------
(* Every set of naturals has a least element: induction without a predicate*)
(* as a parameter.                                                         *)
LEMMA LeastNatural ==
  ASSUME NEW T \in SUBSET Nat, T # {}
  PROVE  \E n \in T : \A m \in T : n <= m
<1> DEFINE R == OpToRel(<, Nat)
<1>1. IsWellFoundedOn(R, Nat)
  BY NatLessThanWellFounded
<1>2. PICK n \in T : \A m \in T : <<m, n>> \notin R
  <2> HIDE DEF R
  <2> QED BY <1>1, WFMin
<1>3. ASSUME NEW m \in T, m < n PROVE FALSE
  BY <1>2, <1>3 DEF OpToRel
<1>4. n \in Nat /\ \A m \in T : m \in Nat
  OBVIOUS
<1>5. QED BY <1>3, <1>4

(* sum holds the characters of the first n excerpts, for every n.          *)
Sums(sum, excerpts) ==
  sum = [n \in 0 .. Len(excerpts) |-> IF n = 0 THEN 0 ELSE sum[n - 1] + Size(excerpts[n])]

LEMMA SumsUnique ==
  ASSUME NEW q, Len(q) \in Nat, NEW f, NEW g, Sums(f, q), Sums(g, q)
  PROVE  f = g
<1> DEFINE T == {n \in 0 .. Len(q) : f[n] # g[n]}
<1>1. ASSUME T # {} PROVE FALSE
  <2>1. PICK n \in T : \A m \in T : n <= m
    <3>1. T \in SUBSET Nat
      OBVIOUS
    <3> HIDE DEF T
    <3>2. QED BY <1>1, <3>1, LeastNatural
  <2>2. n = 0 \/ (n - 1 \in 0 .. Len(q) /\ n - 1 \notin T)
    BY <2>1
  <2>3. f[n] = g[n]
    BY <2>2 DEF Sums
  <2>4. QED BY <2>1, <2>3
<1>2. QED BY <1>1 DEF Sums

LEMMA SumsGive ==
  ASSUME NEW q, Len(q) \in Nat, NEW f, Sums(f, q)
  PROVE  Characters(q) = f[Len(q)]
<1> DEFINE g == CHOOSE h : Sums(h, q)
<1>1. Sums(g, q)
  OBVIOUS
<1>2. g = f
  BY <1>1, SumsUnique
<1>3. Characters(q) = g[Len(q)]
  BY DEF Characters, Sums
<1>4. QED BY <1>2, <1>3

LEMMA SumsAppend ==
  ASSUME NEW q \in Seq(Sources), NEW s \in Sources, NEW f, Sums(f, q)
  PROVE  \E g : Sums(g, Append(q, s)) /\ g[Len(q) + 1] = f[Len(q)] + Size(s)
<1> DEFINE r == Append(q, s)
           g == [n \in 0 .. Len(r) |-> IF n = Len(r) THEN f[Len(q)] + Size(s) ELSE f[n]]
<1>1. Len(q) \in Nat /\ Len(r) = Len(q) + 1 /\ r[Len(r)] = s /\ \A n \in 1 .. Len(q) : r[n] = q[n]
  OBVIOUS
<1>2. ASSUME NEW n \in 0 .. Len(r)
      PROVE  g[n] = IF n = 0 THEN 0 ELSE g[n - 1] + Size(r[n])
  <2>1. CASE n = 0
    BY <1>1, <2>1 DEF Sums
  <2>2. CASE n \in 1 .. Len(q)
    BY <1>1, <2>2 DEF Sums
  <2>3. CASE n = Len(r)
    <3>1. g[n] = f[Len(q)] + Size(s) /\ g[n - 1] = f[Len(q)] /\ n # 0
      BY <1>1, <2>3
    <3>2. QED BY <1>1, <2>3, <3>1
  <2>4. QED BY <1>1, <2>1, <2>2, <2>3
<1>3. g = [n \in 0 .. Len(r) |-> g[n]] /\ g[Len(q) + 1] = f[Len(q)] + Size(s)
  BY <1>1
<1>4. Sums(g, r)
  <2> HIDE DEF g, r
  <2> QED BY <1>2, <1>3 DEF Sums
<1>5. QED BY <1>3, <1>4

LEMMA SizeType ==
  ASSUME NEW s \in Sources
  PROVE  Size(s) \in Nat /\ (s.kind # "term" => Size(s) <= MaxChars)
BY ContextAssumption DEF Size

LEMMA LinesAreSources == Lines \subseteq Sources
BY DEF Lines, Sources, Kinds

LEMMA MadeSources ==
  /\ \A t \in Terms : Source("term", t, Whole) \in Sources
  /\ \A f \in Files, p \in Parts : {Source("content", f, p), Source("chunk", f, p)} \subseteq Sources
  /\ \A f \in Files : {Source("date", f, Whole), Source("file", f, Whole)} \subseteq Sources
BY DEF Source, Sources, Kinds, Whole

LEMMA RangeByIndex ==
  ASSUME NEW S, NEW q \in Seq(S)
  PROVE  Range(q) = {q[i] : i \in 1 .. Len(q)}
BY DEF Range

LEMMA RangeAppend ==
  ASSUME NEW S, NEW q \in Seq(S), NEW e \in S
  PROVE  Range(Append(q, e)) = Range(q) \union {e}
<1>1. Append(q, e) \in Seq(S) /\ Len(Append(q, e)) = Len(q) + 1
  OBVIOUS
<1>2. Append(q, e)[Len(q) + 1] = e /\ \A i \in 1 .. Len(q) : Append(q, e)[i] = q[i]
  OBVIOUS
<1>3. Range(Append(q, e)) = {Append(q, e)[i] : i \in 1 .. Len(q) + 1}
  BY <1>1, RangeByIndex
<1> QED BY <1>2, <1>3, RangeByIndex

LEMMA RangeOne ==
  ASSUME NEW S, NEW e \in S
  PROVE  <<e>> \in Seq(S) /\ Range(<<e>>) = {e}
<1>1. <<e>> \in Seq(S) /\ Len(<<e>>) = 1 /\ <<e>>[1] = e
  OBVIOUS
<1>2. Range(<<e>>) = {<<e>>[i] : i \in 1 .. 1}
  BY <1>1, RangeByIndex
<1> QED BY <1>1, <1>2

LEMMA LexicalType ==
  ASSUME TypeOK
  PROVE  /\ Lexical \in Seq(Sources)
         /\ Range(Lexical) = Range(lanes["sync"]) \union Range(lanes["deferred"])
BY RangeConcatenation DEF TypeOK, Lexical, Lanes

(* What Deduped says of the merged excerpts as sets.                       *)
LEMMA DedupedRange ==
  ASSUME merged \in Seq(Sources), unique \in Seq(Sources), Deduped(Len(merged))
  PROVE  Range(unique) = Range(merged)
<1>1. /\ Range(unique) = {unique[i] : i \in 1 .. Len(unique)}
      /\ Range(merged) = {merged[i] : i \in 1 .. Len(merged)}
  BY RangeByIndex
<1>2. /\ \A i \in 1 .. Len(unique) : \E h \in 1 .. Len(merged) : merged[h] = unique[i]
      /\ \A h \in 1 .. Len(merged) : \E i \in 1 .. Len(unique) : unique[i] = merged[h]
  BY DEF Deduped
<1> QED BY <1>1, <1>2

(* What a collector does to the types.                                     *)
LEMMA CollectType ==
  ASSUME TypeOK, NEW l \in Lanes, NEW q \in Seq(Sources), Collect(l, q)
  PROVE  /\ lanes' \in [Lanes -> Seq(Sources)]
         /\ \A k \in Lanes : Range(lanes[k]) \subseteq Range(lanes'[k])
         /\ Range(lanes'[l]) = Range(lanes[l]) \union Range(q)
         /\ <<pc, missing, lane, standing, canon, merged, unique, next, kept, total>>'
              = <<pc, missing, lane, standing, canon, merged, unique, next, kept, total>>
<1>1. lanes[l] \in Seq(Sources) /\ lanes' = [lanes EXCEPT ![l] = lanes[l] \o q]
  BY DEF TypeOK, Collect
<1>2. lanes[l] \o q \in Seq(Sources)
  BY <1>1
<1>3. Range(lanes[l] \o q) = Range(lanes[l]) \union Range(q)
  BY <1>1, RangeConcatenation
<1>4. lanes'[l] = lanes[l] \o q /\ \A k \in Lanes : k # l => lanes'[k] = lanes[k]
  BY <1>1 DEF TypeOK
<1>5. lanes' \in [Lanes -> Seq(Sources)]
  BY <1>1, <1>2 DEF TypeOK
<1> QED BY <1>3, <1>4, <1>5 DEF Collect
-----------------------------------------------------------------------------
LEMMA InitInv == Init => ContextInv
<1> SUFFICES ASSUME Init PROVE ContextInv
  OBVIOUS
<1> USE DEF Init
<1>1. TypeOK
  <2>1. [l \in Lanes |-> <<>>] \in [Lanes -> Seq(Sources)] /\ <<>> \in Seq(Lines)
    OBVIOUS
  <2> QED BY <2>1 DEF TypeOK
<1>2. DemoteInv /\ DedupeInv
  BY DEF DemoteInv, DedupeInv
<1>3. TrimInv
  BY ContextAssumption DEF TrimInv, WithinBudget
<1> QED BY <1>1, <1>2, <1>3 DEF ContextInv

(* Collecting changes nothing the later stages have yet looked at.         *)
LEMMA CollectStep ==
  ASSUME ContextInv,
         \/ \E t \in Terms : CollectImportant(t)
         \/ CollectPointer
         \/ \E l \in Lanes, e \in Lines : CollectThread(l, e)
         \/ \E l \in Lanes, f \in Files, p \in Parts, high \in BOOLEAN : CollectChunk(l, f, p, high)
         \/ \E l \in Lanes, f \in Files : CollectFile(l, f)
  PROVE  ContextInv'
<1> USE ContextAssumption, MadeSources, LinesAreSources
<1> DEFINE Chunks == Range(lanes["content"]) \union Range(lanes["semantic"])
<1>0. TypeOK
  BY DEF ContextInv
<1>1. /\ pc = "collect" /\ pc' = pc
      /\ UNCHANGED <<missing, lane, standing, canon, merged, unique, next, kept, total>>
  BY DEF CollectImportant, CollectPointer, CollectThread, CollectChunk, CollectFile, Collect, Collecting
<1> DEFINE Typed == /\ named' \subseteq Terms /\ refs' \in Seq(Lines) /\ active' \subseteq Files
                    /\ lanes' \in [Lanes -> Seq(Sources)]
                    /\ sure' \subseteq Chunks'
<1>2. Typed
  <2>1. ASSUME NEW t \in Terms, CollectImportant(t) PROVE Typed
    <3> DEFINE q == IF t \in Summarised THEN <<Source("term", t, Whole)>> ELSE <<>>
    <3>1. q \in Seq(Sources) /\ "important" \in Lanes
      BY DEF Lanes
    <3>2. Collect("important", q)
      BY <2>1 DEF CollectImportant
    <3> HIDE DEF q
    <3> QED BY <1>0, <2>1, <3>1, <3>2, CollectType DEF CollectImportant, TypeOK, Lanes
  <2>2. ASSUME CollectPointer PROVE Typed
    <3> DEFINE q == IF Readable(Head(refs)) THEN <<Head(refs)>> ELSE <<>>
    <3>1. refs \in Seq(Lines) /\ refs # <<>>
      BY <1>0, <2>2 DEF TypeOK, CollectPointer
    <3>2. Head(refs) \in Lines /\ Tail(refs) \in Seq(Lines)
      BY <3>1
    <3>3. q \in Seq(Sources) /\ "important" \in Lanes
      BY <3>2 DEF Lanes
    <3>4. Collect("important", q)
      BY <2>2 DEF CollectPointer
    <3> HIDE DEF q
    <3> QED BY <1>0, <2>2, <3>2, <3>3, <3>4, CollectType DEF CollectPointer, TypeOK, Lanes
  <2>3. ASSUME NEW l \in Lanes, NEW e \in Lines, CollectThread(l, e) PROVE Typed
    <3> DEFINE q == IF Readable(e) THEN <<e>> ELSE <<>>
    <3>1. q \in Seq(Sources) /\ e.of \in Files
      BY DEF Lines
    <3>2. Collect(l, q)
      BY <2>3 DEF CollectThread
    <3> HIDE DEF q
    <3> QED BY <1>0, <2>3, <3>1, <3>2, CollectType DEF CollectThread, TypeOK, Lanes
  <2>4. ASSUME NEW l \in Lanes, NEW f \in Files, NEW p \in Parts, NEW high \in BOOLEAN,
               CollectChunk(l, f, p, high)
        PROVE  Typed
    <3> DEFINE s == Source(IF l = "content" THEN "content" ELSE "chunk", f, p)
    <3>1. s \in Sources /\ l \in {"content", "semantic"}
      BY <2>4 DEF CollectChunk
    <3> DEFINE q == <<s>>
    <3>2. q \in Seq(Sources) /\ Range(q) = {s}
      BY <3>1, RangeOne
    <3>3. Collect(l, q) /\ UNCHANGED <<named, refs, active>>
      BY <2>4 DEF CollectChunk
    <3>5. sure' = IF high THEN sure \union {s} ELSE sure
      BY <2>4 DEF CollectChunk
    <3> HIDE DEF s, q
    <3>6. /\ \A k \in Lanes : Range(lanes[k]) \subseteq Range(lanes'[k])
          /\ s \in Range(lanes'[l])
      <4>1. /\ \A k \in Lanes : Range(lanes[k]) \subseteq Range(lanes'[k])
            /\ Range(lanes'[l]) = Range(lanes[l]) \union Range(q)
        BY <1>0, <3>2, <3>3, CollectType
      <4> QED BY <3>2, <4>1
    <3>7. sure \subseteq Chunks
      BY <1>0 DEF TypeOK
    <3>4. sure' \subseteq Chunks'
      BY <3>1, <3>5, <3>6, <3>7 DEF Lanes
    <3> QED BY <1>0, <3>2, <3>3, <3>4, CollectType DEF TypeOK
  <2>5. ASSUME NEW l \in Lanes, NEW f \in Files, CollectFile(l, f) PROVE Typed
    <3> DEFINE s == Source(IF l = "date" THEN "date" ELSE "file", f, Whole)
    <3>1. <<s>> \in Seq(Sources)
      BY <1>0
    <3>2. Collect(l, <<s>>) /\ UNCHANGED <<named, refs, active, sure>>
      BY <2>5 DEF CollectFile
    <3> HIDE DEF s
    <3> QED BY <1>0, <3>1, <3>2, CollectType DEF TypeOK, Lanes
  <2> QED BY <2>1, <2>2, <2>3, <2>4, <2>5
<1>3. TypeOK'
  BY <1>0, <1>1, <1>2 DEF TypeOK
<1>4. DemoteInv' /\ DedupeInv'
  BY <1>1 DEF ContextInv, DemoteInv, DedupeInv
<1>5. TrimInv'
  BY <1>1 DEF ContextInv, TrimInv, Fits, Size, WithinBudget
<1> QED BY <1>3, <1>4, <1>5 DEF ContextInv

LEMMA EndLaneStep ==
  ASSUME ContextInv, EndLane
  PROVE  ContextInv'
<1>1. /\ pc = "collect" /\ pc' \in {"collect", "demote"} /\ lane' \in 1 .. 7
      /\ UNCHANGED <<missing, named, refs, active, sure, lanes>>
      /\ UNCHANGED <<standing, canon, merged, unique, next, kept, total>>
  <2>1. Len(Order) = 7
    BY DEF Order
  <2> QED BY <2>1 DEF ContextInv, TypeOK, EndLane
<1>2. TypeOK'
  BY <1>1 DEF ContextInv, TypeOK
<1>3. DemoteInv'
  <2>1. Lexical' = Lexical
    BY <1>1 DEF Lexical
  <2>2. Lexical \in Seq(Sources) /\ next = 1
    BY <1>1, LexicalType DEF ContextInv, DemoteInv
  <2> QED BY <1>1, <2>1, <2>2 DEF DemoteInv, Demoted
<1>4. DedupeInv' /\ TrimInv'
  BY <1>1 DEF ContextInv, DedupeInv, TrimInv, Fits, Size, WithinBudget
<1> QED BY <1>2, <1>3, <1>4 DEF ContextInv

LEMMA DemoteStep ==
  ASSUME ContextInv, Demote
  PROVE  ContextInv'
<1>1. /\ pc = "demote" /\ pc' = pc /\ next <= Len(Lexical) /\ next' = next + 1
      /\ UNCHANGED <<missing, lane, named, refs, active, sure, lanes, canon, merged, unique>>
      /\ UNCHANGED <<kept, total>>
  BY DEF Demote, found
<1>0. Lexical \in Seq(Sources) /\ next \in Nat \ {0} /\ Demoted(next - 1)
  BY <1>1, LexicalType DEF ContextInv, TypeOK, DemoteInv
<1>2. Lexical \in Seq(Sources) /\ Lexical' = Lexical /\ next \in 1 .. Len(Lexical)
  <2>1. Lexical' = Lexical
    BY <1>1 DEF Lexical
  <2>2. Len(Lexical) \in Nat
    BY <1>0
  <2> QED BY <1>0, <1>1, <2>1, <2>2
<1>3. Lexical[next] \in Sources
  BY <1>2
<1>4. standing' \in Seq(Sources) /\ Range(standing) \subseteq Range(standing')
  BY <1>3, RangeAppend DEF ContextInv, TypeOK, Demote
<1>5. Lexical[next] \in Range(standing') \/ \E c \in sure : c.of = Lexical[next].of
  BY <1>3, RangeAppend DEF ContextInv, TypeOK, Demote, FilesOf
<1>6. TypeOK'
  BY <1>1, <1>4 DEF ContextInv, TypeOK
<1>7. \A i \in 1 .. next :
        Lexical[i] \in Range(standing') \/ \E c \in sure : c.of = Lexical[i].of
  BY <1>0, <1>2, <1>4, <1>5 DEF Demoted
<1>8. DemoteInv'
  BY <1>1, <1>2, <1>7 DEF DemoteInv, Demoted
<1>9. DedupeInv' /\ TrimInv'
  BY <1>1 DEF ContextInv, DedupeInv, TrimInv, Fits, Size, WithinBudget
<1> QED BY <1>6, <1>8, <1>9 DEF ContextInv

LEMMA MergeStep ==
  ASSUME ContextInv, Merge
  PROVE  ContextInv'
<1>1. /\ pc = "demote" /\ pc' = "dedupe" /\ next > Len(Lexical) /\ next' = 1
      /\ UNCHANGED <<missing, lane, named, refs, active, sure, lanes, standing, unique>>
      /\ UNCHANGED <<kept, total>>
  BY DEF Merge, found
<1>2. Lexical \in Seq(Sources) /\ Lexical' = Lexical
  BY <1>1, LexicalType DEF ContextInv, Lexical
<1>3. /\ merged' \in Seq(Sources)
      /\ Range(standing) \subseteq Range(merged')
      /\ Range(lanes["content"]) \union Range(lanes["semantic"]) \subseteq Range(merged')
  <2>1. ASSUME NEW a \in Seq(Sources), NEW b \in Seq(Sources)
        PROVE  a \o b \in Seq(Sources) /\ Range(a \o b) = Range(a) \union Range(b)
    BY RangeConcatenation
  <2> DEFINE before == lanes["pinned"] \o lanes["date"] \o lanes["important"]
             a1 == before \o standing
             a2 == a1 \o lanes["content"]
             a3 == a2 \o lanes["semantic"]
  <2>2. /\ lanes["content"] \in Seq(Sources) /\ lanes["semantic"] \in Seq(Sources)
        /\ standing \in Seq(Sources) /\ before \in Seq(Sources)
    BY DEF ContextInv, TypeOK, Lanes
  <2>3. merged' = a3
    BY DEF Merge
  <2> HIDE DEF before
  <2>4. a1 \in Seq(Sources) /\ Range(a1) = Range(before) \union Range(standing)
    BY <2>1, <2>2
  <2> HIDE DEF a1
  <2>5. a2 \in Seq(Sources) /\ Range(a2) = Range(a1) \union Range(lanes["content"])
    BY <2>1, <2>2, <2>4
  <2> HIDE DEF a2
  <2>6. a3 \in Seq(Sources) /\ Range(a3) = Range(a2) \union Range(lanes["semantic"])
    BY <2>1, <2>2, <2>5
  <2> QED BY <2>3, <2>4, <2>5, <2>6
<1>4. canon' \subseteq Terms
  BY DEF Merge, CollectCanonAssertions
<1>5. TypeOK'
  BY <1>1, <1>3, <1>4 DEF ContextInv, TypeOK
<1>6. next - 1 = Len(Lexical)
  BY <1>1, <1>2 DEF ContextInv, TypeOK, DemoteInv
<1>7. Demoted(Len(Lexical)) /\ sure \subseteq Range(merged')
  BY <1>1, <1>3, <1>6 DEF ContextInv, TypeOK, DemoteInv
<1>8. DemoteInv'
  BY <1>1, <1>2, <1>3, <1>7 DEF DemoteInv, Demoted
<1>9. DedupeInv' /\ TrimInv'
  BY <1>1, <1>3 DEF ContextInv, DedupeInv, Deduped, TrimInv, Fits, Size, WithinBudget
<1> QED BY <1>5, <1>8, <1>9 DEF ContextInv

LEMMA DedupeStep ==
  ASSUME ContextInv, Dedupe
  PROVE  ContextInv'
<1>1. /\ pc = "dedupe" /\ pc' = pc /\ next <= Len(merged) /\ next' = next + 1
      /\ UNCHANGED <<missing, lane, named, refs, active, sure, lanes, standing, canon, merged>>
      /\ UNCHANGED <<kept, total>>
  BY DEF Dedupe, found
<1>2. /\ merged \in Seq(Sources) /\ unique \in Seq(Sources)
      /\ next \in 1 .. Len(merged) /\ merged[next] \in Sources
      /\ Deduped(next - 1)
  BY <1>1 DEF ContextInv, TypeOK, DedupeInv
<1>3. CASE merged[next] \in Range(unique)
  <2>1. unique' = unique
    BY <1>3 DEF Dedupe
  <2>2. \E i \in 1 .. Len(unique) : unique[i] = merged[next]
    BY <1>2, <1>3, RangeByIndex
  <2>3. Deduped(next)
    <3>1. /\ \A i \in 1 .. Len(unique) : \E h \in 1 .. next - 1 : merged[h] = unique[i]
          /\ \A h \in 1 .. next - 1 : \E i \in 1 .. Len(unique) : unique[i] = merged[h]
      BY <1>2 DEF Deduped
    <3>2. 1 .. next - 1 \subseteq 1 .. next /\ \A h \in 1 .. next : h = next \/ h \in 1 .. next - 1
      BY <1>2
    <3>3. \A i \in 1 .. Len(unique) : \E h \in 1 .. next : merged[h] = unique[i]
      BY <3>1, <3>2
    <3>4. \A h \in 1 .. next : \E i \in 1 .. Len(unique) : unique[i] = merged[h]
      BY <2>2, <3>1, <3>2
    <3> QED BY <1>2, <3>3, <3>4 DEF Deduped
  <2>4. TypeOK' /\ DedupeInv'
    BY <1>1, <1>2, <2>1, <2>3 DEF ContextInv, TypeOK, DedupeInv, Deduped
  <2>5. TrimInv' /\ DemoteInv'
    BY <1>1, <2>1 DEF ContextInv, TrimInv, DemoteInv, Demoted, Lexical, Fits, Size, WithinBudget
  <2> QED BY <2>4, <2>5 DEF ContextInv
<1>4. CASE merged[next] \notin Range(unique)
  <2> DEFINE n == Len(unique) + 1
  <2>1. unique' = Append(unique, merged[next])
    BY <1>4 DEF Dedupe
  <2>2. /\ unique' \in Seq(Sources) /\ Len(unique') = n /\ unique'[n] = merged[next]
        /\ \A i \in 1 .. Len(unique) : unique'[i] = unique[i]
    BY <1>2, <2>1
  <2>3. \A i \in 1 .. Len(unique) : unique[i] # merged[next]
    BY <1>2, <1>4, RangeByIndex
  <2>4. /\ \A i \in 1 .. n : \E h \in 1 .. next : merged[h] = unique'[i]
        /\ \A h \in 1 .. next : \E i \in 1 .. n : unique'[i] = merged[h]
    <3>1. /\ \A i \in 1 .. Len(unique) : \E h \in 1 .. next - 1 : merged[h] = unique[i]
          /\ \A h \in 1 .. next - 1 : \E i \in 1 .. Len(unique) : unique[i] = merged[h]
      BY <1>2 DEF Deduped
    <3>2. ASSUME NEW i \in 1 .. n PROVE \E h \in 1 .. next : merged[h] = unique'[i]
      <4>1. CASE i = n
        BY <1>2, <2>2, <4>1
      <4>2. CASE i # n
        <5>1. i \in 1 .. Len(unique)
          BY <1>2, <4>2
        <5>2. PICK h \in 1 .. next - 1 : merged[h] = unique[i]
          BY <3>1, <5>1
        <5> QED BY <1>2, <2>2, <5>1, <5>2
      <4> QED BY <4>1, <4>2
    <3>3. ASSUME NEW h \in 1 .. next PROVE \E i \in 1 .. n : unique'[i] = merged[h]
      <4>1. CASE h = next
        BY <1>2, <2>2, <4>1
      <4>2. CASE h # next
        <5>1. h \in 1 .. next - 1
          BY <1>2, <4>2
        <5>2. PICK i \in 1 .. Len(unique) : unique[i] = merged[h]
          BY <3>1, <5>1
        <5>3. unique'[i] = merged[h] /\ i \in 1 .. n
          BY <1>2, <2>2, <5>2
        <5> QED BY <5>3
      <4> QED BY <4>1, <4>2
    <3> QED BY <3>2, <3>3
  <2>5. ASSUME NEW i \in 1 .. n, NEW j \in 1 .. n, i < j
        PROVE  /\ unique'[i] # unique'[j]
               /\ \A k \in 1 .. Len(merged) :
                    merged[k] = unique'[j] => \E h \in 1 .. k : merged[h] = unique'[i]
    <3>1. CASE j < n
      <4>1. i \in 1 .. Len(unique) /\ j \in 1 .. Len(unique)
        BY <1>2, <2>5, <3>1
      <4>2. unique'[i] = unique[i] /\ unique'[j] = unique[j]
        BY <2>2, <4>1
      <4> QED BY <1>2, <2>5, <4>1, <4>2 DEF Deduped
    <3>2. CASE j = n
      <4>1. unique'[i] = unique[i] /\ i \in 1 .. Len(unique)
        BY <1>2, <2>2, <2>5, <3>2
      <4>2. PICK h \in 1 .. next - 1 : merged[h] = unique[i]
        BY <1>2, <4>1 DEF Deduped
      <4>3. ASSUME NEW k \in 1 .. Len(merged), merged[k] = unique'[j]
            PROVE  k >= next
        <5>1. SUFFICES ASSUME k <= next - 1 PROVE FALSE
          BY <1>2
        <5>2. PICK m \in 1 .. Len(unique) : unique[m] = merged[k]
          BY <1>2, <5>1 DEF Deduped
        <5> QED BY <2>2, <2>3, <3>2, <4>3, <5>2
      <4> QED BY <1>2, <2>2, <2>3, <3>2, <4>1, <4>2, <4>3
    <3> QED BY <1>2, <2>5, <3>1, <3>2
  <2>6. TypeOK'
    BY <1>1, <2>2 DEF ContextInv, TypeOK
  <2>7. DedupeInv'
    BY <1>1, <1>2, <2>2, <2>4, <2>5 DEF DedupeInv, Deduped
  <2>8. DemoteInv'
    BY <1>1 DEF ContextInv, DemoteInv, Demoted, Lexical
  <2>9. TrimInv'
    BY <1>1, <1>2, <2>2 DEF ContextInv, TypeOK, TrimInv, WithinBudget
  <2> QED BY <2>6, <2>7, <2>8, <2>9 DEF ContextInv
<1> QED BY <1>3, <1>4

LEMMA EndDedupeStep ==
  ASSUME ContextInv, EndDedupe
  PROVE  ContextInv'
<1>1. /\ pc = "dedupe" /\ pc' = "trim" /\ next > Len(merged) /\ next' = 1
      /\ UNCHANGED <<missing, lane, named, refs, active, sure, lanes, standing, canon, merged>>
      /\ UNCHANGED <<unique, kept, total>>
  BY DEF EndDedupe, found
<1>2. next - 1 = Len(merged) /\ kept = <<>>
  BY <1>1 DEF ContextInv, TypeOK, DedupeInv, TrimInv
<1>3. Deduped(Len(merged))
  BY <1>1, <1>2 DEF ContextInv, DedupeInv
<1>4. TypeOK'
  BY <1>1 DEF ContextInv, TypeOK
<1>5. DedupeInv'
  BY <1>1, <1>3 DEF DedupeInv, Deduped
<1>6. DemoteInv'
  BY <1>1 DEF ContextInv, DemoteInv, Demoted, Lexical
<1>7. TrimInv'
  BY <1>1, <1>2 DEF ContextInv, TrimInv, WithinBudget
<1> QED BY <1>4, <1>5, <1>6, <1>7 DEF ContextInv

LEMMA TrimStep ==
  ASSUME ContextInv, Trim
  PROVE  ContextInv'
<1>1. /\ pc = "trim" /\ pc' = pc /\ next' = next + 1 /\ Fits
      /\ kept' = Append(kept, unique[next]) /\ total' = total + Size(unique[next])
      /\ UNCHANGED <<missing, lane, named, refs, active, sure, lanes, standing, canon, merged>>
      /\ UNCHANGED unique
  BY DEF Trim, found
<1>2. /\ kept \in Seq(Sources) /\ unique \in Seq(Sources) /\ total \in Nat
      /\ next = Len(kept) + 1 /\ next \in 1 .. Len(unique) /\ unique[next] \in Sources
      /\ \A i \in 1 .. Len(kept) : kept[i] = unique[i]
      /\ kept = <<>> => total = 0
  BY <1>1 DEF ContextInv, TypeOK, TrimInv, Fits
<1>3. /\ Size(unique[next]) \in Nat
      /\ unique[next].kind # "term" => Size(unique[next]) <= MaxChars
  BY <1>2, SizeType
<1>4. /\ kept' \in Seq(Sources) /\ Len(kept') = next /\ kept'[next] = unique[next]
      /\ \A i \in 1 .. Len(kept) : kept'[i] = kept[i]
  BY <1>1, <1>2
<1>5. TypeOK'
  BY <1>1, <1>2, <1>3, <1>4 DEF ContextInv, TypeOK
<1>6. WithinBudget'
  <2>1. CASE kept = <<>>
    BY <1>1, <1>2, <1>3, <1>4, <2>1, ContextAssumption DEF WithinBudget
  <2>2. CASE kept # <<>>
    BY <1>1, <2>2 DEF WithinBudget, Fits
  <2> QED BY <2>1, <2>2
<1>7. \A i \in 1 .. Len(kept') : kept'[i] = unique[i]
  BY <1>2, <1>4
<1>8. TrimInv'
  BY <1>1, <1>2, <1>4, <1>6, <1>7 DEF TrimInv
<1>9. DemoteInv'
  BY <1>1 DEF ContextInv, DemoteInv, Demoted, Lexical
<1>10. DedupeInv'
  BY <1>1 DEF ContextInv, DedupeInv, Deduped
<1> QED BY <1>5, <1>8, <1>9, <1>10 DEF ContextInv

LEMMA EndTrimStep ==
  ASSUME ContextInv, EndTrim
  PROVE  ContextInv'
<1>1. /\ pc = "trim" /\ pc' = "done" /\ ~Fits
      /\ UNCHANGED <<missing, lane, named, refs, active, sure, lanes, standing, canon, merged>>
      /\ UNCHANGED <<unique, next, kept, total>>
  BY DEF EndTrim, found
<1>2. TypeOK'
  BY <1>1 DEF ContextInv, TypeOK
<1>3. DemoteInv'
  BY <1>1 DEF ContextInv, DemoteInv, Demoted, Lexical
<1>4. DedupeInv'
  BY <1>1 DEF ContextInv, DedupeInv, Deduped
<1>5. TrimInv'
  BY <1>1 DEF ContextInv, TrimInv, Fits, Size, WithinBudget
<1> QED BY <1>2, <1>3, <1>4, <1>5 DEF ContextInv

LEMMA StepInv == ContextInv /\ [Next]_vars => ContextInv'
<1> SUFFICES ASSUME ContextInv, [Next]_vars PROVE ContextInv'
  OBVIOUS
<1>1. CASE UNCHANGED vars
  <2>1. ContextInv' <=> ContextInv
    BY <1>1 DEF vars, found, ContextInv, TypeOK, DemoteInv, Demoted, Lexical, DedupeInv, Deduped,
                TrimInv, Fits, Size, WithinBudget
  <2> QED BY <2>1
<1>2. CASE Next
  BY <1>2, CollectStep, EndLaneStep, DemoteStep, MergeStep, DedupeStep, EndDedupeStep, TrimStep,
     EndTrimStep DEF Next
<1> QED BY <1>1, <1>2

LEMMA Invariant == Spec => []ContextInv
BY InitInv, StepInv, PTL DEF Spec
-----------------------------------------------------------------------------
(* Every variable keeps its type.                                          *)
THEOREM TypeCorrect == Spec => []TypeOK
<1>1. ContextInv => TypeOK
  BY DEF ContextInv
<1> QED BY <1>1, Invariant, PTL

(* dedupeMemoryExcerpts keeps each source once, in the place of the most   *)
(* important lane that found it.                                           *)
THEOREM DedupeKeepsFirst == Spec => []FirstOfEachSource
<1>1. ASSUME ContextInv, pc \in {"trim", "done"}
      PROVE  FirstOfEachSource
  <2>1. Deduped(Len(merged)) /\ unique \in Seq(Sources) /\ merged \in Seq(Sources)
    BY <1>1 DEF ContextInv, TypeOK, DedupeInv
  <2>2. Range(unique) = Range(merged)
    BY <2>1, DedupedRange
  <2>3. DOMAIN unique = 1 .. Len(unique) /\ DOMAIN merged = 1 .. Len(merged)
    BY <2>1
  <2> QED BY <2>1, <2>2, <2>3 DEF FirstOfEachSource, Deduped
<1>2. ContextInv => FirstOfEachSource
  BY <1>1 DEF FirstOfEachSource
<1> QED BY <1>2, Invariant, PTL

(* Demotion never takes a file out of what is merged.                      *)
THEOREM DemotionIsCovered == Spec => []DemotedHasChunk
<1>1. ASSUME ContextInv, pc \in {"trim", "done"},
             NEW s \in Range(lanes["sync"]) \union Range(lanes["deferred"])
      PROVE  s \in Range(unique) \/ \E c \in sure \intersect Range(unique) : c.of = s.of
  <2>1. Range(unique) = Range(merged)
    BY <1>1, DedupedRange DEF ContextInv, TypeOK, DedupeInv
  <2>2. Range(standing) \subseteq Range(unique) /\ sure \subseteq Range(unique)
        /\ Demoted(Len(Lexical))
    BY <1>1, <2>1 DEF ContextInv, DemoteInv
  <2>3. Lexical \in Seq(Sources) /\ s \in Range(Lexical)
    BY <1>1, LexicalType DEF ContextInv
  <2>4. PICK i \in 1 .. Len(Lexical) : s = Lexical[i]
    BY <2>3, RangeByIndex
  <2> QED BY <2>2, <2>4 DEF Demoted
<1>2. ContextInv => DemotedHasChunk
  BY <1>1 DEF DemotedHasChunk
<1> QED BY <1>2, Invariant, PTL

(* The block is a beginning of the priority order, as long as it can be.   *)
THEOREM PriorityIsKept == Spec => []PriorityKept
<1>1. ASSUME ContextInv, pc = "done"
      PROVE  /\ kept = SubSeq(unique, 1, Len(kept))
             /\ Len(kept) < Len(unique) =>
                  kept # <<>> /\ total + Size(unique[Len(kept) + 1]) > MaxChars
  <2>1. /\ kept \in Seq(Sources) /\ unique \in Seq(Sources) /\ total \in Nat
        /\ Len(kept) <= Len(unique) /\ next = Len(kept) + 1 /\ ~Fits
        /\ \A i \in 1 .. Len(kept) : kept[i] = unique[i]
    BY <1>1 DEF ContextInv, TypeOK, TrimInv
  <2>2. kept = SubSeq(unique, 1, Len(kept))
    BY <2>1
  <2>3. ASSUME Len(kept) < Len(unique)
        PROVE  kept # <<>> /\ total + Size(unique[Len(kept) + 1]) > MaxChars
    <3>1. unique[next] \in Sources
      BY <2>1, <2>3
    <3>2. Size(unique[next]) \in Nat
      BY <3>1, SizeType
    <3> QED BY <2>1, <2>3, <3>2, ContextAssumption DEF Fits
  <2> QED BY <2>2, <2>3
<1>2. ContextInv => PriorityKept
  BY <1>1 DEF PriorityKept
<1> QED BY <1>2, Invariant, PTL

(* The total is the sum of what is in the block.                           *)
Counted == \E sum : Sums(sum, kept) /\ total = sum[Len(kept)]

LEMMA CountedStep == ContextInv /\ Counted /\ [Next]_vars => Counted'
<1> SUFFICES ASSUME ContextInv, Counted, [Next]_vars PROVE Counted'
  OBVIOUS
<1>1. CASE Trim
  <2>1. kept \in Seq(Sources) /\ unique[next] \in Sources /\ Len(kept) \in Nat
    BY <1>1 DEF ContextInv, TypeOK, Trim, Fits
  <2>2. PICK sum : Sums(sum, kept) /\ total = sum[Len(kept)]
    BY DEF Counted
  <2>3. PICK more : Sums(more, Append(kept, unique[next]))
                    /\ more[Len(kept) + 1] = total + Size(unique[next])
    BY <2>1, <2>2, SumsAppend
  <2>4. kept' = Append(kept, unique[next]) /\ total' = total + Size(unique[next]) /\ Len(kept') = Len(kept) + 1
    BY <1>1, <2>1 DEF Trim
  <2>5. QED BY <2>3, <2>4 DEF Counted
<1>2. CASE UNCHANGED <<kept, total>>
  BY <1>2 DEF Counted
<1>3. Trim \/ UNCHANGED <<kept, total>>
  BY DEF Next, vars, CollectImportant, CollectPointer, CollectThread, CollectChunk, CollectFile,
         Collect, EndLane, Demote, Merge, Dedupe, EndDedupe, EndTrim
<1>4. QED BY <1>1, <1>2, <1>3

(* At every moment of the trim the block is within the budget, or is one   *)
(* canon summary, and the characters counted are those of the excerpts in  *)
(* it.                                                                     *)
THEOREM BudgetIsKept == Spec => []BudgetKept
<1>1. Init => Counted
  <2>1. Sums([n \in {0} |-> 0], <<>>) /\ Len(<<>>) = 0 /\ {0} = 0 .. 0
    BY DEF Sums
  <2>2. QED BY <2>1 DEF Init, Counted
<1>2. ContextInv /\ Counted => BudgetKept
  <2> SUFFICES ASSUME ContextInv, Counted PROVE BudgetKept
    OBVIOUS
  <2>1. WithinBudget /\ Len(kept) \in Nat
    BY DEF ContextInv, TypeOK, TrimInv
  <2>2. QED BY <2>1, SumsGive DEF BudgetKept, Counted
<1> QED BY <1>1, <1>2, CountedStep, Invariant, PTL DEF Spec
=============================================================================
