---------------------------- MODULE ContextBlock ----------------------------
(***************************************************************************)
(* The assembly of the memory context a turn injects (src/memory.ts, from  *)
(* the collectors to the character budget, and the canon overlay of        *)
(* src/memory-rank.ts). Excerpts are collected lane by lane, lexical ones  *)
(* of a file a chunk already covers are demoted, the lanes are merged in   *)
(* the order of their priority, doubles are dropped and the rest is        *)
(* trimmed. The loops are taken one excerpt at a time.                     *)
(*                                                                         *)
(* An excerpt is its source, the key the code compares it by: the kind of  *)
(* the row, the file or canon entry it is of, and which lines or chunk.    *)
(***************************************************************************)
EXTENDS Naturals, Sequences, SequencesExt, FiniteSets

CONSTANTS
  Files,          \* memory files
  Terms,          \* entries of the important index (canon)
  Parts,          \* line ranges and chunks of a file
  PointsTo,       \* PointsTo[t]: the line ranges entry t lists
  Summarised,     \* entries that have a summary
  LengthOf,       \* LengthOf[s]: the characters of an excerpt before clipping
  MaxImportant,   \* MEMORY_MAX_IMPORTANT_MATCHES (8)
  MaxExcerpt,     \* MEMORY_MAX_EXCERPT_CHARS (3500)
  MaxChars,       \* MEMORY_MAX_INJECTION_CHARS (8000)
  MaxFound        \* bound: rows the collectors are given in a behaviour

Kinds == {"lines", "content", "chunk", "date", "file", "term"}
Whole == 0
Source(kind, of, part) == [kind |-> kind, of |-> of, part |-> part]
Sources == [kind : Kinds, of : Files \union Terms, part : Parts \union {Whole}]
Lines == [kind : {"lines"}, of : Files, part : Parts]

ASSUME ContextAssumption ==
  /\ Files \intersect Terms = {}
  /\ PointsTo \in [Terms -> Seq(Lines)]
  /\ Summarised \subseteq Terms
  /\ LengthOf \in [Sources -> Nat]
  /\ MaxImportant \in Nat /\ MaxFound \in Nat
  /\ MaxExcerpt \in Nat /\ MaxChars \in Nat /\ 20 <= MaxExcerpt /\ MaxExcerpt <= MaxChars

VARIABLES
  pc,             \* where the assembly is
  missing,        \* files the index names that are not on the disk
  lane,           \* the lane being collected
  named,          \* importantMatches: entries the prompt names
  refs,           \* what the last of them points to and is still to be read
  active,         \* files of the threads injected this turn
  sure,           \* chunks above the demotion threshold
  lanes,          \* lanes[l]: the excerpts of the lane
  standing,       \* syncExcerpts and deferredExcerpts, demoted ones left out
  canon,          \* canonAssertions
  merged,         \* the lanes in order of priority
  unique,         \* merged without doubles
  next,           \* position of the loop under way
  kept,           \* the excerpts of the block
  total           \* their characters

found == <<missing, lane, named, refs, active, sure, lanes>>
vars == <<pc, found, standing, canon, merged, unique, next, kept, total>>

(* The code collects the lanes after it knows the active files, which here *)
(* the sync lane gives; otherwise their order does not matter, as the files*)
(* are taken not to change during one assembly.                            *)
Order == <<"important", "sync", "content", "semantic", "date", "pinned", "deferred">>
Lanes == {"important", "sync", "content", "semantic", "date", "pinned", "deferred"}
Collected == Len(lanes["important"]) + Len(lanes["sync"]) + Len(lanes["content"])
               + Len(lanes["semantic"]) + Len(lanes["date"]) + Len(lanes["pinned"])
               + Len(lanes["deferred"])

\* A variant with a bug: nothing is clipped.
SizeUnclipped(s) == LengthOf[s]

(* clipMemoryExcerpt: 20 characters make room for a mark of 13 (blanks at  *)
(* the cut, which go too, are left out). The summaries of canon entries    *)
(* are not clipped.                                                        *)
Size(s) ==
  IF s.kind # "term" /\ LengthOf[s] > MaxExcerpt THEN MaxExcerpt - 7 ELSE LengthOf[s]

(* readMemoryFileExcerpt gives nothing for a file that is not there.       *)
Readable(s) == s.of \notin missing
-----------------------------------------------------------------------------
Init ==
  /\ pc = "collect"
  /\ missing \in SUBSET Files
  /\ lane = 1
  /\ named = {} /\ refs = <<>> /\ active = {} /\ sure = {}
  /\ lanes = [l \in Lanes |-> <<>>]
  /\ standing = <<>> /\ canon = {} /\ merged = <<>> /\ unique = <<>> /\ next = 1
  /\ kept = <<>> /\ total = 0

Collecting(l) == pc = "collect" /\ Order[lane] = l /\ Collected < MaxFound
Collect(l, excerpts) ==
  /\ lanes' = [lanes EXCEPT ![l] = @ \o excerpts]
  /\ UNCHANGED <<pc, missing, lane, standing, canon, merged, unique, next, kept, total>>

(* collectMemoryImportantExcerpts, for an entry matchMemoryImportantTerms  *)
(* found: its summary, and then one by one the excerpts it points to.      *)
CollectImportant(t) ==
  /\ Collecting("important") /\ refs = <<>>
  /\ t \notin named /\ Cardinality(named) < MaxImportant
  /\ named' = named \union {t}
  /\ refs' = PointsTo[t]
  /\ Collect("important", IF t \in Summarised THEN <<Source("term", t, Whole)>> ELSE <<>>)
  /\ UNCHANGED <<active, sure>>
CollectPointer ==
  /\ pc = "collect" /\ refs # <<>>
  /\ refs' = Tail(refs)
  /\ Collect("important", IF Readable(Head(refs)) THEN <<Head(refs)>> ELSE <<>>)
  /\ UNCHANGED <<named, active, sure>>

(* collectMemorySyncExcerpts: an entry of a ranked or of a queued thread.  *)
(* The file of a ranked one is active whether it can be read or not. Only  *)
(* entries that change something are taken.                                *)
CollectThread(l, e) ==
  /\ l \in {"sync", "deferred"} /\ Collecting(l)
  /\ active' = IF l = "sync" THEN active \union {e.of} ELSE active
  /\ Collect(l, IF Readable(e) THEN <<e>> ELSE <<>>)
  /\ Readable(e) \/ (l = "sync" /\ e.of \notin active)
  /\ UNCHANGED <<named, refs, sure>>

(* collectMemoryContentExcerpts and collectMemorySemanticExcerpts: a chunk,*)
(* which may be above the demotion threshold. The semantic source is not   *)
(* asked without active files; which files it answers for is MemorySource. *)
CollectChunk(l, f, p, high) ==
  LET s == Source(IF l = "content" THEN "content" ELSE "chunk", f, p)
  IN  /\ l \in {"content", "semantic"} /\ Collecting(l)
      /\ s \notin Range(lanes[l])
      /\ l = "semantic" => active # {}
      /\ sure' = IF high THEN sure \union {s} ELSE sure
      /\ Collect(l, <<s>>)
      /\ UNCHANGED <<named, refs, active>>

(* collectMemoryDateExcerpts and collectMemoryPinnedExcerpts.              *)
CollectFile(l, f) ==
  LET s == Source(IF l = "date" THEN "date" ELSE "file", f, Whole)
  IN  /\ l \in {"date", "pinned"} /\ Collecting(l)
      /\ s \notin Range(lanes[l])
      /\ l = "pinned" => Readable(s)
      /\ Collect(l, <<s>>)
      /\ UNCHANGED <<named, refs, active, sure>>

EndLane ==
  /\ pc = "collect" /\ refs = <<>>
  /\ IF lane < Len(Order) THEN lane' = lane + 1 /\ pc' = pc ELSE lane' = lane /\ pc' = "demote"
  /\ UNCHANGED <<missing, named, refs, active, sure, lanes>>
  /\ UNCHANGED <<standing, canon, merged, unique, next, kept, total>>

Lexical == lanes["sync"] \o lanes["deferred"]
FilesOf(excerpts) == {s.of : s \in excerpts}

\* A variant with a bug: any chunk demotes, above the threshold or not.
DemoteByAny ==
  /\ pc = "demote" /\ next <= Len(Lexical)
  /\ standing' = IF Lexical[next].of \in FilesOf(Range(lanes["content"] \o lanes["semantic"]))
                 THEN standing ELSE Append(standing, Lexical[next])
  /\ next' = next + 1
  /\ UNCHANGED <<pc, found, canon, merged, unique, kept, total>>

(* The filters that make syncExcerpts and deferredExcerpts: excerpts of a  *)
(* file a high-confidence chunk covers are left out.                       *)
Demote ==
  /\ pc = "demote" /\ next <= Len(Lexical)
  /\ standing' = IF Lexical[next].of \in FilesOf(sure) THEN standing
                 ELSE Append(standing, Lexical[next])
  /\ next' = next + 1
  /\ UNCHANGED <<pc, found, canon, merged, unique, kept, total>>

(* collectCanonAssertions: entries the prompt does not name that point     *)
(* into an active file.                                                    *)
Touching(t) == \E e \in Range(PointsTo[t]) : e.of \in active
CollectCanonAssertions == {t \in Terms \ named : Touching(t)}

Merge ==
  /\ pc = "demote" /\ next > Len(Lexical)
  /\ pc' = "dedupe" /\ next' = 1
  /\ canon' = CollectCanonAssertions
  /\ merged' = lanes["pinned"] \o lanes["date"] \o lanes["important"] \o standing
                 \o lanes["content"] \o lanes["semantic"]
  /\ UNCHANGED <<found, standing, unique, kept, total>>

\* A variant with a bug: one excerpt of each file.
DedupeByFile ==
  /\ pc = "dedupe" /\ next <= Len(merged)
  /\ unique' = IF merged[next].of \in {s.of : s \in Range(unique)} THEN unique
               ELSE Append(unique, merged[next])
  /\ next' = next + 1
  /\ UNCHANGED <<pc, found, standing, canon, merged, kept, total>>

(* The loop of dedupeMemoryExcerpts.                                       *)
Dedupe ==
  /\ pc = "dedupe" /\ next <= Len(merged)
  /\ unique' = IF merged[next] \in Range(unique) THEN unique ELSE Append(unique, merged[next])
  /\ next' = next + 1
  /\ UNCHANGED <<pc, found, standing, canon, merged, kept, total>>

EndDedupe ==
  /\ pc = "dedupe" /\ next > Len(merged)
  /\ pc' = "trim" /\ next' = 1
  /\ UNCHANGED <<found, standing, canon, merged, unique, kept, total>>

Fits == next <= Len(unique) /\ (total + Size(unique[next]) <= MaxChars \/ kept = <<>>)

\* A variant with a bug: what does not fit is skipped and the loop goes on.
TrimSkipping ==
  /\ pc = "trim" /\ next <= Len(unique)
  /\ IF Fits
     THEN kept' = Append(kept, unique[next]) /\ total' = total + Size(unique[next])
     ELSE UNCHANGED <<kept, total>>
  /\ next' = next + 1
  /\ UNCHANGED <<pc, found, standing, canon, merged, unique>>

(* The loop of trimMemoryExcerptsToBudget, left at the first excerpt that  *)
(* does not fit. The first excerpt always does.                            *)
Trim ==
  /\ pc = "trim" /\ Fits
  /\ kept' = Append(kept, unique[next])
  /\ total' = total + Size(unique[next])
  /\ next' = next + 1
  /\ UNCHANGED <<pc, found, standing, canon, merged, unique>>
EndTrim ==
  /\ pc = "trim" /\ ~Fits
  /\ pc' = "done"
  /\ UNCHANGED <<found, standing, canon, merged, unique, next, kept, total>>

Next ==
  \/ \E t \in Terms : CollectImportant(t)
  \/ CollectPointer
  \/ \E l \in Lanes, e \in Lines : CollectThread(l, e)
  \/ \E l \in Lanes, f \in Files, p \in Parts, high \in BOOLEAN : CollectChunk(l, f, p, high)
  \/ \E l \in Lanes, f \in Files : CollectFile(l, f)
  \/ EndLane
  \/ Demote \/ Merge
  \/ Dedupe \/ EndDedupe
  \/ Trim \/ EndTrim

Spec == Init /\ [][Next]_vars
-----------------------------------------------------------------------------
TypeOK ==
  /\ pc \in {"collect", "demote", "dedupe", "trim", "done"}
  /\ missing \subseteq Files /\ lane \in 1 .. 7
  /\ named \subseteq Terms /\ refs \in Seq(Lines) /\ active \subseteq Files
  /\ sure \subseteq Range(lanes["content"]) \union Range(lanes["semantic"])
  /\ lanes \in [Lanes -> Seq(Sources)]
  /\ standing \in Seq(Sources) /\ canon \subseteq Terms
  /\ merged \in Seq(Sources) /\ unique \in Seq(Sources)
  /\ next \in Nat \ {0}
  /\ kept \in Seq(Sources) /\ total \in Nat

(* Every source that was merged is in the result once, and one merged      *)
(* before another for the first time is before it: a file that several     *)
(* lanes found keeps the place of the most important of them.              *)
FirstOfEachSource ==
  pc \in {"trim", "done"} =>
    /\ Range(unique) = Range(merged)
    /\ \A i, j \in DOMAIN unique : i < j =>
         /\ unique[i] # unique[j]
         /\ \A k \in DOMAIN merged : merged[k] = unique[j] => \E h \in 1 .. k : merged[h] = unique[i]

(* Up to the budget, demotion loses nothing: a lexical excerpt that was    *)
(* collected is there, or a high-confidence chunk of its file is.          *)
DemotedHasChunk ==
  pc \in {"trim", "done"} =>
    \A s \in Range(lanes["sync"]) \union Range(lanes["deferred"]) :
      \/ s \in Range(unique)
      \/ \E c \in sure \intersect Range(unique) : c.of = s.of

(* Nothing is shown while something of higher priority is left out, and no *)
(* room is left that the next excerpt would have fitted in.                *)
PriorityKept ==
  pc = "done" =>
    /\ kept = SubSeq(unique, 1, Len(kept))
    /\ Len(kept) < Len(unique) =>
         kept # <<>> /\ total + Size(unique[Len(kept) + 1]) > MaxChars

(* The block keeps to the budget; only a canon summary, alone, may not.    *)
Characters(excerpts) ==
  LET sum[n \in 0 .. Len(excerpts)] == IF n = 0 THEN 0 ELSE sum[n - 1] + Size(excerpts[n])
  IN  sum[Len(excerpts)]
WithinBudget == total <= MaxChars \/ (Len(kept) = 1 /\ kept[1].kind = "term")
BudgetKept == WithinBudget /\ total = Characters(kept)
=============================================================================
