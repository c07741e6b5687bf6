----------------------------- MODULE TurnLogProofs -----------------------------
(***************************************************************************)
(* Theorems about TurnLog for any sessions, spirits and bounds, with calls *)
(* that overlap anywhere, are cut off anywhere and meet midnight anywhere. *)
(***************************************************************************)
EXTENDS TurnLog, SequenceTheorems, TLAPS

-----------------------------------------------------------------------------
(* The end of a sequence.                                                  *)
LEMMA MaxOfTwo ==
  ASSUME NEW k \in Int
  PROVE  Max({1, k}) = IF k >= 1 THEN k ELSE 1
BY DEF Max

LEMMA LastOfSeq ==
  ASSUME NEW S, NEW seq \in Seq(S), NEW n \in Nat \ {0}
  PROVE  /\ LastOf(seq, n) \in Seq(S)
         /\ \E k \in Nat :
              /\ Len(LastOf(seq, n)) + k = Len(seq)
              /\ \A i \in 1 .. Len(LastOf(seq, n)) : LastOf(seq, n)[i] = seq[i + k]
<1>1. PICK k \in Nat : k + 1 = Max({1, Len(seq) - n + 1}) /\ k <= Len(seq)
  <2>1. Max({1, Len(seq) - n + 1}) = IF Len(seq) - n + 1 >= 1 THEN Len(seq) - n + 1 ELSE 1
    BY MaxOfTwo
  <2>2. Len(seq) \in Nat
    OBVIOUS
  <2>3. CASE Len(seq) - n + 1 >= 1
    <3>1. /\ Len(seq) - n \in Nat
          /\ (Len(seq) - n) + 1 = Max({1, Len(seq) - n + 1})
          /\ Len(seq) - n <= Len(seq)
      BY <2>1, <2>2, <2>3
    <3>2. QED BY <3>1
  <2>4. CASE ~(Len(seq) - n + 1 >= 1)
    BY <2>1, <2>2, <2>4, 0 \in Nat
  <2>5. QED BY <2>3, <2>4
<1>2. LastOf(seq, n) = SubSeq(seq, k + 1, Len(seq))
  BY <1>1 DEF LastOf
<1>3. Len(seq) \in Nat /\ \A i \in k + 1 .. Len(seq) : seq[i] \in S
  OBVIOUS
<1>4. /\ SubSeq(seq, k + 1, Len(seq)) \in Seq(S)
      /\ Len(SubSeq(seq, k + 1, Len(seq))) = IF k + 1 <= Len(seq) THEN Len(seq) - (k + 1) + 1 ELSE 0
      /\ \A i \in 1 .. Len(seq) - (k + 1) + 1 :
           SubSeq(seq, k + 1, Len(seq))[i] = seq[k + 1 + i - 1]
  BY <1>3, SubSeqProperties, k + 1 \in Int, Len(seq) \in Int
<1>5. Len(LastOf(seq, n)) + k = Len(seq)
  BY <1>1, <1>2, <1>3, <1>4
<1>6. ASSUME NEW i \in 1 .. Len(LastOf(seq, n))
      PROVE  LastOf(seq, n)[i] = seq[i + k]
  <2>1. i \in 1 .. Len(seq) - (k + 1) + 1 /\ k + 1 + i - 1 = i + k
    BY <1>3, <1>5
  <2>2. QED BY <2>1, <1>2, <1>4
<1>7. QED BY <1>2, <1>4, <1>5, <1>6

(* What is left of a sequence of turns keeps their order and adds none.    *)
LEMMA LastOfAscending ==
  ASSUME NEW seq \in Seq(Nat), NEW n \in Nat \ {0}
  PROVE  /\ Ascending(seq) => Ascending(LastOf(seq, n))
         /\ Range(LastOf(seq, n)) \subseteq Range(seq)
<1>1. PICK k \in Nat :
        /\ Len(LastOf(seq, n)) + k = Len(seq)
        /\ \A i \in 1 .. Len(LastOf(seq, n)) : LastOf(seq, n)[i] = seq[i + k]
  BY LastOfSeq
<1>2. LastOf(seq, n) \in Seq(Nat) /\ DOMAIN seq = 1 .. Len(seq)
  BY LastOfSeq
<1>3. DOMAIN LastOf(seq, n) = 1 .. Len(LastOf(seq, n)) /\ Len(LastOf(seq, n)) \in Nat
  BY <1>2
<1>4. \A i \in DOMAIN LastOf(seq, n) : i + k \in DOMAIN seq
  BY <1>1, <1>2, <1>3
<1>5. Range(LastOf(seq, n)) \subseteq Range(seq)
  BY <1>1, <1>3, <1>4 DEF Range
<1>6. ASSUME Ascending(seq) PROVE Ascending(LastOf(seq, n))
  BY <1>1, <1>3, <1>4, <1>6 DEF Ascending
<1>7. QED BY <1>5, <1>6

LEMMA AppendAscending ==
  ASSUME NEW seq \in Seq(Nat), NEW n \in Nat
  PROVE  /\ Append(seq, n) \in Seq(Nat)
         /\ Range(Append(seq, n)) = Range(seq) \union {n}
         /\ Ascending(seq) /\ (\A m \in Range(seq) : m < n) => Ascending(Append(seq, n))
<1>1. /\ Append(seq, n) \in Seq(Nat)
      /\ DOMAIN Append(seq, n) = 1 .. Len(seq) + 1 /\ DOMAIN seq = 1 .. Len(seq)
      /\ \A i \in 1 .. Len(seq) : Append(seq, n)[i] = seq[i]
      /\ Append(seq, n)[Len(seq) + 1] = n
  BY AppendProperties
<1>2. Len(seq) \in Nat
  OBVIOUS
<1>3. \A i \in 1 .. Len(seq) + 1 : i \in 1 .. Len(seq) \/ i = Len(seq) + 1
  BY <1>2
<1>4. Range(Append(seq, n)) = Range(seq) \union {n}
  <2>1. Range(Append(seq, n)) \subseteq Range(seq) \union {n}
    BY <1>1, <1>3 DEF Range
  <2>2. Range(seq) \union {n} \subseteq Range(Append(seq, n))
    BY <1>1, <1>2 DEF Range
  <2>3. QED BY <2>1, <2>2
<1>5. ASSUME Ascending(seq), \A m \in Range(seq) : m < n
      PROVE  Ascending(Append(seq, n))
  <2>1. \A i \in 1 .. Len(seq) : seq[i] < n
    BY <1>1, <1>5 DEF Range
  <2>2. QED BY <1>1, <1>2, <1>3, <1>5, <2>1 DEF Ascending
<1>6. QED BY <1>1, <1>4, <1>5

(* The beginning of a sequence is still there when it grows.               *)
LEMMA PrefixOfAppend ==
  ASSUME NEW seq \in Seq(Nat), NEW x \in Nat, NEW k \in 0 .. Len(seq)
  PROVE  SubSeq(Append(seq, x), 1, k) = SubSeq(seq, 1, k)
<1>1. /\ Append(seq, x) \in Seq(Nat) /\ Len(Append(seq, x)) = Len(seq) + 1
      /\ \A i \in 1 .. Len(seq) : Append(seq, x)[i] = seq[i]
  BY AppendProperties
<1>2. Len(seq) \in Nat /\ k \in Int /\ 1 \in Int /\ \A i \in 1 .. k : i \in 1 .. Len(seq)
  OBVIOUS
<1>3. /\ SubSeq(seq, 1, k) \in Seq(Nat)
      /\ Len(SubSeq(seq, 1, k)) = k
      /\ \A i \in 1 .. k : SubSeq(seq, 1, k)[i] = seq[i]
  <2>1. \A i \in 1 .. k : seq[i] \in Nat
    BY <1>2
  <2>2. /\ SubSeq(seq, 1, k) \in Seq(Nat)
        /\ Len(SubSeq(seq, 1, k)) = IF 1 <= k THEN k - 1 + 1 ELSE 0
        /\ \A i \in 1 .. k - 1 + 1 : SubSeq(seq, 1, k)[i] = seq[1 + i - 1]
    BY <1>2, <2>1, SubSeqProperties
  <2>3. QED BY <1>2, <2>2
<1>4. /\ SubSeq(Append(seq, x), 1, k) \in Seq(Nat)
      /\ Len(SubSeq(Append(seq, x), 1, k)) = k
      /\ \A i \in 1 .. k : SubSeq(Append(seq, x), 1, k)[i] = seq[i]
  <2>1. \A i \in 1 .. k : Append(seq, x)[i] \in Nat
    BY <1>1, <1>2
  <2>2. /\ SubSeq(Append(seq, x), 1, k) \in Seq(Nat)
        /\ Len(SubSeq(Append(seq, x), 1, k)) = IF 1 <= k THEN k - 1 + 1 ELSE 0
        /\ \A i \in 1 .. k - 1 + 1 : SubSeq(Append(seq, x), 1, k)[i] = Append(seq, x)[1 + i - 1]
    BY <1>2, <2>1, SubSeqProperties
  <2>3. QED BY <1>1, <1>2, <2>2
<1>5. QED BY <1>3, <1>4, SeqEqual

LEMMA NothingSummarised ==
  ASSUME NEW seq \in Seq(Nat), NEW n \in Nat \ {0}
  PROVE  LastOf(SubSeq(seq, 1, 0), n) = <<>>
<1>1. SubSeq(seq, 1, 0) = <<>>
  BY SubSeqEmpty, 1 \in Int, 0 \in Int, 0 < 1
<1>2. <<>> \in Seq(Nat) /\ Len(<<>>) = 0
  BY EmptySeq
<1>3. LastOf(<<>>, n) \in Seq(Nat) /\ \E k \in Nat : Len(LastOf(<<>>, n)) + k = 0
  BY <1>2, LastOfSeq
<1>4. Len(LastOf(<<>>, n)) \in Nat /\ Len(LastOf(<<>>, n)) = 0
  BY <1>3
<1>5. LastOf(<<>>, n) = <<>>
  BY <1>3, <1>4, EmptySeq
<1>6. QED BY <1>1, <1>5

-----------------------------------------------------------------------------
(* The shapes of what is read and written.                                 *)
LEMMA Fallbacks ==
  /\ NoLive \in Live /\ NoWindow \in Window
  /\ Emptied(NoLive) \in JsonFiles(Live) /\ Emptied(NoWindow) \in JsonFiles(Window)
<1>1. <<>> \in Seq(Nat)
  BY EmptySeq
<1>2. NoLive \in Live /\ NoWindow \in Window
  BY <1>1 DEF NoLive, NoWindow, Live, Window, NoTurn
<1>3. QED BY <1>2 DEF Emptied, JsonFiles, FileKinds

LEMMA FileTypes ==
  ASSUME NEW S, NEW file \in JsonFiles(S), NEW v \in S, NEW fallback \in S
  PROVE  /\ ReadJson(file, fallback) \in S
         /\ AfterWrite(file, v, fallback) \subseteq JsonFiles(S)
BY DEF ReadJson, AfterWrite, Whole, Torn, JsonFiles, FileKinds

LEMMA WindowType ==
  ASSUME NEW read \in Seq(Nat)
  PROVE  WindowOf(read) \in Window
<1>1. LastOf(read, MaxWindow) \in Seq(Nat)
  BY LogAssumption, LastOfSeq
<1>2. QED BY <1>1 DEF WindowOf, Window

LEMMA BaseType ==
  ASSUME NEW existing \in Live, NEW s \in Sessions
  PROVE  Base(existing, s) \in Live
BY Fallbacks DEF Base, Live

LEMMA WithTurnType ==
  ASSUME NEW base \in Live, NEW n \in Nat
  PROVE  WithTurn(base, n) \in Live
<1>1. Append(base.turns, n) \in Seq(Nat)
  BY AppendProperties DEF Live
<1>2. LastOf(Append(base.turns, n), MaxLive) \in Seq(Nat)
  BY <1>1, LastOfSeq, LogAssumption
<1>3. QED BY <1>2 DEF WithTurn, Live

(* A call under way logs the last turn of its session.                     *)
Own ==
  \A s \in Sessions : pc[s] # "idle" =>
    /\ turn[s] \in DOMAIN calls
    /\ calls[turn[s]].session = s
    /\ \A n \in DOMAIN calls : calls[n].session = s => n <= turn[s]

LEMMA CallsGrow ==
  ASSUME calls \in Seq(Call), NEW c \in Call, calls' = Append(calls, c)
  PROVE  /\ calls' \in Seq(Call) /\ Len(calls') = Len(calls) + 1
         /\ DOMAIN calls = 1 .. Len(calls) /\ DOMAIN calls' = DOMAIN calls \union {Len(calls) + 1}
         /\ \A n \in DOMAIN calls : calls'[n] = calls[n]
         /\ calls'[Len(calls) + 1] = c
         /\ Len(calls) \in Nat
<1>1. /\ calls' \in Seq(Call) /\ Len(calls') = Len(calls) + 1
      /\ \A n \in 1 .. Len(calls) : calls'[n] = calls[n]
      /\ calls'[Len(calls) + 1] = c
      /\ Len(calls) \in Nat
  BY AppendProperties
<1>2. DOMAIN calls = 1 .. Len(calls) /\ DOMAIN calls' = 1 .. Len(calls) + 1
  BY <1>1
<1>3. 1 .. Len(calls) + 1 = 1 .. Len(calls) \union {Len(calls) + 1}
  BY <1>1
<1>4. QED BY <1>1, <1>2, <1>3

LEMMA TypeInit == Init => TypeOK /\ Own
<1> SUFFICES ASSUME Init PROVE TypeOK /\ Own
  OBVIOUS
<1>1. <<>> \in Seq(Call) /\ <<>> \in Seq(Nat) /\ Len(<<>>) = 0 /\ 1 \in Days
  BY EmptySeq, LogAssumption DEF Days
<1>2. calls \in Seq(Call) /\ today \in Days
  BY <1>1 DEF Init
<1>3. /\ ledger \in [Spirits \X Days -> Seq(Nat)]
      /\ window \in [Spirits \X Days -> JsonFiles(Window)]
  BY <1>1, Fallbacks DEF Init
<1>4. live \in JsonFiles(Live) /\ markdown \in JsonFiles(Live)
  BY Fallbacks DEF Init
<1>5. /\ pc \in [Sessions -> Phases]
      /\ turn \in [Sessions -> 0 .. Len(calls)]
      /\ day \in [Sessions -> Days]
      /\ entries \in [Sessions -> Seq(Nat)]
      /\ next \in [Sessions -> Live]
  BY <1>1, Fallbacks DEF Init, Phases, NoTurn
<1>6. /\ alone \in BOOLEAN /\ sound \subseteq Spirits \X Days /\ paired \in BOOLEAN
      /\ late \subseteq 1 .. Len(calls) /\ Own
  BY DEF Init, Own
<1>7. QED BY <1>2, <1>3, <1>4, <1>5, <1>6 DEF TypeOK

LEMMA ReturnType ==
  ASSUME TypeOK, NEW s \in Sessions, Return(s), UNCHANGED calls
  PROVE  /\ pc' \in [Sessions -> Phases]
         /\ turn' \in [Sessions -> 0 .. Len(calls')]
         /\ day' \in [Sessions -> Days]
         /\ entries' \in [Sessions -> Seq(Nat)]
         /\ next' \in [Sessions -> Live]
         /\ Own => Own'
<1>1. <<>> \in Seq(Nat) /\ Len(calls) \in Nat /\ 1 \in Days
  BY EmptySeq, LogAssumption DEF Days, TypeOK
<1>2. QED BY <1>1, Fallbacks DEF Return, TypeOK, Phases, NoTurn, Own

LEMMA TypeStep == TypeOK /\ Own /\ [Next]_vars => (TypeOK /\ Own)'
<1> SUFFICES ASSUME TypeOK, Own, [Next]_vars PROVE (TypeOK /\ Own)'
  OBVIOUS
<1>1. ASSUME NEW c \in Call, LogTurn(c) PROVE (TypeOK /\ Own)'
  <2>1. /\ calls' \in Seq(Call) /\ Len(calls') = Len(calls) + 1
        /\ DOMAIN calls = 1 .. Len(calls) /\ DOMAIN calls' = DOMAIN calls \union {Len(calls) + 1}
        /\ \A n \in DOMAIN calls : calls'[n] = calls[n]
        /\ calls'[Len(calls) + 1] = c
        /\ Len(calls) \in Nat
    BY <1>1, CallsGrow DEF LogTurn, TypeOK
  <2>2. c.session \in Sessions
    BY DEF Call
  <2>3. 0 .. Len(calls) \subseteq 0 .. Len(calls') /\ 1 .. Len(calls) \subseteq 1 .. Len(calls')
        /\ Len(calls) + 1 \in 0 .. Len(calls')
    BY <2>1
  <2>4. /\ pc' \in [Sessions -> Phases]
        /\ turn' \in [Sessions -> 0 .. Len(calls')]
        /\ day' \in [Sessions -> Days]
    BY <1>1, <2>2, <2>3 DEF LogTurn, Goto, TypeOK, Phases
  <2>5. /\ alone' \in BOOLEAN /\ sound' \subseteq Spirits \X Days /\ paired' \in BOOLEAN
        /\ late' \subseteq 1 .. Len(calls')
    BY <1>1, <2>3 DEF LogTurn, AllIdle, TypeOK
  <2>6. UNCHANGED <<today, ledger, window, live, markdown, entries, next>>
    BY <1>1 DEF LogTurn, files
  <2>7. TypeOK'
    BY <2>1, <2>4, <2>5, <2>6 DEF TypeOK
  <2>8. ASSUME NEW s \in Sessions, pc'[s] # "idle"
        PROVE  /\ turn'[s] \in DOMAIN calls'
               /\ calls'[turn'[s]].session = s
               /\ \A n \in DOMAIN calls' : calls'[n].session = s => n <= turn'[s]
    <3>1. CASE s = c.session
      <4>1. turn'[s] = Len(calls) + 1
        BY <1>1, <3>1 DEF LogTurn, TypeOK
      <4>2. \A n \in DOMAIN calls' : n <= Len(calls) + 1
        BY <2>1
      <4>3. QED BY <2>1, <3>1, <4>1, <4>2
    <3>2. CASE s # c.session
      <4>1. turn'[s] = turn[s] /\ pc[s] # "idle"
        BY <1>1, <2>8, <3>2 DEF LogTurn, Goto, TypeOK
      <4>2. /\ turn[s] \in DOMAIN calls
            /\ calls[turn[s]].session = s
            /\ \A n \in DOMAIN calls : calls[n].session = s => n <= turn[s]
        BY <4>1 DEF Own
      <4>3. QED BY <2>1, <3>2, <4>1, <4>2
    <3>3. QED BY <3>1, <3>2
  <2>9. QED BY <2>7, <2>8 DEF Own
<1>2. ASSUME NEW s \in Sessions, Step(s) PROVE (TypeOK /\ Own)'
  <2>1. /\ UNCHANGED calls
        /\ \/ Return(s)
           \/ /\ UNCHANGED <<turn>>
              /\ pc[s] # "idle"
              /\ \A r \in Sessions : r # s => pc'[r] = pc[r]
    BY <1>2 DEF Step, AppendConversationLedger, ReadLedger, OpenWindow, WriteWindow, SkipLive,
         ReadLive, OpenLive, WriteLive, OpenMarkdown, WriteMarkdown, CutOff, Goto, TypeOK, call, files
  <2>2. Own'
    <3>1. CASE Return(s)
      BY <2>1, <3>1, ReturnType
    <3>2. CASE ~Return(s)
      BY <2>1, <3>2 DEF Own
    <3>3. QED BY <3>1, <3>2
  <2>3. Own /\ pc[s] # "idle" => turn[s] \in Nat /\ Path(s) \in Spirits \X Days /\ calls[turn[s]] \in Call
    BY DEF Own, TypeOK, Path, Call
  <2>4. CASE AppendConversationLedger(s)
    <3>1. turn[s] \in Nat /\ Path(s) \in Spirits \X Days
      BY <2>3, <2>4 DEF AppendConversationLedger, Goto
    <3>2. Append(ledger[Path(s)], turn[s]) \in Seq(Nat)
      BY <3>1, AppendProperties DEF TypeOK
    <3>3. ledger' \in [Spirits \X Days -> Seq(Nat)] /\ pc' \in [Sessions -> Phases]
      BY <2>4, <3>1, <3>2 DEF AppendConversationLedger, Goto, TypeOK, Phases
    <3>4. QED BY <2>2, <2>4, <3>3 DEF AppendConversationLedger, TypeOK, history
  <2>5. CASE ReadLedger(s)
    <3>1. turn[s] \in 1 .. Len(calls) /\ calls[turn[s]].spirit \in Spirits
      BY <2>3, <2>5 DEF ReadLedger, Goto, Own, TypeOK, Call
    <3>2. ledger[<<calls[turn[s]].spirit, today>>] \in Seq(Nat)
      BY <3>1 DEF TypeOK
    <3>3. /\ day' \in [Sessions -> Days] /\ entries' \in [Sessions -> Seq(Nat)]
          /\ late' \subseteq 1 .. Len(calls') /\ pc' \in [Sessions -> Phases]
      BY <2>5, <3>1, <3>2 DEF ReadLedger, Goto, TypeOK, Phases
    <3>4. QED BY <2>2, <2>5, <3>3 DEF ReadLedger, TypeOK, history, files
  <2>6. CASE OpenWindow(s)
    <3>1. window' \in [Spirits \X Days -> JsonFiles(Window)] /\ pc' \in [Sessions -> Phases]
      BY <2>6, Fallbacks DEF OpenWindow, Goto, TypeOK, Phases
    <3>2. QED BY <2>2, <2>6, <3>1 DEF OpenWindow, TypeOK, history
  <2>7. CASE WriteWindow(s)
    <3>1. PICK text \in AfterWrite(window[Path(s)], WindowOf(entries[s]), NoWindow) :
            window' = [window EXCEPT ![Path(s)] = text]
      BY <2>7 DEF WriteWindow
    <3>2. Path(s) \in Spirits \X Days
      BY <2>3, <2>7 DEF WriteWindow, Goto
    <3>3. text \in JsonFiles(Window)
      BY <3>2, FileTypes, Fallbacks, WindowType DEF TypeOK
    <3>4. <<>> \in Seq(Nat)
      BY EmptySeq
    <3>5. /\ window' \in [Spirits \X Days -> JsonFiles(Window)] /\ pc' \in [Sessions -> Phases]
          /\ entries' \in [Sessions -> Seq(Nat)]
      BY <2>7, <3>1, <3>3, <3>4 DEF WriteWindow, Goto, TypeOK, Phases
    <3>6. sound' \subseteq Spirits \X Days
      BY <2>7, <3>2 DEF WriteWindow, TypeOK
    <3>7. QED BY <2>2, <2>7, <3>5, <3>6 DEF WriteWindow, TypeOK
  <2>8. CASE SkipLive(s)
    BY <2>2, <2>8, ReturnType DEF SkipLive, TypeOK, files, history
  <2>9. CASE ReadLive(s)
    <3>1. turn[s] \in Nat
      BY <2>3, <2>9 DEF ReadLive, Goto
    <3>2. WithTurn(Base(ReadJson(live, NoLive), s), turn[s]) \in Live
      BY <3>1, FileTypes, Fallbacks, BaseType, WithTurnType DEF TypeOK
    <3>3. next' \in [Sessions -> Live] /\ pc' \in [Sessions -> Phases]
      BY <2>9, <3>2 DEF ReadLive, Goto, TypeOK, Phases
    <3>4. QED BY <2>2, <2>9, <3>3 DEF ReadLive, TypeOK, history, files
  <2>10. CASE OpenLive(s)
    <3>1. live' \in JsonFiles(Live) /\ pc' \in [Sessions -> Phases]
      BY <2>10, Fallbacks DEF OpenLive, Goto, TypeOK, Phases
    <3>2. QED BY <2>2, <2>10, <3>1 DEF OpenLive, TypeOK, history
  <2>11. CASE WriteLive(s)
    <3>1. live' \in JsonFiles(Live) /\ pc' \in [Sessions -> Phases]
      BY <2>11, Fallbacks, FileTypes DEF WriteLive, Goto, TypeOK, Phases
    <3>2. QED BY <2>2, <2>11, <3>1 DEF WriteLive, TypeOK, history
  <2>12. CASE OpenMarkdown(s)
    <3>1. markdown' \in JsonFiles(Live) /\ pc' \in [Sessions -> Phases]
      BY <2>12, Fallbacks DEF OpenMarkdown, Goto, TypeOK, Phases
    <3>2. QED BY <2>2, <2>12, <3>1 DEF OpenMarkdown, TypeOK, history
  <2>13. CASE WriteMarkdown(s)
    <3>1. markdown' \in JsonFiles(Live)
      BY <2>13, Fallbacks, FileTypes DEF WriteMarkdown, TypeOK
    <3>2. QED BY <2>2, <2>13, <3>1, ReturnType DEF WriteMarkdown, TypeOK
  <2>14. CASE CutOff(s)
    <3>1. sound' \subseteq Spirits \X Days /\ paired' \in BOOLEAN
      BY <2>14 DEF CutOff, TypeOK
    <3>2. QED BY <2>2, <2>14, <3>1, ReturnType DEF CutOff, TypeOK, files
  <2>15. QED
    BY <1>2, <2>4, <2>5, <2>6, <2>7, <2>8, <2>9, <2>10, <2>11, <2>12, <2>13, <2>14 DEF Step
<1>3. CASE Midnight
  <2>1. today' \in Days /\ UNCHANGED <<calls, pc, turn>>
    BY <1>3, LogAssumption DEF Midnight, call, TypeOK, Days
  <2>2. QED BY <1>3, <2>1 DEF Midnight, call, files, history, TypeOK, Own
<1>4. CASE UNCHANGED vars
  BY <1>4 DEF vars, TypeOK, Own
<1>5. QED BY <1>1, <1>2, <1>3, <1>4 DEF Next

(* Type correctness, for any sessions, spirits and bounds.                 *)
THEOREM TypeCorrect == Spec => []TypeOK
<1>1. TypeOK /\ Own /\ [Next]_vars => (TypeOK /\ Own)'
  BY TypeStep
<1>2. QED BY <1>1, TypeInit, PTL DEF Spec

-----------------------------------------------------------------------------
(* What is true of a live context, given the turns and the ledgers: it is  *)
(* a history of its session, and its two texts are the last of the turns   *)
(* shown that have their role, or older ones.                              *)
LastOfRole(c, n, role, cs) ==
  /\ n # NoTurn => n \in DOMAIN cs /\ cs[n].role = role /\ cs[n].session = c.session
  /\ \A m \in Range(c.turns) : cs[m].role = role => m <= n

LoggedIn(n, cs, lg) == \E d \in Days : n \in Range(lg[<<cs[n].spirit, d>>])

IsHistory(c, cs, lg) ==
  /\ Ascending(c.turns)
  /\ \A n \in Range(c.turns) :
       n \in DOMAIN cs /\ cs[n].session = c.session /\ LoggedIn(n, cs, lg)
  /\ LastOfRole(c, c.user, "user", cs) /\ LastOfRole(c, c.assistant, "assistant", cs)

LEMMA NothingIsTrue ==
  ASSUME NEW c \in Live, c.turns = <<>>, c.user = NoTurn, c.assistant = NoTurn, NEW cs, NEW lg
  PROVE  IsHistory(c, cs, lg)
BY DEF IsHistory, LastOfRole, Ascending, Range

(* Truth outlives new turns and ledgers that grow.                         *)
LEMMA TruthStays ==
  ASSUME NEW c, NEW cs1, NEW lg1, NEW cs2, NEW lg2, IsHistory(c, cs1, lg1),
         \A n \in DOMAIN cs1 : n \in DOMAIN cs2 /\ cs2[n] = cs1[n],
         \A n \in DOMAIN cs1 : LoggedIn(n, cs1, lg1) => LoggedIn(n, cs2, lg2)
  PROVE  IsHistory(c, cs2, lg2)
BY DEF IsHistory, LastOfRole

(* A turn is added to what came before it.                                 *)
LEMMA TurnIsTrue ==
  ASSUME TypeOK, NEW base \in Live, IsHistory(base, calls, ledger), NEW n \in DOMAIN calls,
         base.session = calls[n].session, LoggedIn(n, calls, ledger),
         \A m \in Range(base.turns) : m < n
  PROVE  IsHistory(WithTurn(base, n), calls, ledger)
<1> DEFINE all == Append(base.turns, n)
           kept == LastOf(all, MaxLive)
<1>1. base.turns \in Seq(Nat) /\ n \in Nat /\ base.user \in Nat /\ base.assistant \in Nat
  BY DEF Live, TypeOK
<1>2. /\ all \in Seq(Nat) /\ Range(all) = Range(base.turns) \union {n} /\ Ascending(all)
  BY <1>1, AppendAscending DEF IsHistory
<1>3. Range(kept) \subseteq Range(base.turns) \union {n} /\ Ascending(kept)
  BY <1>2, LastOfAscending, LogAssumption
<1> HIDE DEF all, kept
<1>4. WithTurn(base, n) =
        [base EXCEPT !.turns = kept,
                     !.user = IF calls[n].role = "user" THEN n ELSE base.user,
                     !.assistant = IF calls[n].role = "assistant" THEN n ELSE base.assistant]
  BY DEF WithTurn, kept, all
<1>5. /\ WithTurn(base, n).turns = kept
      /\ WithTurn(base, n).session = base.session
      /\ WithTurn(base, n).user = IF calls[n].role = "user" THEN n ELSE base.user
      /\ WithTurn(base, n).assistant = IF calls[n].role = "assistant" THEN n ELSE base.assistant
  BY <1>4 DEF Live
<1> HIDE DEF WithTurn
<1>6. Range(base.turns) \subseteq Nat /\ n # NoTurn
  BY <1>1 DEF Range, NoTurn, TypeOK
<1>7. \A role \in Roles, last \in Nat :
        LastOfRole(base, last, role, calls) =>
          LastOfRole(WithTurn(base, n), IF calls[n].role = role THEN n ELSE last, role, calls)
  <2> SUFFICES ASSUME NEW role \in Roles, NEW last \in Nat, LastOfRole(base, last, role, calls)
               PROVE  LastOfRole(WithTurn(base, n), IF calls[n].role = role THEN n ELSE last, role, calls)
    OBVIOUS
  <2>1. CASE calls[n].role = role
    <3>1. \A m \in Range(kept) : m <= n
      BY <1>1, <1>3, <1>6
    <3>2. QED BY <2>1, <3>1, <1>5 DEF LastOfRole
  <2>2. CASE calls[n].role # role
    <3>1. \A m \in Range(kept) : calls[m].role = role => m <= last
      BY <1>3, <2>2 DEF LastOfRole
    <3>2. QED BY <2>2, <3>1, <1>5 DEF LastOfRole
  <2>3. QED BY <2>1, <2>2
<1>8. /\ LastOfRole(WithTurn(base, n), WithTurn(base, n).user, "user", calls)
      /\ LastOfRole(WithTurn(base, n), WithTurn(base, n).assistant, "assistant", calls)
  BY <1>1, <1>5, <1>7 DEF IsHistory, Roles
<1>9. \A m \in Range(kept) :
        m \in DOMAIN calls /\ calls[m].session = base.session /\ LoggedIn(m, calls, ledger)
  BY <1>3 DEF IsHistory
<1>10. QED BY <1>3, <1>5, <1>8, <1>9 DEF IsHistory

(* The live context as it is on the disk and in the hands of each call. A  *)
(* call that has appended its turn finds it logged; until it has read the  *)
(* live context, its turn is not shown.                                    *)
Kept(s) == next[s] = NoLive \/ next[s].session = s

Contexts ==
  /\ IsHistory(live.value, calls, ledger) /\ IsHistory(markdown.value, calls, ledger)
  /\ \A s \in Sessions :
       /\ IsHistory(next[s], calls, ledger) /\ Kept(s)
       /\ pc[s] \notin {"idle", "append"} => LoggedIn(turn[s], calls, ledger)
       /\ pc[s] \in {"append", "window", "rebuild", "rewrite", "live"} =>
            turn[s] \notin Range(live.value.turns)

LEMMA ContextsInit == Init => Contexts
<1> SUFFICES ASSUME Init PROVE Contexts
  OBVIOUS
<1>1. NoLive \in Live /\ NoLive.turns = <<>> /\ NoLive.user = NoTurn /\ NoLive.assistant = NoTurn
  BY Fallbacks DEF NoLive
<1>2. IsHistory(NoLive, calls, ledger)
  BY <1>1, NothingIsTrue
<1>3. live.value = NoLive /\ markdown.value = NoLive /\ \A s \in Sessions : next[s] = NoLive /\ pc[s] = "idle"
  BY DEF Init, Emptied
<1>4. QED BY <1>2, <1>3 DEF Contexts, Kept

LEMMA ContextsStep == TypeOK /\ Own /\ Contexts /\ [Next]_vars => Contexts'
<1> SUFFICES ASSUME TypeOK, Own, Contexts, [Next]_vars PROVE Contexts'
  OBVIOUS
<1>0. NoLive \in Live /\ NoLive.turns = <<>> /\ NoLive.user = NoTurn /\ NoLive.assistant = NoTurn
  BY Fallbacks DEF NoLive
<1> DEFINE Cut(s) == UNCHANGED <<calls, ledger, live, markdown>> /\ Return(s)
<1>1. ASSUME NEW s \in Sessions, Cut(s) PROVE Contexts'
  <2>1. IsHistory(NoLive, calls, ledger)
    BY <1>0, NothingIsTrue
  <2>2. ASSUME NEW r \in Sessions
        PROVE  /\ IsHistory(next'[r], calls, ledger)
               /\ next'[r] = NoLive \/ next'[r].session = r
               /\ pc'[r] \notin {"idle", "append"} => LoggedIn(turn'[r], calls, ledger)
               /\ pc'[r] \in {"append", "window", "rebuild", "rewrite", "live"} =>
                    turn'[r] \notin Range(live.value.turns)
    <3>1. CASE r = s
      BY <1>1, <2>1, <3>1 DEF Return, TypeOK
    <3>2. CASE r # s
      BY <1>1, <3>2 DEF Return, TypeOK, Contexts, Kept
    <3>3. QED BY <3>1, <3>2
  <2>3. QED BY <1>1, <2>2 DEF Contexts, Kept
<1>2. ASSUME NEW c \in Call, LogTurn(c) PROVE Contexts'
  <2>1. /\ \A n \in DOMAIN calls : n \in DOMAIN calls' /\ calls'[n] = calls[n]
        /\ Len(calls) + 1 \notin DOMAIN calls
        /\ UNCHANGED <<ledger, live, markdown, next>>
    BY <1>2, CallsGrow DEF LogTurn, TypeOK, files
  <2>2. \A n \in DOMAIN calls : LoggedIn(n, calls, ledger) => LoggedIn(n, calls', ledger')
    BY <2>1 DEF LoggedIn
  <2>3. \A e : IsHistory(e, calls, ledger) => IsHistory(e, calls', ledger')
    BY <2>1, <2>2, TruthStays
  <2>4. ASSUME NEW s \in Sessions
        PROVE  /\ IsHistory(next'[s], calls', ledger')
               /\ next'[s] = NoLive \/ next'[s].session = s
               /\ pc'[s] \notin {"idle", "append"} => LoggedIn(turn'[s], calls', ledger')
               /\ pc'[s] \in {"append", "window", "rebuild", "rewrite", "live"} =>
                    turn'[s] \notin Range(live'.value.turns)
    <3>1. IsHistory(next'[s], calls', ledger') /\ (next'[s] = NoLive \/ next'[s].session = s)
      BY <2>1, <2>3 DEF Contexts, Kept
    <3>2. CASE s = c.session
      <4>1. pc'[s] = "append" /\ turn'[s] = Len(calls) + 1
        BY <1>2, <3>2 DEF LogTurn, Goto, TypeOK
      <4>2. Range(live.value.turns) \subseteq DOMAIN calls
        BY DEF Contexts, IsHistory
      <4>3. QED BY <2>1, <3>1, <4>1, <4>2
    <3>3. CASE s # c.session
      <4>1. pc'[s] = pc[s] /\ turn'[s] = turn[s]
        BY <1>2, <3>3 DEF LogTurn, Goto, TypeOK
      <4>2. pc[s] # "idle" => turn[s] \in DOMAIN calls
        BY DEF Own
      <4>3. QED BY <2>1, <2>2, <3>1, <4>1, <4>2 DEF Contexts
    <3>4. QED BY <3>2, <3>3
  <2>5. IsHistory(live'.value, calls', ledger') /\ IsHistory(markdown'.value, calls', ledger')
    BY <2>1, <2>3 DEF Contexts
  <2>6. QED BY <2>4, <2>5 DEF Contexts, Kept
<1>3. ASSUME NEW s \in Sessions, AppendConversationLedger(s) PROVE Contexts'
  <2>1. UNCHANGED <<calls, live, markdown, next, turn>> /\ pc[s] = "append"
    BY <1>3 DEF AppendConversationLedger, Goto
  <2>2. turn[s] \in DOMAIN calls /\ turn[s] \in Nat /\ Path(s) \in Spirits \X Days
    BY <2>1 DEF Own, TypeOK, Path, Call
  <2>3. /\ \A path \in Spirits \X Days : Range(ledger[path]) \subseteq Range(ledger'[path])
        /\ turn[s] \in Range(ledger'[Path(s)])
    <3>1. /\ ledger'[Path(s)] = Append(ledger[Path(s)], turn[s])
          /\ \A path \in Spirits \X Days : path # Path(s) => ledger'[path] = ledger[path]
      BY <1>3, <2>2 DEF AppendConversationLedger, TypeOK
    <3>2. Range(Append(ledger[Path(s)], turn[s])) = Range(ledger[Path(s)]) \union {turn[s]}
      BY <2>2, AppendAscending DEF TypeOK
    <3>3. QED BY <3>1, <3>2
  <2>4. \A n \in DOMAIN calls : LoggedIn(n, calls, ledger) => LoggedIn(n, calls, ledger')
    <3>1. \A n \in DOMAIN calls, d \in Days : <<calls[n].spirit, d>> \in Spirits \X Days
      BY DEF TypeOK, Call
    <3>2. QED BY <2>3, <3>1 DEF LoggedIn
  <2>5. LoggedIn(turn[s], calls, ledger')
    BY <2>2, <2>3 DEF LoggedIn, Path, TypeOK
  <2>6. \A e : IsHistory(e, calls, ledger) => IsHistory(e, calls, ledger')
    BY <2>4, TruthStays
  <2>7. ASSUME NEW r \in Sessions
        PROVE  /\ pc'[r] \notin {"idle", "append"} => LoggedIn(turn'[r], calls, ledger')
               /\ pc'[r] \in {"append", "window", "rebuild", "rewrite", "live"} =>
                    turn'[r] \notin Range(live.value.turns)
    <3>1. CASE r = s
      BY <2>1, <2>5, <3>1 DEF Contexts
    <3>2. CASE r # s
      <4>1. pc'[r] = pc[r]
        BY <1>3, <3>2 DEF AppendConversationLedger, Goto, TypeOK
      <4>2. QED BY <2>1, <2>4, <4>1 DEF Contexts, Own
    <3>3. QED BY <3>1, <3>2
  <2>8. QED BY <2>1, <2>6, <2>7 DEF Contexts, Kept
<1>4. ASSUME NEW s \in Sessions, ReadLedger(s) \/ OpenWindow(s) \/ WriteWindow(s) PROVE Contexts'
  <2>1. /\ UNCHANGED <<calls, ledger, live, markdown, next, turn>>
        /\ pc[s] \in {"window", "rebuild", "rewrite"}
        /\ pc'[s] \notin {"idle", "append"}
        /\ \A r \in Sessions \ {s} : pc'[r] = pc[r]
    BY <1>4 DEF ReadLedger, OpenWindow, WriteWindow, Goto, files, TypeOK
  <2>2. QED BY <2>1 DEF Contexts, Kept
<1>5. ASSUME NEW s \in Sessions, SkipLive(s) \/ CutOff(s) PROVE Contexts'
  BY <1>1, <1>5 DEF SkipLive, CutOff, files
<1>6. ASSUME NEW s \in Sessions, ReadLive(s) PROVE Contexts'
  <2> DEFINE n == turn[s]
             base == Base(ReadJson(live, NoLive), s)
  <2>1. /\ UNCHANGED <<calls, ledger, live, markdown, turn>>
        /\ pc[s] = "live" /\ pc' = [pc EXCEPT ![s] = "merge"]
        /\ next' = [next EXCEPT ![s] = WithTurn(base, n)]
    BY <1>6 DEF ReadLive, Goto, files
  <2>2. /\ n \in DOMAIN calls /\ calls[n].session = s /\ LoggedIn(n, calls, ledger)
        /\ n \notin Range(live.value.turns)
        /\ \A m \in DOMAIN calls : calls[m].session = s => m <= n
    BY <2>1 DEF Own, Contexts
  <2>3. base \in Live
    BY FileTypes, Fallbacks, BaseType DEF TypeOK
  <2>4. \/ base = live.value /\ live.value.session = s
        \/ base.turns = <<>> /\ base.user = NoTurn /\ base.assistant = NoTurn /\ base.session = s
    <3>1. PICK e : e = ReadJson(live, NoLive) /\ (e = live.value \/ e = NoLive)
      BY DEF ReadJson
    <3>2. [NoLive EXCEPT !.session = s] =
            [session |-> s, turns |-> <<>>, user |-> NoTurn, assistant |-> NoTurn]
      BY DEF NoLive
    <3>3. PICK fresh :
            fresh = [session |-> s, turns |-> <<>>, user |-> NoTurn, assistant |-> NoTurn]
      OBVIOUS
    <3>4. fresh.turns = <<>> /\ fresh.user = NoTurn /\ fresh.assistant = NoTurn /\ fresh.session = s
      BY <3>3
    <3>5. base = IF e.session = s THEN e ELSE fresh
      BY <3>1, <3>2, <3>3 DEF Base
    <3>6. QED BY <1>0, <3>1, <3>4, <3>5
  <2>5. IsHistory(base, calls, ledger) /\ base.session = calls[n].session
    BY <2>2, <2>3, <2>4, NothingIsTrue DEF Contexts
  <2>6. \A m \in Range(base.turns) : m < n
    <3>1. CASE base = live.value /\ live.value.session = s
      <4>1. \A m \in Range(live.value.turns) : m \in DOMAIN calls /\ calls[m].session = s /\ m # n
        BY <2>2, <3>1 DEF Contexts, IsHistory
      <4>2. \A m \in DOMAIN calls : m \in Nat
        BY DEF TypeOK
      <4>3. QED BY <2>2, <3>1, <4>1, <4>2
    <3>2. CASE base.turns = <<>>
      BY <3>2 DEF Range
    <3>3. QED BY <2>4, <3>1, <3>2
  <2> HIDE DEF base
  <2>7. IsHistory(WithTurn(base, n), calls, ledger)
    BY <2>2, <2>3, <2>5, <2>6, TurnIsTrue
  <2>8. WithTurn(base, n).session = s
    BY <2>2, <2>3, <2>5 DEF WithTurn, Live
  <2>9. ASSUME NEW r \in Sessions
        PROVE  /\ IsHistory(next'[r], calls, ledger)
               /\ next'[r] = NoLive \/ next'[r].session = r
               /\ pc'[r] \notin {"idle", "append"} => LoggedIn(turn[r], calls, ledger)
               /\ pc'[r] \in {"append", "window", "rebuild", "rewrite", "live"} =>
                    turn[r] \notin Range(live.value.turns)
    <3>1. CASE r = s
      <4>1. next'[r] = WithTurn(base, n) /\ pc'[r] = "merge"
        BY <2>1, <3>1 DEF TypeOK
      <4>2. QED BY <2>2, <2>7, <2>8, <3>1, <4>1
    <3>2. CASE r # s
      BY <2>1, <3>2 DEF TypeOK, Contexts, Kept
    <3>3. QED BY <3>1, <3>2
  <2>10. QED BY <2>1, <2>9 DEF Contexts, Kept
<1>7. ASSUME NEW s \in Sessions, OpenLive(s) PROVE Contexts'
  <2>1. /\ UNCHANGED <<calls, ledger, markdown, next, turn>>
        /\ live'.value = NoLive
        /\ pc[s] = "merge" /\ pc' = [pc EXCEPT ![s] = "save"]
    BY <1>7 DEF OpenLive, Goto, Emptied
  <2>2. IsHistory(NoLive, calls, ledger) /\ \A n : n \notin Range(NoLive.turns)
    BY <1>0, NothingIsTrue DEF Range
  <2>3. \A r \in Sessions : pc'[r] # "idle" /\ pc'[r] # "append" => LoggedIn(turn[r], calls, ledger)
    BY <2>1 DEF Contexts, TypeOK
  <2>4. QED BY <2>1, <2>2, <2>3 DEF Contexts, Kept
<1>8. ASSUME NEW s \in Sessions, WriteLive(s) PROVE Contexts'
  <2>1. /\ UNCHANGED <<calls, ledger, markdown, next, turn>>
        /\ pc[s] = "save" /\ pc' = [pc EXCEPT ![s] = "render"]
        /\ live'.value = next[s] \/ live'.value = NoLive
    BY <1>8 DEF WriteLive, Goto, AfterWrite, Whole, Torn
  <2>2. /\ IsHistory(NoLive, calls, ledger) /\ IsHistory(next[s], calls, ledger)
        /\ IsHistory(live'.value, calls, ledger)
    BY <2>1, <1>0, NothingIsTrue DEF Contexts
  <2>3. ASSUME NEW r \in Sessions, pc'[r] \in {"append", "window", "rebuild", "rewrite", "live"}
        PROVE  turn[r] \notin Range(live'.value.turns)
    <3>1. r # s /\ pc[r] # "idle"
      BY <2>1, <2>3 DEF TypeOK
    <3>2. calls[turn[r]].session = r
      BY <3>1 DEF Own
    <3>3. CASE live'.value = NoLive \/ next[s] = NoLive
      BY <2>1, <3>3, <1>0 DEF Range
    <3>4. CASE live'.value = next[s] /\ next[s] # NoLive
      <4>1. \A m \in Range(next[s].turns) : calls[m].session = s
        BY <3>4 DEF Contexts, IsHistory, Kept
      <4>2. QED BY <3>1, <3>2, <3>4, <4>1
    <3>5. QED BY <2>1, <3>3, <3>4
  <2>4. \A r \in Sessions : pc'[r] # "idle" /\ pc'[r] # "append" => LoggedIn(turn[r], calls, ledger)
    BY <2>1 DEF Contexts, TypeOK
  <2>5. QED BY <2>1, <2>2, <2>3, <2>4 DEF Contexts, Kept
<1>9. ASSUME NEW s \in Sessions, OpenMarkdown(s) PROVE Contexts'
  <2>1. /\ UNCHANGED <<calls, ledger, live, next, turn>>
        /\ markdown'.value = NoLive
        /\ pc[s] = "render" /\ pc' = [pc EXCEPT ![s] = "mark"]
    BY <1>9 DEF OpenMarkdown, Goto, Emptied
  <2>2. IsHistory(NoLive, calls, ledger)
    BY <1>0, NothingIsTrue
  <2>3. \A r \in Sessions :
          /\ pc'[r] # "idle" /\ pc'[r] # "append" => LoggedIn(turn[r], calls, ledger)
          /\ pc'[r] \in {"append", "window", "rebuild", "rewrite", "live"} => pc'[r] = pc[r]
    BY <2>1 DEF Contexts, TypeOK
  <2>4. QED BY <2>1, <2>2, <2>3 DEF Contexts, Kept
<1>10. ASSUME NEW s \in Sessions, WriteMarkdown(s) PROVE Contexts'
  <2>1. /\ UNCHANGED <<calls, ledger, live>> /\ Return(s)
        /\ markdown'.value = next[s] \/ markdown'.value = NoLive
    BY <1>10 DEF WriteMarkdown, AfterWrite, Whole, Torn
  <2>2. IsHistory(NoLive, calls, ledger) /\ IsHistory(markdown'.value, calls, ledger)
    BY <2>1, <1>0, NothingIsTrue DEF Contexts
  <2>3. ASSUME NEW r \in Sessions
        PROVE  /\ IsHistory(next'[r], calls, ledger)
               /\ next'[r] = NoLive \/ next'[r].session = r
               /\ pc'[r] \notin {"idle", "append"} => LoggedIn(turn'[r], calls, ledger)
               /\ pc'[r] \in {"append", "window", "rebuild", "rewrite", "live"} =>
                    turn'[r] \notin Range(live.value.turns)
    <3>1. CASE r = s
      BY <2>1, <2>2, <3>1 DEF Return, TypeOK
    <3>2. CASE r # s
      BY <2>1, <3>2 DEF Return, TypeOK, Contexts, Kept
    <3>3. QED BY <3>1, <3>2
  <2>4. QED BY <2>1, <2>2, <2>3 DEF Contexts, Kept
<1>11. CASE Midnight
  BY <1>11 DEF Midnight, files, call, Contexts, Kept
<1>12. CASE UNCHANGED vars
  BY <1>12 DEF vars, Contexts, Kept
<1>13. QED
  BY <1>2, <1>3, <1>4, <1>5, <1>6, <1>7, <1>8, <1>9, <1>10, <1>11, <1>12 DEF Next, Step

LEMMA ContextsAlways == Spec => [](TypeOK /\ Own /\ Contexts)
<1>1. TypeOK /\ Own /\ Contexts /\ [Next]_vars => (TypeOK /\ Own /\ Contexts)'
  BY TypeStep, ContextsStep
<1>2. QED BY <1>1, TypeInit, ContextsInit, PTL DEF Spec

(* However calls overlap or are cut off, a live context is a true history  *)
(* of the one session it names (refreshLiveRoomContext).                   *)
THEOREM LiveHistory == Spec => []LiveIsHistory
<1>1. ASSUME NEW c, IsHistory(c, calls, ledger) PROVE TrueHistory(c)
  BY <1>1 DEF IsHistory, TrueHistory, Logged, LoggedIn
<1>2. Contexts => LiveIsHistory
  BY <1>1 DEF Contexts, LiveIsHistory
<1>3. QED BY <1>2, ContextsAlways, PTL

(* The latest user and assistant texts belong to the session shown and no  *)
(* turn shown is later (refreshLiveRoomContext).                           *)
THEOREM LatestTexts == Spec => []LatestIsLast
<1>1. Contexts => LatestIsLast
  BY DEF Contexts, IsHistory, LastOfRole, LatestIsLast
<1>2. QED BY <1>1, ContextsAlways, PTL

-----------------------------------------------------------------------------
(* A ledger has turns that were taken. Until it is appended, the turn of a *)
(* call is in none; until its window is read again, in the call's only.    *)
Ledgers ==
  /\ \A path \in Spirits \X Days : Range(ledger[path]) \subseteq DOMAIN calls
  /\ \A s \in Sessions, path \in Spirits \X Days :
       /\ pc[s] = "append" => turn[s] \notin Range(ledger[path])
       /\ pc[s] = "window" /\ turn[s] \in Range(ledger[path]) => path = Path(s)

(* A window, and what a call read to make one, is of a beginning of the    *)
(* ledger.                                                                 *)
Summary(shown, read) ==
  /\ shown.of <= Len(read)
  /\ shown.turns = LastOf(SubSeq(read, 1, shown.of), MaxWindow)

Beginning(read, all) == Len(read) <= Len(all) /\ read = SubSeq(all, 1, Len(read))

Windows ==
  /\ \A path \in Spirits \X Days : Summary(window[path].value, ledger[path])
  /\ \A s \in Sessions : pc[s] \in {"rebuild", "rewrite"} => Beginning(entries[s], ledger[Path(s)])

LEMMA PathType ==
  ASSUME TypeOK, Own, NEW s \in Sessions, pc[s] # "idle"
  PROVE  /\ Path(s) \in Spirits \X Days /\ turn[s] \in DOMAIN calls /\ turn[s] \in Nat
         /\ <<calls[turn[s]].spirit, today>> \in Spirits \X Days
         /\ calls[turn[s]] \in Call
BY DEF TypeOK, Own, Path, Call

LEMMA EmptySummary ==
  ASSUME NEW read \in Seq(Nat)
  PROVE  Summary(NoWindow, read)
<1>1. LastOf(SubSeq(read, 1, 0), MaxWindow) = <<>>
  BY NothingSummarised, LogAssumption
<1>2. NoWindow.of = 0 /\ NoWindow.turns = <<>> /\ Len(read) \in Nat
  BY DEF NoWindow
<1>3. QED BY <1>1, <1>2 DEF Summary

LEMMA SummaryOfBeginning ==
  ASSUME NEW read \in Seq(Nat), NEW all \in Seq(Nat), Beginning(read, all)
  PROVE  Summary(WindowOf(read), all)
BY DEF Summary, WindowOf, Beginning

LEMMA BeginningStays ==
  ASSUME NEW all \in Seq(Nat), NEW n \in Nat
  PROVE  /\ \A shown \in Window : Summary(shown, all) => Summary(shown, Append(all, n))
         /\ \A read \in Seq(Nat) : Beginning(read, all) => Beginning(read, Append(all, n))
<1>1. Len(all) \in Nat /\ Len(Append(all, n)) = Len(all) + 1
  BY AppendProperties
<1>2. \A k \in 0 .. Len(all) : SubSeq(Append(all, n), 1, k) = SubSeq(all, 1, k)
  BY PrefixOfAppend
<1>3. ASSUME NEW shown \in Window, Summary(shown, all) PROVE Summary(shown, Append(all, n))
  <2>1. shown.of \in 0 .. Len(all)
    BY <1>1, <1>3 DEF Summary, Window
  <2>2. shown.of <= Len(all) + 1
    BY <1>1, <2>1
  <2>3. QED BY <1>1, <1>2, <1>3, <2>1, <2>2 DEF Summary
<1>4. ASSUME NEW read \in Seq(Nat), Beginning(read, all) PROVE Beginning(read, Append(all, n))
  <2>1. Len(read) \in 0 .. Len(all)
    BY <1>1, <1>4 DEF Beginning
  <2>2. Len(read) <= Len(all) + 1
    BY <1>1, <2>1
  <2>3. QED BY <1>1, <1>2, <1>4, <2>1, <2>2 DEF Beginning
<1>5. QED BY <1>3, <1>4

LEMMA WindowsInit == Init => Ledgers /\ Windows
<1> SUFFICES ASSUME Init PROVE Ledgers /\ Windows
  OBVIOUS
<1>1. <<>> \in Seq(Nat) /\ Range(<<>>) = {}
  BY EmptySeq DEF Range
<1>2. \A path \in Spirits \X Days : ledger[path] = <<>> /\ window[path].value = NoWindow
  BY DEF Init, Emptied
<1>3. \A s \in Sessions : pc[s] = "idle"
  BY DEF Init
<1>4. QED BY <1>1, <1>2, <1>3, EmptySummary DEF Ledgers, Windows

LEMMA WindowsStep == TypeOK /\ Own /\ Ledgers /\ Windows /\ [Next]_vars => (Ledgers /\ Windows)'
<1> SUFFICES ASSUME TypeOK, Own, Ledgers, Windows, [Next]_vars PROVE (Ledgers /\ Windows)'
  OBVIOUS
<1>1. ASSUME NEW c \in Call, LogTurn(c) PROVE (Ledgers /\ Windows)'
  <2>1. /\ \A n \in DOMAIN calls : n \in DOMAIN calls' /\ calls'[n] = calls[n]
        /\ Len(calls) + 1 \notin DOMAIN calls
        /\ UNCHANGED <<ledger, window, entries>>
    BY <1>1, CallsGrow DEF LogTurn, TypeOK, files
  <2>2. pc'[c.session] = "append" /\ turn'[c.session] = Len(calls) + 1
    BY <1>1 DEF LogTurn, Goto, TypeOK, Call
  <2>3. ASSUME NEW s \in Sessions, s # c.session
        PROVE  /\ pc'[s] = pc[s] /\ turn'[s] = turn[s]
               /\ pc[s] # "idle" => Path(s)' = Path(s)
    BY <1>1, <2>1, <2>3 DEF LogTurn, Goto, TypeOK, Own, Path
  <2>4. Ledgers'
    BY <2>1, <2>2, <2>3 DEF Ledgers
  <2>5. Windows'
    BY <2>1, <2>2, <2>3 DEF Windows
  <2>6. QED BY <2>4, <2>5
<1>2. ASSUME NEW s \in Sessions, AppendConversationLedger(s) PROVE (Ledgers /\ Windows)'
  <2>1. /\ UNCHANGED <<calls, window, turn, day, entries>> /\ pc[s] = "append"
        /\ pc'[s] \in {"window", "live"} /\ \A r \in Sessions \ {s} : pc'[r] = pc[r]
        /\ \A r \in Sessions : Path(r)' = Path(r)
    BY <1>2 DEF AppendConversationLedger, Goto, TypeOK, Path
  <2>2. turn[s] \in DOMAIN calls /\ turn[s] \in Nat /\ Path(s) \in Spirits \X Days
    BY <2>1, PathType
  <2>3. /\ ledger'[Path(s)] = Append(ledger[Path(s)], turn[s])
        /\ \A path \in Spirits \X Days : path # Path(s) => ledger'[path] = ledger[path]
    BY <1>2, <2>2 DEF AppendConversationLedger, TypeOK
  <2>4. Range(ledger'[Path(s)]) = Range(ledger[Path(s)]) \union {turn[s]}
    BY <2>2, <2>3, AppendAscending DEF TypeOK
  <2>5. Ledgers'
    <3>1. \A path \in Spirits \X Days : Range(ledger'[path]) \subseteq DOMAIN calls
      BY <2>2, <2>3, <2>4 DEF Ledgers
    <3>2. \A r \in Sessions \ {s} : pc[r] # "idle" => turn[r] # turn[s]
      BY <2>1 DEF Own
    <3>3. ASSUME NEW r \in Sessions, NEW path \in Spirits \X Days
          PROVE  /\ pc'[r] = "append" => turn[r] \notin Range(ledger'[path])
                 /\ pc'[r] = "window" /\ turn[r] \in Range(ledger'[path]) => path = Path(r)
      <4>1. CASE r = s
        BY <2>1, <2>3, <4>1 DEF Ledgers
      <4>2. CASE r # s
        <5>1. pc'[r] = pc[r] /\ (pc[r] # "idle" => turn[r] # turn[s])
          BY <2>1, <3>2, <4>2
        <5>2. Range(ledger'[path]) \subseteq Range(ledger[path]) \union {turn[s]}
          BY <2>3, <2>4
        <5>3. QED BY <5>1, <5>2 DEF Ledgers
      <4>3. QED BY <4>1, <4>2
    <3>4. QED BY <2>1, <3>1, <3>3 DEF Ledgers
  <2>6. Windows'
    <3>1. \A path \in Spirits \X Days :
            /\ ledger[path] \in Seq(Nat)
            /\ ledger'[path] = ledger[path] \/ ledger'[path] = Append(ledger[path], turn[s])
      BY <2>3 DEF TypeOK
    <3>2. \A path \in Spirits \X Days : window[path].value \in Window
      BY DEF TypeOK, JsonFiles
    <3>3. \A path \in Spirits \X Days : Summary(window[path].value, ledger'[path])
      BY <2>2, <3>1, <3>2, BeginningStays DEF Windows
    <3>4. ASSUME NEW r \in Sessions, pc'[r] \in {"rebuild", "rewrite"}
          PROVE  Beginning(entries[r], ledger'[Path(r)])
      <4>1. pc[r] \in {"rebuild", "rewrite"}
        BY <2>1, <3>4
      <4>2. Path(r) \in Spirits \X Days /\ entries[r] \in Seq(Nat)
        BY <4>1, PathType DEF TypeOK
      <4>3. QED BY <2>2, <3>1, <4>1, <4>2, BeginningStays DEF Windows
    <3>5. QED BY <2>1, <3>3, <3>4 DEF Windows
  <2>7. QED BY <2>5, <2>6
<1>3. ASSUME NEW s \in Sessions, ReadLedger(s) PROVE (Ledgers /\ Windows)'
  <2>1. /\ UNCHANGED <<calls, ledger, window, turn>>
        /\ pc[s] = "window" /\ pc'[s] = "rebuild"
        /\ entries'[s] = ledger[<<calls[turn[s]].spirit, today>>] /\ day'[s] = today
        /\ \A r \in Sessions \ {s} : pc'[r] = pc[r] /\ entries'[r] = entries[r] /\ day'[r] = day[r]
    BY <1>3 DEF ReadLedger, Goto, TypeOK, files
  <2>2. /\ Path(s)' = <<calls[turn[s]].spirit, today>>
        /\ \A r \in Sessions \ {s} : Path(r)' = Path(r)
    BY <2>1 DEF Path
  <2>3. <<calls[turn[s]].spirit, today>> \in Spirits \X Days
    BY <2>1, PathType
  <2>4. \A all \in Seq(Nat) : Beginning(all, all)
    BY SubSeqFull DEF Beginning
  <2>5. Beginning(entries'[s], ledger[Path(s)'])
    BY <2>1, <2>2, <2>3, <2>4 DEF TypeOK
  <2>6. Windows'
    BY <2>1, <2>2, <2>5 DEF Windows
  <2>7. QED BY <2>1, <2>2, <2>6 DEF Ledgers
<1>4. ASSUME NEW s \in Sessions, OpenWindow(s) PROVE (Ledgers /\ Windows)'
  <2>1. /\ UNCHANGED <<calls, ledger, turn, day, entries>>
        /\ pc[s] = "rebuild" /\ pc'[s] = "rewrite" /\ \A r \in Sessions \ {s} : pc'[r] = pc[r]
        /\ \A r \in Sessions : Path(r)' = Path(r)
        /\ \A path \in Spirits \X Days :
             window'[path].value = window[path].value \/ window'[path].value = NoWindow
    BY <1>4 DEF OpenWindow, Goto, TypeOK, Path, Emptied
  <2>2. \A path \in Spirits \X Days : Summary(window'[path].value, ledger[path])
    BY <2>1, EmptySummary DEF Windows, TypeOK
  <2>3. QED BY <2>1, <2>2 DEF Ledgers, Windows
<1>5. ASSUME NEW s \in Sessions, WriteWindow(s) PROVE (Ledgers /\ Windows)'
  <2>1. /\ UNCHANGED <<calls, ledger, turn, day>>
        /\ pc[s] = "rewrite" /\ pc'[s] = "live"
        /\ \A r \in Sessions \ {s} : pc'[r] = pc[r] /\ entries'[r] = entries[r]
        /\ \A r \in Sessions : Path(r)' = Path(r)
    BY <1>5 DEF WriteWindow, Goto, TypeOK, Path
  <2>2. PICK text \in AfterWrite(window[Path(s)], WindowOf(entries[s]), NoWindow) :
          window' = [window EXCEPT ![Path(s)] = text]
    BY <1>5 DEF WriteWindow
  <2>3. text.value = WindowOf(entries[s]) \/ text.value = NoWindow
    BY DEF AfterWrite, Whole, Torn
  <2>4. Path(s) \in Spirits \X Days /\ entries[s] \in Seq(Nat) /\ ledger[Path(s)] \in Seq(Nat)
    BY <2>1, PathType DEF TypeOK
  <2>5. Summary(text.value, ledger[Path(s)])
    <3>1. Beginning(entries[s], ledger[Path(s)])
      BY <2>1 DEF Windows
    <3>2. QED BY <2>3, <2>4, <3>1, SummaryOfBeginning, EmptySummary
  <2>6. \A path \in Spirits \X Days : Summary(window'[path].value, ledger[path])
    BY <2>2, <2>5 DEF Windows, TypeOK
  <2>7. QED BY <2>1, <2>6 DEF Ledgers, Windows
<1>6. ASSUME NEW s \in Sessions,
             \/ SkipLive(s) \/ ReadLive(s) \/ OpenLive(s) \/ WriteLive(s)
             \/ OpenMarkdown(s) \/ WriteMarkdown(s) \/ CutOff(s)
      PROVE  (Ledgers /\ Windows)'
  <2>1. /\ UNCHANGED <<calls, ledger, window>>
        /\ pc'[s] \in {"idle", "merge", "save", "render", "mark"}
        /\ \A r \in Sessions \ {s} :
             pc'[r] = pc[r] /\ entries'[r] = entries[r] /\ turn'[r] = turn[r] /\ day'[r] = day[r]
    BY <1>6 DEF SkipLive, ReadLive, OpenLive, WriteLive, OpenMarkdown, WriteMarkdown, CutOff,
         Return, Goto, TypeOK, files
  <2>2. \A r \in Sessions \ {s} : Path(r)' = Path(r)
    BY <2>1 DEF Path
  <2>3. QED BY <2>1, <2>2 DEF Ledgers, Windows
<1>7. CASE Midnight
  BY <1>7 DEF Midnight, files, call, Ledgers, Windows, Path
<1>8. CASE UNCHANGED vars
  BY <1>8 DEF vars, Ledgers, Windows, Path
<1>9. QED
  BY <1>1, <1>2, <1>3, <1>4, <1>5, <1>6, <1>7, <1>8 DEF Next, Step

(* A window shows the end of a beginning of its ledger, however late it is *)
(* written (refreshSpiritWindow).                                          *)
THEOREM WindowsOfLedgers == Spec => []WindowOfLedger
<1>1. TypeOK /\ Own /\ Ledgers /\ Windows /\ [Next]_vars => (TypeOK /\ Own /\ Ledgers /\ Windows)'
  BY TypeStep, WindowsStep
<1>2. Windows => WindowOfLedger
  BY DEF Windows, Summary, WindowOfLedger
<1>3. QED BY <1>1, <1>2, TypeInit, WindowsInit, PTL DEF Spec

-----------------------------------------------------------------------------
(* A call that has been alone since it began is alone, and while calls     *)
(* overlap nothing is taken to be sound.                                   *)
Alone ==
  /\ alone => \A r, s \in Sessions : pc[r] # "idle" /\ pc[s] # "idle" => r = s
  /\ ~alone /\ (\E s \in Sessions : pc[s] # "idle") => sound = {} /\ ~paired

UpToDate(path, i) == window[path].kind = "whole" /\ i <= window[path].value.of
Pending(path, n) ==
  \E s \in Sessions :
    \/ pc[s] = "window" /\ turn[s] = n
    \/ pc[s] \in {"rebuild", "rewrite"} /\ path = Path(s)
Owed(n) == calls[n].role = "assistant" /\ n \notin late

(* What a call that is alone read is still the ledger when it writes the   *)
(* window, and a turn that a sound window does not show is one a call is   *)
(* about to rebuild the window for.                                        *)
Followed ==
  /\ alone => \A s \in Sessions :
       /\ pc[s] \in {"rebuild", "rewrite"} => entries[s] = ledger[Path(s)]
       /\ pc[s] = "rewrite" => window[Path(s)].kind = "empty"
  /\ \A path \in sound : \A i \in DOMAIN ledger[path] :
       Owed(ledger[path][i]) => UpToDate(path, i) \/ Pending(path, ledger[path][i])

(* The live context is what the call that is alone wrote there, and the    *)
(* markdown file follows it.                                               *)
Paired ==
  /\ alone => \A s \in Sessions :
       /\ pc[s] = "save" => live.kind = "empty"
       /\ pc[s] \in {"render", "mark"} => live = Whole(next[s])
       /\ pc[s] = "mark" => markdown.kind = "empty"
  /\ paired /\ (\A s \in Sessions : pc[s] \notin {"save", "render", "mark"}) => markdown = live

LEMMA SoundInit == Init => Alone /\ Followed /\ Paired
<1> SUFFICES ASSUME Init PROVE Alone /\ Followed /\ Paired
  OBVIOUS
<1>1. /\ \A s \in Sessions : pc[s] = "idle"
      /\ \A path \in Spirits \X Days : DOMAIN ledger[path] = {}
      /\ markdown = live /\ alone /\ sound \subseteq Spirits \X Days
  BY EmptySeq DEF Init
<1>2. QED BY <1>1 DEF Alone, Followed, Paired

LEMMA AloneStep == TypeOK /\ Alone /\ [Next]_vars => Alone'
<1> SUFFICES ASSUME TypeOK, Alone, [Next]_vars PROVE Alone'
  OBVIOUS
<1>1. ASSUME NEW c \in Call, LogTurn(c) PROVE Alone'
  <2>1. alone' => \A r \in Sessions : pc'[r] # "idle" => r = c.session
    BY <1>1 DEF LogTurn, Goto, AllIdle, Idle, TypeOK
  <2>2. ~alone' => sound' = {} /\ ~paired'
    BY <1>1 DEF LogTurn
  <2>3. QED BY <2>1, <2>2 DEF Alone
<1>2. ASSUME NEW s \in Sessions, Step(s) PROVE Alone'
  <2>1. pc[s] # "idle" /\ alone' = alone /\ \A r \in Sessions \ {s} : pc'[r] = pc[r]
    BY <1>2 DEF Step, AppendConversationLedger, ReadLedger, OpenWindow, WriteWindow, SkipLive,
         ReadLive, OpenLive, WriteLive, OpenMarkdown, WriteMarkdown, CutOff, Goto, Return, Idle,
         TypeOK, history
  <2>2. ~alone => sound' \subseteq sound /\ (paired' => paired)
    BY <1>2 DEF Step, AppendConversationLedger, ReadLedger, OpenWindow, WriteWindow, SkipLive,
         ReadLive, OpenLive, WriteLive, OpenMarkdown, WriteMarkdown, CutOff, history, TypeOK
  <2>3. QED BY <2>1, <2>2 DEF Alone
<1>3. CASE Midnight \/ UNCHANGED vars
  BY <1>3 DEF Midnight, call, history, vars, Alone
<1>4. QED BY <1>1, <1>2, <1>3 DEF Next

(* A step of a call that is not alone leaves nothing sound.                *)
LEMMA Overlapped ==
  ASSUME TypeOK, Alone, NEW s \in Sessions, Step(s), ~alone
  PROVE  ~alone' /\ sound' = {} /\ ~paired'
<1>1. pc[s] # "idle" /\ alone' = alone
  BY DEF Step, AppendConversationLedger, ReadLedger, OpenWindow, WriteWindow, SkipLive,
     ReadLive, OpenLive, WriteLive, OpenMarkdown, WriteMarkdown, CutOff, Goto, Idle, history
<1>2. sound' \subseteq sound /\ (paired' => paired)
  BY DEF Step, AppendConversationLedger, ReadLedger, OpenWindow, WriteWindow, SkipLive,
     ReadLive, OpenLive, WriteLive, OpenMarkdown, WriteMarkdown, CutOff, history, TypeOK
<1>3. QED BY <1>1, <1>2 DEF Alone

LEMMA FollowedStep ==
  TypeOK /\ Own /\ Ledgers /\ Alone /\ Followed /\ [Next]_vars => Followed'
<1> SUFFICES ASSUME TypeOK, Own, Ledgers, Alone, Followed, [Next]_vars
             PROVE  Followed'
  OBVIOUS
<1>0. sound \subseteq Spirits \X Days
  BY DEF TypeOK
<1>1. ASSUME NEW s \in Sessions, alone, pc[s] \notin {"idle", "window", "rebuild", "rewrite"}
      PROVE  \A path \in sound : \A i \in DOMAIN ledger[path] :
               Owed(ledger[path][i]) => UpToDate(path, i)
  BY <1>1 DEF Followed, Alone, Pending
<1>2. ASSUME NEW c \in Call, LogTurn(c), AllIdle PROVE Followed'
  <2>1. /\ sound' = sound /\ \A s \in Sessions : pc[s] = "idle"
        /\ \A s \in Sessions : pc'[s] \in {"idle", "append"}
        /\ UNCHANGED <<ledger, window, late>>
    BY <1>2 DEF LogTurn, Goto, AllIdle, Idle, TypeOK, files
  <2>2. \A n \in DOMAIN calls : calls'[n] = calls[n]
    BY <1>2, CallsGrow DEF LogTurn, TypeOK
  <2>3. \A path \in sound : \A i \in DOMAIN ledger[path] : ledger[path][i] \in DOMAIN calls
    BY <1>0 DEF Ledgers, Range
  <2>4. \A path \in sound : \A i \in DOMAIN ledger[path] :
          Owed(ledger[path][i])' => UpToDate(path, i)'
    BY <2>1, <2>2, <2>3 DEF Followed, Pending, Owed, UpToDate
  <2>5. QED BY <2>1, <2>4 DEF Followed
<1>3. ASSUME NEW s \in Sessions, AppendConversationLedger(s), alone PROVE Followed'
  <2>1. /\ UNCHANGED <<calls, window, turn, alone, sound, late>> /\ pc[s] = "append"
        /\ pc'[s] = IF calls[turn[s]].role = "assistant" THEN "window" ELSE "live"
        /\ \A r \in Sessions \ {s} : pc'[r] = pc[r]
    BY <1>3 DEF AppendConversationLedger, Goto, TypeOK, history
  <2>2. \A r \in Sessions \ {s} : pc'[r] = "idle"
    BY <1>3, <2>1 DEF Alone
  <2>3. turn[s] \in Nat /\ Path(s) \in Spirits \X Days
    BY <2>1, PathType
  <2>4. /\ ledger'[Path(s)] = Append(ledger[Path(s)], turn[s])
        /\ \A path \in Spirits \X Days : path # Path(s) => ledger'[path] = ledger[path]
    BY <1>3, <2>3 DEF AppendConversationLedger, TypeOK
  <2>5. ASSUME NEW path \in sound, NEW i \in DOMAIN ledger'[path]
        PROVE  \/ i \in DOMAIN ledger[path] /\ ledger'[path][i] = ledger[path][i]
               \/ ledger'[path][i] = turn[s]
    <3>1. CASE path # Path(s)
      BY <1>0, <2>4, <3>1
    <3>2. CASE path = Path(s)
      <4>1. /\ ledger[path] \in Seq(Nat) /\ ledger'[path] = Append(ledger[path], turn[s])
        BY <2>4, <3>2 DEF TypeOK
      <4>2. /\ DOMAIN ledger[path] = 1 .. Len(ledger[path]) /\ Len(ledger[path]) \in Nat
            /\ DOMAIN ledger'[path] = 1 .. Len(ledger[path]) + 1
            /\ \A j \in 1 .. Len(ledger[path]) : ledger'[path][j] = ledger[path][j]
            /\ ledger'[path][Len(ledger[path]) + 1] = turn[s]
        BY <2>3, <4>1, AppendProperties
      <4>3. i \in 1 .. Len(ledger[path]) \/ i = Len(ledger[path]) + 1
        BY <4>2
      <4>4. QED BY <4>2, <4>3
    <3>3. QED BY <3>1, <3>2
  <2>6. ASSUME NEW path \in sound, NEW i \in DOMAIN ledger'[path], Owed(ledger[path][i])'
        PROVE  UpToDate(path, i)' \/ Pending(path, ledger[path][i])'
    <3>1. Owed(ledger'[path][i])
      BY <2>1, <2>6 DEF Owed
    <3>2. CASE i \in DOMAIN ledger[path] /\ ledger'[path][i] = ledger[path][i]
      <4>1. UpToDate(path, i)
        BY <1>1, <1>3, <2>1, <3>1, <3>2
      <4>2. QED BY <2>1, <4>1 DEF UpToDate
    <3>3. CASE ledger'[path][i] = turn[s]
      <4>1. pc'[s] = "window" /\ turn'[s] = ledger'[path][i]
        BY <2>1, <3>1, <3>3 DEF Owed
      <4>2. QED BY <4>1 DEF Pending
    <3>4. QED BY <2>5, <2>6, <3>2, <3>3
  <2>7. \A r \in Sessions : pc'[r] \notin {"rebuild", "rewrite"}
    BY <2>1, <2>2
  <2>8. QED BY <2>1, <2>6, <2>7 DEF Followed
<1>4. ASSUME NEW s \in Sessions, ReadLedger(s), alone PROVE Followed'
  <2>1. /\ UNCHANGED <<calls, ledger, window, turn, alone, sound>>
        /\ pc[s] = "window" /\ pc'[s] = "rebuild"
        /\ entries'[s] = ledger[<<calls[turn[s]].spirit, today>>] /\ day'[s] = today
        /\ late' = IF today = day[s] THEN late ELSE late \union {turn[s]}
        /\ \A r \in Sessions \ {s} : pc'[r] = pc[r]
    BY <1>4 DEF ReadLedger, Goto, TypeOK, files, history
  <2>2. \A r \in Sessions \ {s} : pc[r] = "idle" /\ pc'[r] = "idle"
    BY <1>4, <2>1 DEF Alone
  <2>3. Path(s)' = <<calls[turn[s]].spirit, today>>
    BY <2>1 DEF Path
  <2>4. ASSUME NEW path \in sound, NEW i \in DOMAIN ledger[path], Owed(ledger[path][i])'
        PROVE  UpToDate(path, i)' \/ Pending(path, ledger[path][i])'
    <3>1. Owed(ledger[path][i]) /\ (today # day[s] => ledger[path][i] # turn[s])
      BY <2>1, <2>4 DEF Owed
    <3>2. CASE UpToDate(path, i)
      BY <2>1, <3>2 DEF UpToDate
    <3>3. CASE Pending(path, ledger[path][i])
      <4>1. turn[s] = ledger[path][i]
        BY <2>1, <2>2, <3>3 DEF Pending
      <4>2. path = Path(s) /\ today = day[s]
        BY <1>0, <2>1, <3>1, <4>1 DEF Ledgers, Range
      <4>3. path = Path(s)'
        BY <2>3, <4>2 DEF Path
      <4>4. QED BY <2>1, <4>3 DEF Pending
    <3>4. QED BY <2>1, <3>1, <3>2, <3>3 DEF Followed
  <2>5. QED BY <2>1, <2>2, <2>3, <2>4 DEF Followed
<1>5. ASSUME NEW s \in Sessions, OpenWindow(s), alone PROVE Followed'
  <2>1. /\ UNCHANGED <<calls, ledger, turn, day, entries, alone, sound, late>>
        /\ pc[s] = "rebuild" /\ pc'[s] = "rewrite" /\ \A r \in Sessions \ {s} : pc'[r] = pc[r]
        /\ window' = [window EXCEPT ![Path(s)] = Emptied(NoWindow)]
        /\ \A r \in Sessions : Path(r)' = Path(r)
    BY <1>5 DEF OpenWindow, Goto, TypeOK, Path, history
  <2>2. \A r \in Sessions \ {s} : pc[r] = "idle" /\ pc'[r] = "idle"
    BY <1>5, <2>1 DEF Alone
  <2>3. Path(s) \in Spirits \X Days
    BY <2>1, PathType
  <2>4. window'[Path(s)].kind = "empty"
    BY <2>1, <2>3 DEF Emptied, TypeOK
  <2>5. ASSUME NEW path \in sound, NEW i \in DOMAIN ledger[path], Owed(ledger[path][i])'
        PROVE  UpToDate(path, i)' \/ Pending(path, ledger[path][i])'
    <3>1. CASE path = Path(s)
      BY <2>1, <3>1 DEF Pending
    <3>2. CASE path # Path(s)
      <4>1. UpToDate(path, i) \/ Pending(path, ledger[path][i])
        BY <2>1, <2>5 DEF Followed, Owed
      <4>2. UpToDate(path, i)
        BY <2>1, <2>2, <3>2, <4>1 DEF Pending
      <4>3. window'[path] = window[path]
        BY <2>1, <3>2 DEF TypeOK
      <4>4. QED BY <4>2, <4>3 DEF UpToDate
    <3>3. QED BY <3>1, <3>2
  <2>6. QED BY <2>1, <2>2, <2>4, <2>5 DEF Followed
<1>6. ASSUME NEW s \in Sessions, WriteWindow(s), alone PROVE Followed'
  <2>1. /\ UNCHANGED <<calls, ledger, turn, alone, late>> /\ sound' = sound \union {Path(s)}
        /\ pc[s] = "rewrite" /\ pc'[s] = "live" /\ \A r \in Sessions \ {s} : pc'[r] = pc[r]
    BY <1>6 DEF WriteWindow, Goto, TypeOK
  <2>2. \A r \in Sessions \ {s} : pc[r] = "idle" /\ pc'[r] = "idle"
    BY <1>6, <2>1 DEF Alone
  <2>3. Path(s) \in Spirits \X Days
    BY <2>1, PathType
  <2>4. window[Path(s)].kind = "empty" /\ entries[s] = ledger[Path(s)]
    BY <1>6, <2>1 DEF Followed
  <2>5. /\ window'[Path(s)] = Whole(WindowOf(ledger[Path(s)]))
        /\ \A path \in Spirits \X Days : path # Path(s) => window'[path] = window[path]
    BY <1>6, <2>3, <2>4 DEF WriteWindow, AfterWrite, TypeOK
  <2>6. ASSUME NEW path \in sound', NEW i \in DOMAIN ledger[path], Owed(ledger[path][i])'
        PROVE  UpToDate(path, i)'
    <3>1. CASE path = Path(s)
      <4>1. window'[path].kind = "whole" /\ window'[path].value.of = Len(ledger[path])
        BY <2>5, <3>1 DEF Whole, WindowOf
      <4>2. i <= Len(ledger[path])
        BY <2>3, <3>1 DEF TypeOK
      <4>3. QED BY <4>1, <4>2 DEF UpToDate
    <3>2. CASE path # Path(s)
      <4>0. path \in sound /\ path \in Spirits \X Days
        BY <1>0, <2>1, <3>2
      <4>1. UpToDate(path, i) \/ Pending(path, ledger[path][i])
        BY <2>1, <2>6, <4>0 DEF Followed, Owed
      <4>2. UpToDate(path, i)
        BY <2>1, <2>2, <3>2, <4>1 DEF Pending
      <4>3. QED BY <2>5, <3>2, <4>0, <4>2 DEF UpToDate
    <3>3. QED BY <3>1, <3>2
  <2>7. QED BY <2>1, <2>2, <2>6 DEF Followed
<1>7. ASSUME NEW s \in Sessions,
             \/ SkipLive(s) \/ ReadLive(s) \/ OpenLive(s) \/ WriteLive(s)
             \/ OpenMarkdown(s) \/ WriteMarkdown(s),
             alone
      PROVE  Followed'
  <2>1. /\ UNCHANGED <<calls, ledger, window, alone, sound, late>>
        /\ pc[s] \in {"live", "merge", "save", "render", "mark"}
        /\ pc'[s] \in {"idle", "merge", "save", "render", "mark"}
        /\ \A r \in Sessions \ {s} : pc'[r] = pc[r]
    BY <1>7 DEF SkipLive, ReadLive, OpenLive, WriteLive, OpenMarkdown, WriteMarkdown,
         Return, Goto, TypeOK, files, history
  <2>2. \A r \in Sessions : pc'[r] \notin {"rebuild", "rewrite"}
    BY <1>7, <2>1 DEF Alone
  <2>3. \A path \in sound : \A i \in DOMAIN ledger[path] :
          Owed(ledger[path][i])' => UpToDate(path, i)'
    BY <1>1, <1>7, <2>1 DEF Owed, UpToDate
  <2>4. QED BY <2>1, <2>2, <2>3 DEF Followed
<1>8. ASSUME NEW s \in Sessions, CutOff(s), alone PROVE Followed'
  <2>1. /\ UNCHANGED <<calls, ledger, window, alone, late>>
        /\ sound' = IF pc[s] \in {"window", "rebuild", "rewrite"} THEN sound \ {Path(s)} ELSE sound
        /\ pc[s] # "idle" /\ pc'[s] = "idle" /\ \A r \in Sessions \ {s} : pc'[r] = pc[r]
    BY <1>8 DEF CutOff, Return, Idle, TypeOK, files
  <2>2. \A r \in Sessions : pc'[r] = "idle"
    BY <1>8, <2>1 DEF Alone
  <2>3. ASSUME NEW path \in sound', NEW i \in DOMAIN ledger[path], Owed(ledger[path][i])'
        PROVE  UpToDate(path, i)'
    <3>1. path \in sound /\ Owed(ledger[path][i])
      BY <2>1, <2>3 DEF Owed
    <3>2. ~Pending(path, ledger[path][i])
      <4>1. SUFFICES ASSUME Pending(path, ledger[path][i]) PROVE FALSE
        OBVIOUS
      <4>2. pc[s] \in {"window", "rebuild", "rewrite"} /\ path # Path(s)
        BY <1>8, <2>1, <2>3, <4>1 DEF Alone, Pending
      <4>3. pc[s] = "window" /\ turn[s] = ledger[path][i]
        BY <1>8, <2>1, <4>1, <4>2 DEF Alone, Pending
      <4>4. path = Path(s)
        BY <1>0, <3>1, <4>3 DEF Ledgers, Range
      <4>5. QED BY <4>2, <4>4
    <3>3. QED BY <2>1, <3>1, <3>2 DEF Followed, UpToDate
  <2>4. QED BY <2>2, <2>3, <2>1 DEF Followed
<1>9. CASE Midnight \/ UNCHANGED vars
  <2>1. UNCHANGED <<calls, ledger, window, pc, turn, day, entries, alone, sound, late>>
    BY <1>9 DEF Midnight, files, call, history, vars
  <2>2. QED BY <2>1 DEF Followed, Owed, UpToDate, Pending, Path
<1>10. ASSUME NEW c \in Call, LogTurn(c), ~AllIdle PROVE Followed'
  BY <1>10 DEF LogTurn, Followed
<1>11. ASSUME NEW s \in Sessions, Step(s), ~alone PROVE Followed'
  BY <1>11, Overlapped DEF Followed
<1>12. QED
  BY <1>2, <1>3, <1>4, <1>5, <1>6, <1>7, <1>8, <1>9, <1>10, <1>11 DEF Next, Step

LEMMA PairedStep == TypeOK /\ Alone /\ Paired /\ [Next]_vars => Paired'
<1> SUFFICES ASSUME TypeOK, Alone, Paired, [Next]_vars PROVE Paired'
  OBVIOUS
<1>1. ASSUME NEW c \in Call, LogTurn(c), AllIdle PROVE Paired'
  <2>1. /\ paired' = paired /\ \A s \in Sessions : pc[s] = "idle" /\ pc'[s] \in {"idle", "append"}
        /\ UNCHANGED <<live, markdown>>
    BY <1>1 DEF LogTurn, Goto, AllIdle, Idle, TypeOK, files
  <2>2. QED BY <2>1 DEF Paired
<1>2. ASSUME NEW s \in Sessions, Step(s), alone PROVE Paired'
  <2>1. pc[s] # "idle" /\ \A r \in Sessions \ {s} : pc[r] = "idle" /\ pc'[r] = "idle"
    BY <1>2 DEF Step, AppendConversationLedger, ReadLedger, OpenWindow, WriteWindow, SkipLive,
         ReadLive, OpenLive, WriteLive, OpenMarkdown, WriteMarkdown, CutOff, Goto, Return, Alone, Idle, TypeOK
  <2>2. /\ pc[s] = "save" => live.kind = "empty"
        /\ pc[s] \in {"render", "mark"} => live = Whole(next[s])
        /\ pc[s] = "mark" => markdown.kind = "empty"
        /\ paired /\ pc[s] \notin {"save", "render", "mark"} => markdown = live
    BY <1>2, <2>1 DEF Paired
  <2>3. SUFFICES
          /\ pc'[s] = "save" => live'.kind = "empty"
          /\ pc'[s] \in {"render", "mark"} => live' = Whole(next'[s])
          /\ pc'[s] = "mark" => markdown'.kind = "empty"
          /\ paired' /\ pc'[s] \notin {"save", "render", "mark"} => markdown' = live'
    BY <2>1 DEF Paired
  <2>4. CASE \/ AppendConversationLedger(s) \/ ReadLedger(s) \/ OpenWindow(s) \/ WriteWindow(s)
             \/ ReadLive(s)
    <3>1. /\ UNCHANGED <<live, markdown, paired>>
          /\ pc[s] \notin {"save", "render", "mark"} /\ pc'[s] \notin {"save", "render", "mark"}
      BY <2>4 DEF AppendConversationLedger, ReadLedger, OpenWindow, WriteWindow, ReadLive, Goto,
           TypeOK, files, history
    <3>2. QED BY <2>2, <3>1
  <2>5. CASE SkipLive(s)
    BY <2>2, <2>5 DEF SkipLive, Return, TypeOK, files, history
  <2>6. CASE OpenLive(s)
    BY <2>6 DEF OpenLive, Goto, Emptied, TypeOK
  <2>7. CASE WriteLive(s)
    <3>1. live' = Whole(next[s]) /\ next' = next /\ pc[s] = "save" /\ pc'[s] = "render"
      BY <2>2, <2>7 DEF WriteLive, Goto, AfterWrite, TypeOK
    <3>2. QED BY <3>1
  <2>8. CASE OpenMarkdown(s)
    <3>1. /\ live' = live /\ next' = next /\ pc[s] = "render" /\ pc'[s] = "mark"
          /\ markdown'.kind = "empty"
      BY <2>8 DEF OpenMarkdown, Goto, Emptied, TypeOK
    <3>2. QED BY <2>2, <3>1
  <2>9. CASE WriteMarkdown(s)
    <3>1. markdown' = Whole(next[s]) /\ live' = Whole(next[s]) /\ pc'[s] = "idle"
      BY <2>2, <2>9 DEF WriteMarkdown, Return, AfterWrite, TypeOK
    <3>2. QED BY <3>1
  <2>10. CASE CutOff(s)
    BY <2>2, <2>10 DEF CutOff, Return, TypeOK, files
  <2>11. QED BY <1>2, <2>4, <2>5, <2>6, <2>7, <2>8, <2>9, <2>10 DEF Step
<1>3. CASE Midnight \/ UNCHANGED vars
  BY <1>3 DEF Midnight, files, call, history, vars, Paired
<1>4. ASSUME NEW c \in Call, LogTurn(c), ~AllIdle PROVE Paired'
  BY <1>4 DEF LogTurn, Paired
<1>5. ASSUME NEW s \in Sessions, Step(s), ~alone PROVE Paired'
  BY <1>5, Overlapped DEF Paired
<1>6. QED BY <1>1, <1>2, <1>3, <1>4, <1>5 DEF Next

(* Whatever overlapped or was cut off before, a window a call that was     *)
(* alone rebuilt has every assistant turn of its day, and keeps up, but    *)
(* for the turns that midnight divided from it.                            *)
THEOREM WindowsFollow == Spec => []WindowUpToDate
<1>1. TypeOK /\ Own /\ Ledgers /\ Windows /\ Alone /\ Followed /\ [Next]_vars =>
        (TypeOK /\ Own /\ Ledgers /\ Windows /\ Alone /\ Followed)'
  BY TypeStep, WindowsStep, AloneStep, FollowedStep
<1>2. Followed => WindowUpToDate
  BY DEF Followed, WindowUpToDate, Owed, UpToDate, Pending, AllIdle, Idle
<1>3. QED BY <1>1, <1>2, TypeInit, WindowsInit, SoundInit, PTL DEF Spec

(* Once a call that was alone has written both, and until the next overlap *)
(* or cut-off, the markdown file says what current_session_context.json    *)
(* says.                                                                   *)
THEOREM MarkdownFollows == Spec => []MarkdownAgrees
<1>1. TypeOK /\ Own /\ Alone /\ Paired /\ [Next]_vars => (TypeOK /\ Own /\ Alone /\ Paired)'
  BY TypeStep, AloneStep, PairedStep
<1>2. Paired => MarkdownAgrees
  BY DEF Paired, MarkdownAgrees, AllIdle, Idle
<1>3. QED BY <1>1, <1>2, TypeInit, SoundInit, PTL DEF Spec
==============================================================================
