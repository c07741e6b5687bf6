-------------------------- MODULE ActiveSpiritProofs --------------------------
(***************************************************************************)
(* The session state and the active spirit, for any sessions, rooms,       *)
(* names, requests and edits. First the state files alone: they implement  *)
(* a register per session, however calls overlap and wherever they are cut *)
(* off, because nobody else writes a session's file; where there was       *)
(* nothing a call works on a state that was shared. Then the whole host:   *)
(* it goes on with what a call returned and never touches the state files, *)
(* the cache of contracts is never behind the file by its own mtime, and   *)
(* the mirror of a room is written by its session only.                    *)
(***************************************************************************)
EXTENDS ActiveSpirit, TLAPS

(* What a call may start from; Abstract!Starting.                          *)
Starts(c) == IF c \in Sessions /\ Register[c] # NoState THEN {Register[c]} ELSE published

Writing == {"saving", "opened", "shared", "reopened"}

(* A reader of the global file finds a state that was shared.              *)
Offered ==
  /\ DefaultState \in published
  /\ global.kind = "whole" => global.value \in published

(* What the call of c holds, by where it is.                               *)
PreparedBy(c) ==
  /\ pc[c] = "merging" => mine[c] \in published
  /\ pc[c] \in Writing => /\ partial[c] # NoState
                          /\ \E st \in Starts(c) : mine[c] = Merged(st, partial[c])
  /\ pc[c] \in {"shared", "reopened"} => c \in Sessions /\ mine[c] \in published
  /\ pc[c] = "reopened" => file[c].kind = "empty"
  /\ pc[c] = "answered" => /\ mine[c] \in States
                           /\ c \in Sessions /\ Register[c] # NoState => mine[c] = Register[c]
Prepared == \A c \in Callers : PreparedBy(c)

IInv == TypeOK /\ Offered /\ Prepared
-----------------------------------------------------------------------------
(* Partial states.                                                         *)
LEMMA NoStateIsNone == NoState \notin States /\ NoState \in Partials
<1>1. DOMAIN NoState = {}
  BY DEF NoState
<1>2. ASSUME NEW st \in States PROVE DOMAIN st = Fields /\ st # NoState
  BY <1>1, <1>2 DEF States, Fields
<1>3. NoState \in [{} -> Values]
  BY DEF NoState
<1> QED BY <1>2, <1>3 DEF Partials

LEMMA DefaultIsState == DefaultState \in States
BY RulesAssumption DEF DefaultState, States, Values, Fields

LEMMA PartialParts ==
  ASSUME NEW part \in Partials
  PROVE  DOMAIN part \subseteq Fields /\ \A f \in DOMAIN part : part[f] \in Values
BY DEF Partials

LEMMA OverlayTyped ==
  ASSUME NEW st \in States, NEW part \in Partials
  PROVE  Overlay(st, part) \in [Fields -> Values]
BY PartialParts DEF Overlay, States

(* A whole state hides what it is laid over; no state hides nothing.       *)
LEMMA OverlayWhole ==
  ASSUME NEW st, NEW part \in States
  PROVE  Overlay(st, part) = part
BY DEF Overlay, States

LEMMA OverlayNone ==
  ASSUME NEW st \in States
  PROVE  Overlay(st, NoState) = st
<1>1. DOMAIN NoState = {}
  BY DEF NoState
<1> QED BY <1>1 DEF Overlay, States

(* What is saved is a state: its spirit is one that is accepted.           *)
LEMMA MergedTyped ==
  ASSUME NEW st \in States, NEW part \in Partials
  PROVE  Merged(st, part) \in States
<1> DEFINE next == Overlay(st, part)
<1>1. next \in [Fields -> Values]
  BY OverlayTyped
<1>2. "embodied" \in Fields /\ DefaultSpirit \in Spirits /\ Spirits \subseteq Values
  BY RulesAssumption DEF Fields, Values
<1>3. Normalized(next) \in [Fields -> Values]
  BY <1>1, <1>2 DEF Normalized
<1>4. Normalized(next)["embodied"] \in Spirits
  BY <1>1, <1>2 DEF Normalized
<1> QED BY <1>3, <1>4 DEF Merged, States

LEMMA RequestsArePartials == Requests \union {NoState} \subseteq Partials
BY RulesAssumption, NoStateIsNone

(* Files.                                                                  *)
LEMMA ReadTyped ==
  ASSUME NEW S, NEW f \in JsonFiles(S), NEW fallback \in S
  PROVE  ReadJson(f, fallback) \in S
BY DEF ReadJson, JsonFiles

LEMMA WriteTyped ==
  ASSUME NEW S, NEW f, NEW v \in S, NEW fallback \in S, NEW g \in AfterWrite(f, v, fallback)
  PROVE  /\ g \in JsonFiles(S)
         /\ g.kind = "whole" => g.value = v
         /\ f.kind = "empty" => g = Whole(v)
BY DEF AfterWrite, Whole, Torn, JsonFiles, FileKinds

LEMMA EmptiedTyped ==
  ASSUME NEW S, NEW fallback \in S
  PROVE  Emptied(fallback) \in JsonFiles(S) /\ Emptied(fallback).kind = "empty"
BY DEF Emptied, JsonFiles, FileKinds
-----------------------------------------------------------------------------
(* The register of a session has a type, and changes with its call only.   *)
LEMMA RegisterTyped ==
  ASSUME TypeOK
  PROVE  Register \in [Sessions -> States \union {NoState}]
<1>1. ASSUME NEW s \in Sessions PROVE ReadJson(file[s], NoState) \in States \union {NoState}
  BY ReadTyped DEF TypeOK
<1> QED BY <1>1 DEF Register, TypeOK

LEMMA StartsTyped ==
  ASSUME TypeOK, NEW c \in Callers
  PROVE  Starts(c) \subseteq States
BY RegisterTyped DEF Starts, TypeOK

LEMMA InitInv == Init => IInv
<1> SUFFICES ASSUME Init PROVE IInv
  OBVIOUS
<1>1. TypeOK
  BY DefaultIsState, EmptiedTyped DEF Init, TypeOK, Phases
<1>2. Offered
  BY EmptiedTyped, DefaultIsState DEF Init, Offered
<1>3. Prepared
  BY DEF Init, Prepared, PreparedBy, Writing
<1> QED BY <1>1, <1>2, <1>3 DEF IInv
-----------------------------------------------------------------------------
(* What a step of another call leaves to a call.                           *)
Untouched(d) ==
  /\ pc'[d] = pc[d] /\ mine'[d] = mine[d] /\ partial'[d] = partial[d]
  /\ d \in Sessions => file'[d] = file[d] /\ held'[d] = held[d]
  /\ published \subseteq published'

LEMMA RegisterKept ==
  ASSUME NEW s \in Sessions, Untouched(s)
  PROVE  Register'[s] = Register[s]
BY DEF Register, Untouched

LEMMA StartsGrow ==
  ASSUME NEW d \in Callers, Untouched(d)
  PROVE  Starts(d) \subseteq Starts(d)'
BY RegisterKept DEF Starts, Untouched

LEMMA OthersKeep ==
  ASSUME NEW d \in Callers, Untouched(d), PreparedBy(d)
  PROVE  PreparedBy(d)'
<1>1. Starts(d) \subseteq Starts(d)'
  BY StartsGrow
<1>2. d \in Sessions => Register'[d] = Register[d]
  BY RegisterKept
<1> QED BY <1>1, <1>2 DEF PreparedBy, Untouched

LEMMA FileOfSession ==
  ASSUME IInv, NEW c \in Callers, pc[c] \in {"shared", "reopened"}
  PROVE  c \in Sessions /\ mine[c] \in published /\ mine[c] \in States
BY DEF IInv, Prepared, PreparedBy, TypeOK

(* A call that is to write has put a state together.                       *)
LEMMA WritesState ==
  ASSUME IInv, NEW c \in Callers, pc[c] \in Writing
  PROVE  mine[c] \in States /\ partial[c] \in Partials
<1>1. PICK st \in Starts(c) : mine[c] = Merged(st, partial[c])
  BY DEF IInv, Prepared, PreparedBy
<1>2. st \in States
  BY StartsTyped DEF IInv
<1>3. partial[c] \in Partials
  BY RequestsArePartials DEF IInv, TypeOK
<1> QED BY <1>1, <1>2, <1>3, MergedTyped

LEMMA AskInv ==
  ASSUME IInv, NEW c \in Callers, NEW u \in Requests, Ask(c, u)
  PROVE  IInv'
<1>1. TypeOK'
  BY DEF IInv, TypeOK, Ask, Goto, Phases, CallAssumption
<1>2. Offered'
  BY DEF IInv, Offered, Ask
<1>3. \A d \in Callers \ {c} : Untouched(d)
  BY DEF IInv, TypeOK, Untouched, Ask, Goto
<1>4. pc'[c] = "loading"
  BY DEF IInv, TypeOK, Ask, Goto
<1>5. Prepared'
  BY <1>3, <1>4, OthersKeep DEF IInv, Prepared, PreparedBy, Writing
<1> QED BY <1>1, <1>2, <1>5 DEF IInv

(* The global file is read: what is found was shared.                      *)
LEMMA ReadGlobalInv ==
  ASSUME IInv, NEW c \in Callers, ReadGlobal(c)
  PROVE  IInv'
<1> DEFINE found == ReadJson(global, DefaultState)
<1>1. found \in States /\ found \in published
  BY DefaultIsState, ReadTyped DEF IInv, TypeOK, Offered, ReadJson
<1>2. Overlay(DefaultState, found) = found
  BY <1>1, OverlayWhole
<1>3. TypeOK'
  BY <1>1, <1>2 DEF IInv, TypeOK, ReadGlobal, Goto, Phases
<1>4. Offered'
  BY DEF IInv, Offered, ReadGlobal
<1>5. \A d \in Callers \ {c} : Untouched(d)
  BY DEF IInv, TypeOK, Untouched, ReadGlobal, Goto
<1>6. pc'[c] = "merging" /\ mine'[c] \in published'
  BY <1>1, <1>2 DEF IInv, TypeOK, ReadGlobal, Goto
<1>7. Prepared'
  BY <1>5, <1>6, OthersKeep DEF IInv, Prepared, PreparedBy, Writing
<1> QED BY <1>3, <1>4, <1>7 DEF IInv

(* What the call goes on from is its register's state or a shared one.     *)
LEMMA CurrentStarts ==
  ASSUME IInv, NEW c \in Callers, pc[c] = "merging"
  PROVE  Overlay(mine[c], Found(c)) \in Starts(c)
<1>1. mine[c] \in published /\ mine[c] \in States
  BY DEF IInv, Prepared, PreparedBy, TypeOK
<1>2. CASE c \notin Sessions
  <2>1. Found(c) = NoState
    BY <1>2 DEF Found
  <2> QED BY <1>1, <1>2, <2>1, OverlayNone DEF Starts
<1>3. CASE c \in Sessions
  <2>1. Found(c) = Register[c]
    BY <1>3 DEF Found, Register
  <2>2. CASE Found(c) = NoState
    BY <1>1, <1>3, <2>1, <2>2, OverlayNone DEF Starts
  <2>3. CASE Found(c) # NoState
    <3>1. Found(c) \in States
      BY <1>3, <2>1, <2>3, RegisterTyped DEF IInv
    <3> QED BY <1>3, <2>1, <2>3, <3>1, OverlayWhole DEF Starts
  <2> QED BY <2>2, <2>3
<1> QED BY <1>2, <1>3

LEMMA MergeInv ==
  ASSUME IInv, NEW c \in Callers, Merge(c)
  PROVE  IInv'
<1> DEFINE current == Overlay(mine[c], Found(c))
<1>1. current \in Starts(c) /\ current \in States
  BY CurrentStarts, StartsTyped DEF IInv, Merge, Goto
<1>2. partial[c] \in Partials
  BY RequestsArePartials DEF IInv, TypeOK
<1>3. Merged(current, partial[c]) \in States
  BY <1>1, <1>2, MergedTyped
<1>4. TypeOK'
  BY <1>1, <1>3 DEF IInv, TypeOK, Merge, Goto, Phases
<1>5. Offered'
  BY DEF IInv, Offered, Merge
<1>6. \A d \in Callers \ {c} : Untouched(d)
  BY DEF IInv, TypeOK, Untouched, Merge, Goto
<1>7. PreparedBy(c)'
  <2>1. CASE partial[c] = NoState
    <3>1. pc[c] = "merging" /\ pc'[c] = "answered" /\ mine'[c] = current
      BY <2>1 DEF IInv, TypeOK, Merge, Goto
    <3>2. c \in Sessions => Register'[c] = Register[c]
      BY <3>1 DEF Register, Merge
    <3> QED BY <1>1, <3>1, <3>2 DEF PreparedBy, Writing, Starts
  <2>2. CASE partial[c] # NoState
    <3>1. pc'[c] = "saving" /\ mine'[c] = Merged(current, partial[c]) /\ partial' = partial
      BY <2>2 DEF IInv, TypeOK, Merge, Goto
    <3>2. Starts(c)' = Starts(c)
      BY <3>1 DEF Starts, Register, Merge, Goto
    <3> QED BY <1>1, <2>2, <3>1, <3>2 DEF PreparedBy
  <2> QED BY <2>1, <2>2
<1>8. Prepared'
  BY <1>6, <1>7, OthersKeep DEF IInv, Prepared
<1> QED BY <1>4, <1>5, <1>8 DEF IInv

LEMMA OpenGlobalInv ==
  ASSUME IInv, NEW c \in Callers, OpenGlobal(c)
  PROVE  IInv'
<1>1. TypeOK'
  BY EmptiedTyped, DefaultIsState DEF IInv, TypeOK, OpenGlobal, Goto, Phases
<1>2. Offered'
  BY EmptiedTyped, DefaultIsState DEF IInv, Offered, OpenGlobal
<1>3. \A d \in Callers \ {c} : Untouched(d)
  BY DEF IInv, TypeOK, Untouched, OpenGlobal, Goto
<1>4. PreparedBy(c)'
  <2>1. pc[c] = "saving" /\ pc'[c] = "opened" /\ mine' = mine /\ partial' = partial
    BY DEF IInv, TypeOK, OpenGlobal, Goto
  <2>2. Starts(c)' = Starts(c)
    BY <2>1 DEF Starts, Register, OpenGlobal, Goto
  <2> QED BY <2>1, <2>2 DEF IInv, Prepared, PreparedBy, Writing
<1>5. Prepared'
  BY <1>3, <1>4, OthersKeep DEF IInv, Prepared
<1> QED BY <1>1, <1>2, <1>5 DEF IInv

(* The state is shared before the session's file is written.               *)
LEMMA WriteGlobalInv ==
  ASSUME IInv, NEW c \in Callers, WriteGlobal(c)
  PROVE  IInv'
<1>1. mine[c] \in States
  BY WritesState DEF WriteGlobal, Goto, Writing
<1>2. global' \in JsonFiles(States) /\ (global'.kind = "whole" => global'.value = mine[c])
  <2>1. global' \in AfterWrite(global, mine[c], DefaultState)
    BY DEF WriteGlobal
  <2> QED BY ONLY <1>1, <2>1, DefaultIsState DEF AfterWrite, Whole, Torn, JsonFiles, FileKinds
<1>3. TypeOK'
  BY <1>1, <1>2 DEF IInv, TypeOK, WriteGlobal, Goto, Phases
<1>4. Offered'
  BY <1>2 DEF IInv, Offered, WriteGlobal
<1>5. \A d \in Callers \ {c} : Untouched(d)
  BY DEF IInv, TypeOK, Untouched, WriteGlobal, Goto
<1>6. PreparedBy(c)'
  <2>1. CASE c \notin Sessions
    BY <1>1, <2>1 DEF IInv, TypeOK, WriteGlobal, Goto, PreparedBy, Writing
  <2>2. CASE c \in Sessions
    <3>1. pc[c] = "opened" /\ pc'[c] = "shared" /\ mine' = mine /\ partial' = partial /\ mine[c] \in published'
      BY <2>2 DEF IInv, TypeOK, WriteGlobal, Goto
    <3>2. Starts(c) \subseteq Starts(c)'
      BY <2>2, <3>1 DEF Starts, Register, WriteGlobal, Goto
    <3> QED BY <2>2, <3>1, <3>2 DEF IInv, Prepared, PreparedBy, Writing
  <2> QED BY <2>1, <2>2
<1>7. Prepared'
  BY <1>5, <1>6, OthersKeep DEF IInv, Prepared
<1> QED BY <1>3, <1>4, <1>7 DEF IInv

(* What the file held goes to held as the file is emptied.                 *)
LEMMA OpenFileInv ==
  ASSUME IInv, NEW c \in Callers, OpenFile(c)
  PROVE  IInv' /\ Register' = Register
<1>1. c \in Sessions /\ mine[c] \in published
  BY FileOfSession DEF OpenFile, Goto
<1>2. ReadJson(file[c], NoState) \in States \union {NoState}
  BY <1>1, ReadTyped DEF IInv, TypeOK
<1>3. TypeOK'
  BY <1>1, <1>2, EmptiedTyped DEF IInv, TypeOK, OpenFile, Goto, Phases
<1>4. Offered'
  BY DEF IInv, Offered, OpenFile
<1>5. \A d \in Callers \ {c} : Untouched(d)
  BY <1>1 DEF IInv, TypeOK, Untouched, OpenFile, Goto
<1>6. Register' = Register
  BY <1>1 DEF IInv, TypeOK, Register, OpenFile, Goto
<1>7. PreparedBy(c)'
  <2>1. pc[c] = "shared" /\ pc'[c] = "reopened" /\ file'[c].kind = "empty"
    BY <1>1 DEF IInv, TypeOK, OpenFile, Goto, Emptied
  <2>2. Starts(c)' = Starts(c)
    BY <1>6 DEF Starts, OpenFile
  <2> QED BY <1>1, <2>1, <2>2 DEF IInv, Prepared, PreparedBy, Writing, OpenFile
<1>8. Prepared'
  BY <1>5, <1>7, OthersKeep DEF IInv, Prepared
<1> QED BY <1>3, <1>4, <1>6, <1>8 DEF IInv

(* Nobody else has written the file, so the state is whole in it.          *)
LEMMA WriteFileInv ==
  ASSUME IInv, NEW c \in Callers, WriteFile(c)
  PROVE  /\ IInv'
         /\ Register' = [s \in Sessions |-> IF s = c THEN mine[c] ELSE Register[s]]
<1>1. c \in Sessions /\ mine[c] \in States
  BY FileOfSession DEF WriteFile, Goto
<1>2. file[c].kind = "empty"
  BY DEF IInv, Prepared, PreparedBy, WriteFile, Goto
<1>3. file' = [file EXCEPT ![c] = Whole(mine[c])]
  BY <1>2, WriteTyped DEF WriteFile, AfterWrite
<1>4. TypeOK'
  BY <1>1, <1>3 DEF IInv, TypeOK, WriteFile, Goto, Phases, Whole, JsonFiles, FileKinds
<1>5. Offered'
  BY DEF IInv, Offered, WriteFile
<1>6. \A d \in Callers \ {c} : Untouched(d)
  BY <1>1, <1>3 DEF IInv, TypeOK, Untouched, WriteFile, Goto
<1>7. pc'[c] = "answered"
  BY DEF IInv, TypeOK, WriteFile, Goto
<1>8. Register' = [s \in Sessions |-> IF s = c THEN mine[c] ELSE Register[s]]
  <2>1. Register'[c] = mine[c]
    BY <1>1, <1>3, <1>7 DEF IInv, TypeOK, Register, ReadJson, Whole
  <2>2. \A s \in Sessions \ {c} : Register'[s] = Register[s]
    BY <1>6, RegisterKept DEF Callers
  <2> QED BY <2>1, <2>2 DEF Register
<1>9. PreparedBy(c)'
  BY <1>1, <1>7, <1>8 DEF PreparedBy, Writing, WriteFile
<1>10. Prepared'
  BY <1>6, <1>9, OthersKeep DEF IInv, Prepared
<1> QED BY <1>4, <1>5, <1>8, <1>10 DEF IInv

LEMMA ForgetInv ==
  ASSUME IInv, NEW c \in Callers, Forget(c), UNCHANGED <<global, file, published>>,
         calls' \in Nat, held' \in [Sessions -> States \union {NoState}],
         \A s \in Sessions \ {c} : held'[s] = held[s]
  PROVE  IInv'
<1>1. TypeOK'
  BY DEF IInv, TypeOK, Forget, Phases
<1>2. Offered'
  BY DEF IInv, Offered
<1>3. \A d \in Callers \ {c} : Untouched(d)
  BY DEF IInv, TypeOK, Untouched, Forget
<1>4. pc'[c] = "idle"
  BY DEF IInv, TypeOK, Forget
<1>5. Prepared'
  BY <1>3, <1>4, OthersKeep DEF IInv, Prepared, PreparedBy, Writing
<1> QED BY <1>1, <1>2, <1>5 DEF IInv

LEMMA ReturnInv ==
  ASSUME IInv, NEW c \in Callers, Return(c)
  PROVE  IInv'
BY ForgetInv DEF Return, IInv, TypeOK

LEMMA CutOffInv ==
  ASSUME IInv, NEW c \in Callers, CutOff(c)
  PROVE  IInv'
<1>1. held' \in [Sessions -> States \union {NoState}] /\ \A s \in Sessions \ {c} : held'[s] = held[s]
  BY DEF CutOff, IInv, TypeOK
<1> QED BY <1>1, ForgetInv DEF CutOff, IInv, TypeOK

(* A call touches nothing of another call.                                 *)
LEMMA OwnOnly ==
  ASSUME IInv, NEW c \in Callers, NEW d \in Callers \ {c},
         (\E u \in Requests : Ask(c, u)) \/ Advance(c) \/ Return(c) \/ CutOff(c)
  PROVE  Untouched(d)
<1>1. CASE OpenFile(c) \/ WriteFile(c)
  BY <1>1, FileOfSession DEF IInv, TypeOK, Untouched, OpenFile, WriteFile, Goto
<1>2. CASE ~(OpenFile(c) \/ WriteFile(c))
  BY <1>2 DEF IInv, TypeOK, Untouched, Advance, Ask, ReadGlobal, Merge, OpenGlobal, WriteGlobal,
              Return, CutOff, Forget, Goto
<1> QED BY <1>1, <1>2

LEMMA StepInv == IInv /\ [Next]_stateVars => IInv'
<1> SUFFICES ASSUME IInv, [Next]_stateVars PROVE IInv'
  OBVIOUS
<1>1. CASE UNCHANGED stateVars
  <2>1. TypeOK' /\ Offered'
    BY <1>1 DEF IInv, TypeOK, Offered, stateVars
  <2>2. \A d \in Callers : Untouched(d)
    BY <1>1 DEF Untouched, stateVars
  <2> QED BY <2>1, <2>2, OthersKeep DEF IInv, Prepared
<1>2. CASE Next
  <2>1. PICK c \in Callers :
          (\E u \in Requests : Ask(c, u)) \/ Advance(c) \/ Return(c) \/ CutOff(c)
    BY <1>2 DEF Next
  <2> QED BY <2>1, AskInv, ReadGlobalInv, MergeInv, OpenGlobalInv, WriteGlobalInv, OpenFileInv,
             WriteFileInv, ReturnInv, CutOffInv DEF Advance
<1> QED BY <1>1, <1>2

LEMMA StateInvariant == Spec => []IInv
BY InitInv, StepInv, PTL DEF Spec

(* Type correctness of the state files and of the calls on them.           *)
THEOREM TypeCorrect == Spec => []TypeOK
<1>1. IInv => TypeOK
  BY DEF IInv
<1> QED BY <1>1, StateInvariant, PTL
-----------------------------------------------------------------------------
(* The register's definitions are those of the state files.                *)
LEMMA SameRules ==
  /\ Abstract!NoState = NoState
  /\ Abstract!Callers = Callers
  /\ Abstract!DefaultState = DefaultState
BY DEF Abstract!NoState, NoState, Abstract!Callers, Callers, Abstract!Nameless, Nameless,
       Abstract!DefaultState, DefaultState, Abstract!Fields, Fields

LEMMA SameMerged ==
  ASSUME NEW st, NEW part
  PROVE  Abstract!Merged(st, part) = Merged(st, part)
BY DEF Abstract!Merged, Merged, Abstract!Normalized, Normalized, Abstract!Overlay, Overlay,
       Abstract!Fields, Fields

LEMMA SameStarts ==
  ASSUME NEW c
  PROVE  Abstract!Starting(c) = Starts(c)
BY SameRules DEF Abstract!Starting, Starts

LEMMA StatusTyped == Status = [c \in Callers |-> Status[c]] /\ Reply = [c \in Callers |-> Reply[c]]
BY DEF Status, Reply

(* How the status and the reply of a call follow where it is.              *)
LEMMA StatusIs ==
  ASSUME NEW c \in Callers
  PROVE  /\ pc[c] = "idle" => Status[c] = "idle"
         /\ pc[c] = "answered" => Status[c] = "answered"
         /\ pc[c] \notin {"idle", "answered"} => Status[c] = "waiting"
         /\ Reply[c] = IF pc[c] = "answered" THEN mine[c] ELSE NoState
BY DEF Status, Reply

LEMMA StatusBecomes ==
  ASSUME TypeOK, TypeOK', NEW c \in Callers,
         \A d \in Callers \ {c} : pc'[d] = pc[d] /\ mine'[d] = mine[d]
  PROVE  /\ Status' = [Status EXCEPT ![c] = Status'[c]]
         /\ Reply' = [Reply EXCEPT ![c] = Reply'[c]]
<1>1. \A d \in Callers \ {c} : Status'[d] = Status[d] /\ Reply'[d] = Reply[d]
  BY DEF Status, Reply
<1>2. Status = [d \in Callers |-> Status[d]] /\ Status' = [d \in Callers |-> Status'[d]]
  BY DEF Status
<1>3. Reply = [d \in Callers |-> Reply[d]] /\ Reply' = [d \in Callers |-> Reply'[d]]
  BY DEF Reply
<1> QED BY <1>1, <1>2, <1>3

(* The registers are as they were unless the call has the file.            *)
LEMMA RegisterSame ==
  ASSUME TypeOK, NEW c \in Callers, \A d \in Callers \ {c} : Untouched(d),
         c \in Sessions => Register'[c] = Register[c]
  PROVE  Register' = Register
<1>1. \A s \in Sessions : Register'[s] = Register[s]
  BY RegisterKept DEF Callers
<1>2. Register = [s \in Sessions |-> Register[s]] /\ Register' = [s \in Sessions |-> Register'[s]]
  BY DEF Register
<1> QED BY <1>1, <1>2
-----------------------------------------------------------------------------
(* Every step of a call is a step of the register or none at all.          *)
LEMMA AskMaps ==
  ASSUME IInv, NEW c \in Callers, NEW u \in Requests, Ask(c, u)
  PROVE  Abstract!Ask(c, u)
<1>1. IInv' /\ TypeOK /\ TypeOK'
  BY AskInv DEF IInv
<1>2. pc[c] = "idle" /\ pc'[c] = "loading" /\ \A d \in Callers \ {c} : Untouched(d)
  BY <1>1 DEF TypeOK, Ask, Goto, Untouched
<1>3. Register' = Register
  BY <1>2 DEF Register, Ask, Goto
<1>4. Status[c] = "idle" /\ Status'[c] = "waiting" /\ Reply[c] = NoState /\ Reply'[c] = NoState
  BY <1>2 DEF Status, Reply
<1>5. Status' = [Status EXCEPT ![c] = "waiting"] /\ Reply' = Reply
  BY <1>1, <1>2, <1>4, StatusBecomes, StatusTyped DEF Untouched
<1> QED BY <1>3, <1>4, <1>5 DEF Abstract!Ask, Abstract!Becomes, Ask

(* Steps that read, open or put together are not seen.                     *)
LEMMA QuietMaps ==
  ASSUME IInv, NEW c \in Callers,
         \/ ReadGlobal(c)
         \/ Merge(c) /\ partial[c] # NoState
         \/ OpenGlobal(c)
         \/ OpenFile(c)
  PROVE  UNCHANGED Abstract!registerVars
<1>1. IInv' /\ TypeOK /\ TypeOK'
  BY ReadGlobalInv, MergeInv, OpenGlobalInv, OpenFileInv DEF IInv
<1>2. /\ pc[c] \notin {"idle", "answered", "reopened"} /\ pc'[c] \notin {"idle", "answered"}
      /\ \A d \in Callers \ {c} : pc'[d] = pc[d] /\ mine'[d] = mine[d]
      /\ UNCHANGED <<partial, published>>
  BY <1>1 DEF TypeOK, ReadGlobal, Merge, OpenGlobal, OpenFile, Goto
<1>3. Status'[c] = Status[c] /\ Reply'[c] = Reply[c]
  BY <1>2 DEF Status, Reply
<1>4. Status' = Status /\ Reply' = Reply
  BY <1>1, <1>2, <1>3, StatusBecomes, StatusTyped
<1>5. Register' = Register
  <2>1. CASE OpenFile(c)
    BY <2>1, OpenFileInv
  <2>2. CASE ~OpenFile(c)
    <3>1. file' = file /\ held' = held /\ pc'[c] # "reopened"
      BY <2>2, <1>1 DEF TypeOK, ReadGlobal, Merge, OpenGlobal, Goto
    <3>2. \A s \in Sessions : pc'[s] = "reopened" <=> pc[s] = "reopened"
      BY <1>2, <3>1 DEF Callers
    <3> QED BY <3>1, <3>2 DEF Register
  <2> QED BY <2>1, <2>2
<1> QED BY <1>2, <1>4, <1>5 DEF Abstract!registerVars

(* A call with nothing to save is answered with what it starts from.       *)
LEMMA LoadMaps ==
  ASSUME IInv, NEW c \in Callers, Merge(c), partial[c] = NoState
  PROVE  Abstract!Load(c)
<1> DEFINE current == Overlay(mine[c], Found(c))
<1>1. IInv' /\ TypeOK /\ TypeOK'
  BY MergeInv DEF IInv
<1>2. current \in Starts(c)
  BY CurrentStarts DEF Merge, Goto
<1>3. /\ pc[c] = "merging" /\ pc'[c] = "answered" /\ mine'[c] = current
      /\ \A d \in Callers \ {c} : pc'[d] = pc[d] /\ mine'[d] = mine[d]
  BY <1>1 DEF TypeOK, Merge, Goto
<1>4. Register' = Register
  BY <1>3 DEF Register, Merge, Goto
<1>5. Status[c] = "waiting" /\ Status'[c] = "answered" /\ Reply'[c] = current
  BY <1>3 DEF Status, Reply
<1>6. Status' = [Status EXCEPT ![c] = "answered"] /\ Reply' = [Reply EXCEPT ![c] = current]
  BY <1>1, <1>3, <1>5, StatusBecomes
<1> QED BY <1>2, <1>4, <1>5, <1>6, SameStarts, SameRules
        DEF Abstract!Load, Abstract!Becomes, Merge

(* What is written to the global file is shared; without a session that is *)
(* the whole save.                                                         *)
LEMMA ShareMaps ==
  ASSUME IInv, NEW c \in Sessions, WriteGlobal(c)
  PROVE  Abstract!Share(c)
<1>1. c \in Callers
  BY DEF Callers
<1>2. IInv' /\ TypeOK /\ TypeOK'
  BY <1>1, WriteGlobalInv DEF IInv
<1>3. partial[c] # NoState /\ \E st \in Starts(c) : mine[c] = Merged(st, partial[c])
  BY <1>1 DEF IInv, Prepared, PreparedBy, Writing, WriteGlobal, Goto
<1>4. /\ pc[c] = "opened" /\ pc'[c] = "shared"
      /\ \A d \in Callers \ {c} : pc'[d] = pc[d] /\ mine'[d] = mine[d]
  BY <1>1, <1>2 DEF TypeOK, WriteGlobal, Goto
<1>5. Register' = Register
  BY <1>4 DEF Register, WriteGlobal, Goto
<1>6. Status[c] = "waiting" /\ Status'[c] = Status[c] /\ Reply'[c] = Reply[c]
  BY <1>1, <1>4 DEF Status, Reply
<1>7. Status' = Status /\ Reply' = Reply
  BY <1>1, <1>2, <1>4, <1>6, StatusBecomes, StatusTyped
<1> QED BY <1>3, <1>5, <1>6, <1>7, SameStarts, SameRules, SameMerged DEF Abstract!Share, WriteGlobal

LEMMA NamelessSaveMaps ==
  ASSUME IInv, NEW c \in Callers, c \notin Sessions, WriteGlobal(c)
  PROVE  Abstract!Save(c)
<1>1. IInv' /\ TypeOK /\ TypeOK'
  BY WriteGlobalInv DEF IInv
<1>2. PICK st \in Starts(c) : mine[c] = Merged(st, partial[c])
  BY DEF IInv, Prepared, PreparedBy, Writing, WriteGlobal, Goto
<1>3. partial[c] # NoState
  BY DEF IInv, Prepared, PreparedBy, Writing, WriteGlobal, Goto
<1>4. /\ pc[c] = "opened" /\ pc'[c] = "answered" /\ mine' = mine
      /\ \A d \in Callers \ {c} : pc'[d] = pc[d] /\ mine'[d] = mine[d]
  BY <1>1 DEF TypeOK, WriteGlobal, Goto
<1>5. Register' = Register
  BY <1>4 DEF Register, WriteGlobal, Goto
<1>6. Status[c] = "waiting" /\ Status'[c] = "answered" /\ Reply'[c] = mine[c]
  BY <1>4 DEF Status, Reply
<1>7. Status' = [Status EXCEPT ![c] = "answered"] /\ Reply' = [Reply EXCEPT ![c] = mine[c]]
  BY <1>1, <1>4, <1>6, StatusBecomes
<1>8. Register' = [s \in Sessions |-> IF s = c THEN mine[c] ELSE Register[s]]
  BY <1>5 DEF Register
<1>9. st \in Abstract!Starting(c) /\ mine[c] = Abstract!Merged(st, partial[c])
  BY <1>2, SameStarts, SameMerged
<1> QED BY <1>3, <1>6, <1>7, <1>8, <1>9, SameRules DEF Abstract!Save, Abstract!Becomes, WriteGlobal

(* The session's save takes effect when its file is written.               *)
LEMMA SaveMaps ==
  ASSUME IInv, NEW c \in Callers, WriteFile(c)
  PROVE  Abstract!Save(c)
<1>1. IInv' /\ TypeOK /\ TypeOK'
  BY WriteFileInv DEF IInv
<1>2. c \in Sessions /\ mine[c] \in published
  BY FileOfSession DEF WriteFile, Goto
<1>3. PICK st \in Starts(c) : mine[c] = Merged(st, partial[c])
  BY DEF IInv, Prepared, PreparedBy, Writing, WriteFile, Goto
<1>4. partial[c] # NoState
  BY DEF IInv, Prepared, PreparedBy, Writing, WriteFile, Goto
<1>5. /\ pc[c] = "reopened" /\ pc'[c] = "answered" /\ mine' = mine
      /\ \A d \in Callers \ {c} : pc'[d] = pc[d] /\ mine'[d] = mine[d]
  BY <1>1 DEF TypeOK, WriteFile, Goto
<1>6. Register' = [s \in Sessions |-> IF s = c THEN mine[c] ELSE Register[s]]
  BY WriteFileInv
<1>7. Status[c] = "waiting" /\ Status'[c] = "answered" /\ Reply'[c] = mine[c]
  BY <1>5 DEF Status, Reply
<1>8. Status' = [Status EXCEPT ![c] = "answered"] /\ Reply' = [Reply EXCEPT ![c] = mine[c]]
  BY <1>1, <1>5, <1>7, StatusBecomes
<1>9. st \in Abstract!Starting(c) /\ mine[c] = Abstract!Merged(st, partial[c])
  BY <1>3, SameStarts, SameMerged
<1> QED BY <1>2, <1>4, <1>6, <1>7, <1>8, <1>9, SameRules
        DEF Abstract!Save, Abstract!Becomes, WriteFile

LEMMA ReturnMaps ==
  ASSUME IInv, NEW c \in Callers, Return(c)
  PROVE  Abstract!Return(c)
<1>1. IInv' /\ TypeOK /\ TypeOK'
  BY ReturnInv DEF IInv
<1>2. /\ pc[c] = "answered" /\ pc'[c] = "idle"
      /\ \A d \in Callers \ {c} : pc'[d] = pc[d] /\ mine'[d] = mine[d]
  BY <1>1 DEF TypeOK, Return, Forget
<1>3. Register' = Register
  BY <1>1, <1>2 DEF TypeOK, Register, Return, Forget
<1>4. Status[c] = "answered" /\ Status'[c] = "idle" /\ Reply'[c] = NoState
  BY <1>2 DEF Status, Reply
<1>5. Status' = [Status EXCEPT ![c] = "idle"] /\ Reply' = [Reply EXCEPT ![c] = NoState]
  BY <1>1, <1>2, <1>4, StatusBecomes
<1> QED BY <1>3, <1>4, <1>5, SameRules DEF Abstract!Return, Abstract!Becomes, Return, Forget

(* A call that is cut off with its file open takes the register with it.   *)
LEMMA FailMaps ==
  ASSUME IInv, NEW c \in Callers, CutOff(c)
  PROVE  Abstract!Fail(c)
<1>1. IInv' /\ TypeOK /\ TypeOK'
  BY CutOffInv DEF IInv
<1>2. /\ pc[c] \notin {"idle", "answered"} /\ pc'[c] = "idle"
      /\ \A d \in Callers \ {c} : Untouched(d)
  BY <1>1 DEF TypeOK, CutOff, Forget, Untouched
<1>3. Status[c] = "waiting" /\ Status'[c] = "idle" /\ Reply[c] = NoState /\ Reply'[c] = NoState
  BY <1>2 DEF Status, Reply
<1>4. Status' = [Status EXCEPT ![c] = "idle"] /\ Reply' = Reply
  BY <1>1, <1>2, <1>3, StatusBecomes, StatusTyped DEF Untouched
<1>5. CASE pc[c] = "reopened"
  <2>1. c \in Sessions /\ partial[c] # NoState /\ file[c].kind = "empty"
    BY <1>5 DEF IInv, Prepared, PreparedBy, Writing
  <2>2. Register'[c] = NoState
    <3>1. pc'[c] = "idle" /\ file' = file
      BY <1>2 DEF CutOff
    <3>2. Register'[c] = ReadJson(file[c], NoState)
      BY <2>1, <3>1 DEF Register
    <3> QED BY <2>1, <3>2 DEF ReadJson
  <2>3. \A s \in Sessions \ {c} : Register'[s] = Register[s]
    BY <1>2, RegisterKept DEF Callers
  <2>4. Register' = [s \in Sessions |-> IF s = c THEN NoState ELSE Register[s]]
    BY <2>2, <2>3 DEF Register
  <2> QED BY <1>3, <1>4, <2>1, <2>4, SameRules
          DEF Abstract!Fail, Abstract!Becomes, CutOff, Forget
<1>6. CASE pc[c] # "reopened"
  <2>1. c \in Sessions => Register'[c] = Register[c]
    BY <1>2, <1>6 DEF Register, CutOff
  <2>2. Register' = Register
    BY <1>1, <1>2, <2>1, RegisterSame
  <2> QED BY <1>3, <1>4, <2>2, SameRules DEF Abstract!Fail, Abstract!Becomes, CutOff, Forget
<1> QED BY <1>5, <1>6

LEMMA InitMaps == Init => Abstract!Init
<1> SUFFICES ASSUME Init PROVE Abstract!Init
  OBVIOUS
<1>1. Register = [s \in Sessions |-> NoState]
  BY DEF Init, Register, ReadJson, Emptied, Callers
<1>2. Status = [c \in Callers |-> "idle"] /\ Reply = [c \in Callers |-> NoState]
  BY DEF Init, Status, Reply
<1> QED BY <1>1, <1>2, SameRules DEF Abstract!Init, Init

LEMMA CallMaps ==
  ASSUME IInv, NEW c \in Callers,
         (\E u \in Requests : Ask(c, u)) \/ Advance(c) \/ Return(c) \/ CutOff(c)
  PROVE  [Abstract!Next]_Abstract!registerVars
<1>1. CASE \E u \in Requests : Ask(c, u)
  BY <1>1, AskMaps, SameRules DEF Abstract!Next
<1>2. CASE \/ ReadGlobal(c) \/ OpenGlobal(c) \/ OpenFile(c)
  BY <1>2, QuietMaps
<1>3. CASE Merge(c)
  <2>1. CASE partial[c] = NoState
    BY <1>3, <2>1, LoadMaps, SameRules DEF Abstract!Next
  <2>2. CASE partial[c] # NoState
    BY <1>3, <2>2, QuietMaps
  <2> QED BY <2>1, <2>2
<1>4. CASE WriteGlobal(c)
  <2>1. CASE c \in Sessions
    BY <1>4, <2>1, ShareMaps, SameRules DEF Abstract!Next
  <2>2. CASE c \notin Sessions
    BY <1>4, <2>2, NamelessSaveMaps, SameRules DEF Abstract!Next
  <2> QED BY <2>1, <2>2
<1>5. CASE WriteFile(c)
  BY <1>5, SaveMaps, SameRules DEF Abstract!Next
<1>6. CASE Return(c)
  BY <1>6, ReturnMaps, SameRules DEF Abstract!Next
<1>7. CASE CutOff(c)
  BY <1>7, FailMaps, SameRules DEF Abstract!Next
<1> QED BY <1>1, <1>2, <1>3, <1>4, <1>5, <1>6, <1>7 DEF Advance

LEMMA QuietStep ==
  ASSUME UNCHANGED <<file, pc, partial, mine, published, held>>
  PROVE  UNCHANGED Abstract!registerVars
BY DEF Abstract!registerVars, Register, Status, Reply

LEMMA StepMaps == IInv /\ [Next]_stateVars => [Abstract!Next]_Abstract!registerVars
BY CallMaps, QuietStep DEF Next, stateVars

(* "global + per-session overlay" (src/directives.ts:1): the two files,    *)
(* written without a lock by calls of any sessions, are a register per     *)
(* session that only the session's own calls change, in one step.          *)
THEOREM StateIsRegister == Spec => RefinesRegister
BY InitMaps, StateInvariant, StepMaps, PTL DEF Spec, RefinesRegister, Abstract!Spec

-----------------------------------------------------------------------------
(* The host.                                                               *)
Steps == {"none", "reading", "composed", "opened", "written"}

SpiritTypeOK ==
  /\ contract \in [Spirits -> [mtime: Nat, content: Contents, twice: BOOLEAN]]
  /\ cache \in [Spirits -> [mtime: Nat, content: Contents]]
  /\ active \in JsonFiles(Outputs)
  /\ mirror \in [Rooms -> JsonFiles(Outputs)]
  /\ step \in [Callers -> Steps]
  /\ stamp \in [Callers -> Nat] /\ shown \in [Callers -> Contents] /\ since \in [Callers -> Contents]
  /\ mirrored \in [Sessions -> BOOLEAN]

(* The host works with a call's answer.                                    *)
Answered ==
  \A c \in Callers :
    /\ step[c] # "none" => pc[c] = "answered"
    /\ step[c] \in {"opened", "written"} => RoomOf[c] # NoRoom

(* A text cached under the contract's mtime is not older than the contract *)
(* is, if no other content has the mtime.                                  *)
CacheIsFresh ==
  \A n \in Spirits :
    /\ cache[n].mtime <= contract[n].mtime
    /\ cache[n].mtime = contract[n].mtime /\ ~contract[n].twice =>
         cache[n].content >= contract[n].content

(* Nor is what a call has read, or is going to.                            *)
ReadingIsFresh ==
  \A c \in Callers :
    /\ step[c] = "reading" => /\ stamp[c] <= contract[Spirit(c)].mtime
                              /\ since[c] <= contract[Spirit(c)].content
    /\ step[c] = "composed" => shown[c] >= since[c]

(* A mirror that was written is left alone until its session's next call.  *)
MirrorKept ==
  \A s \in Sessions : mirrored[s] =>
    /\ pc[s] = "idle" /\ RoomOf[s] # NoRoom
    /\ mirror[RoomOf[s]].kind = "whole"
    /\ Register[s] # NoState => mirror[RoomOf[s]].value.state = Register[s]
    /\ active.kind = "whole" /\ active.value.room = RoomOf[s] => mirror[RoomOf[s]] = active

(* A call that is about to write the mirror has written the house's file.  *)
ActiveKept ==
  \A c \in Callers :
    step[c] = "written" /\ active.kind = "whole" /\ active.value.room = RoomOf[c] =>
      active = Whole(Output(c))

HostInv ==
  /\ IInv /\ SpiritTypeOK /\ Answered /\ CacheIsFresh /\ ReadingIsFresh
  /\ MirrorKept /\ ActiveKept
-----------------------------------------------------------------------------
LEMMA ContentsAreNat == Contents \subseteq Nat /\ 0 \in Contents
BY SpiritAssumption DEF Contents

(* A call that was answered has a spirit, and something to write.          *)
LEMMA OutputTyped ==
  ASSUME IInv, SpiritTypeOK, NEW c \in Callers, pc[c] = "answered"
  PROVE  /\ mine[c] \in States /\ Spirit(c) \in Spirits
         /\ Output(c) \in Outputs /\ Output(c).room = RoomOf[c] /\ Output(c).state = mine[c]
<1>1. mine[c] \in States
  BY DEF IInv, Prepared, PreparedBy
<1>2. RoomOf[c] \in Rooms \union {NoRoom}
  BY DEF Rooms
<1> QED BY <1>1, <1>2 DEF SpiritTypeOK, Spirit, States, Output, Outputs

LEMMA NoOutputTyped == NoOutput \in Outputs
BY DefaultIsState, ContentsAreNat DEF NoOutput, Outputs

LEMMA FileOfOutput ==
  ASSUME NEW x \in Outputs, NEW f \in JsonFiles(Outputs)
  PROVE  /\ Whole(x) \in JsonFiles(Outputs) /\ Whole(x).kind = "whole" /\ Whole(x).value = x
         /\ Emptied(NoOutput) \in JsonFiles(Outputs) /\ Emptied(NoOutput).kind = "empty"
         /\ \A g \in AfterWrite(f, x, NoOutput) :
              g \in JsonFiles(Outputs) /\ (g.kind = "whole" => g = Whole(x))
BY NoOutputTyped DEF Whole, Emptied, Torn, AfterWrite, JsonFiles, FileKinds

(* Rooms have one caller.                                                  *)
LEMMA OwnRoom ==
  ASSUME NEW c \in Callers, NEW d \in Callers, RoomOf[c] = RoomOf[d], RoomOf[c] # NoRoom
  PROVE  c = d
BY SpiritAssumption

LEMMA HostInitInv == HostInit => HostInv
<1> SUFFICES ASSUME HostInit PROVE HostInv
  OBVIOUS
<1>1. IInv
  BY InitInv DEF HostInit
<1>2. SpiritTypeOK
  BY ContentsAreNat, NoOutputTyped, EmptiedTyped
     DEF HostInit, SpiritInit, SpiritTypeOK, Uncached, Steps
<1>3. Answered /\ ReadingIsFresh /\ MirrorKept /\ ActiveKept
  BY DEF HostInit, SpiritInit, Answered, ReadingIsFresh, MirrorKept, ActiveKept, Callers
<1>4. CacheIsFresh
  BY DEF HostInit, SpiritInit, CacheIsFresh, Uncached
<1> QED BY <1>1, <1>2, <1>3, <1>4 DEF HostInv
-----------------------------------------------------------------------------
(* What the host holds of a call, and its room's mirror, as they were.     *)
HostUntouched(d) ==
  /\ Untouched(d)
  /\ step'[d] = step[d] /\ stamp'[d] = stamp[d] /\ shown'[d] = shown[d] /\ since'[d] = since[d]
  /\ d \in Sessions => mirrored'[d] = mirrored[d]
  /\ RoomOf[d] # NoRoom => mirror'[RoomOf[d]] = mirror[RoomOf[d]]

(* The contract is edited: a new content, often with a new mtime.          *)
LEMMA EditInv ==
  ASSUME HostInv, NEW n \in Edited, Edit(n)
  PROVE  HostInv'
<1> USE DEF HostInv
<1>1. n \in Spirits /\ contract[n] \in [mtime: Nat, content: Contents, twice: BOOLEAN]
  BY SpiritAssumption DEF SpiritTypeOK
<1>2. contract[n].content + 1 \in Contents
  BY <1>1, SpiritAssumption DEF Edit, Contents
<1>3. PICK tick \in 0 .. 1 :
        contract' = [contract EXCEPT ![n] =
          [mtime |-> @.mtime + tick, content |-> @.content + 1, twice |-> tick = 0]]
  BY DEF Edit
<1>4. \A m \in Spirits \ {n} : contract'[m] = contract[m]
  BY <1>3 DEF SpiritTypeOK
<1>5. contract'[n] = [mtime |-> contract[n].mtime + tick, content |-> contract[n].content + 1,
                      twice |-> tick = 0]
  BY <1>1, <1>3 DEF SpiritTypeOK
<1>6. contract' \in [Spirits -> [mtime: Nat, content: Contents, twice: BOOLEAN]]
  BY <1>1, <1>2, <1>3, <1>4, <1>5 DEF SpiritTypeOK
<1>7. /\ UNCHANGED <<global, file, pc, partial, mine, published, held>> /\ calls' \in Nat
      /\ UNCHANGED <<cache, active, mirror, step, stamp, shown, since, mirrored>>
  BY DEF Edit, IInv, TypeOK
<1>8. \A d \in Callers : Untouched(d)
  BY <1>7 DEF Untouched
<1>9. IInv'
  <2>1. TypeOK' /\ Offered'
    BY <1>7 DEF IInv, TypeOK, Offered
  <2> QED BY <1>8, <2>1, OthersKeep DEF IInv, Prepared
<1>10. SpiritTypeOK' /\ Answered'
  BY <1>6, <1>7 DEF SpiritTypeOK, Answered
<1>11. CacheIsFresh'
  <2>1. ASSUME NEW m \in Spirits
        PROVE  /\ cache[m].mtime <= contract'[m].mtime
               /\ cache[m].mtime = contract'[m].mtime /\ ~contract'[m].twice =>
                    cache[m].content >= contract'[m].content
    <3>1. CASE m = n
      <4>1. cache[n].mtime <= contract[n].mtime /\ cache[n].mtime \in Nat
        BY <1>1 DEF CacheIsFresh, SpiritTypeOK
      <4>2. contract'[n].mtime = contract[n].mtime + tick
        BY <1>5
      <4>3. contract'[n].twice = (tick = 0)
        BY <1>5
      <4>4. tick = 0 => contract'[n].twice
        BY <4>3, Zenon
      <4>5. contract[n].mtime \in Nat /\ tick \in 0 .. 1
        BY <1>1
      <4>6. cache[n].mtime <= contract'[n].mtime
        BY <4>1, <4>2, <4>5
      <4>7. tick # 0 => cache[n].mtime # contract'[n].mtime
        BY <4>1, <4>2, <4>5
      <4> QED BY <3>1, <4>6, <4>7, <4>4
    <3>2. CASE m # n
      BY <1>4, <3>2 DEF CacheIsFresh
    <3> QED BY <3>1, <3>2
  <2> QED BY <1>7, <2>1 DEF CacheIsFresh
<1>12. ReadingIsFresh'
  <2>1. ASSUME NEW c \in Callers, step[c] = "reading"
        PROVE  stamp[c] <= contract'[Spirit(c)].mtime /\ since[c] <= contract'[Spirit(c)].content
    <3>1. Spirit(c) \in Spirits /\ stamp[c] \in Nat /\ since[c] \in Nat
      BY <2>1, OutputTyped, ContentsAreNat DEF Answered, SpiritTypeOK
    <3>2. stamp[c] <= contract[Spirit(c)].mtime /\ since[c] <= contract[Spirit(c)].content
      BY <2>1 DEF ReadingIsFresh
    <3>3. contract[Spirit(c)].mtime \in Nat /\ contract[Spirit(c)].content \in Nat
      BY <3>1, ContentsAreNat DEF SpiritTypeOK
    <3> QED BY <1>4, <1>5, <3>1, <3>2, <3>3
  <2> QED BY <1>7, <2>1 DEF ReadingIsFresh, Spirit
<1>13. MirrorKept' /\ ActiveKept'
  <2>1. Register' = Register
    BY <1>7 DEF Register
  <2> QED BY <1>7, <2>1 DEF MirrorKept, ActiveKept, Output
<1> QED BY <1>9, <1>10, <1>11, <1>12, <1>13

(* A step of a call that has not been answered.                            *)
LEMMA CallInv ==
  ASSUME HostInv, NEW c \in Callers,
         (\E u \in Requests : Ask(c, u)) \/ Advance(c) \/ CutOff(c),
         UNCHANGED <<contract, cache, active, mirror, step, stamp, shown, since>>,
         mirrored' \in [Sessions -> BOOLEAN],
         \A s \in Sessions : mirrored'[s] => s # c /\ mirrored[s]
  PROVE  HostInv'
<1> USE DEF HostInv
<1>1. pc[c] # "answered"
  BY DEF IInv, TypeOK, Advance, Ask, ReadGlobal, Merge, OpenGlobal, WriteGlobal, OpenFile, WriteFile,
         CutOff, Goto
<1>2. step[c] = "none"
  BY <1>1 DEF Answered
<1>3. \A d \in Callers \ {c} : Untouched(d)
  BY OwnOnly
<1>4. IInv'
  BY StepInv DEF Next
<1>5. SpiritTypeOK' /\ CacheIsFresh'
  BY DEF SpiritTypeOK, CacheIsFresh
<1>6. Answered'
  BY <1>2, <1>3 DEF Answered, Untouched
<1>7. ReadingIsFresh'
  BY <1>2, <1>3 DEF ReadingIsFresh, Untouched, Spirit
<1>8. ActiveKept'
  BY <1>2, <1>3 DEF ActiveKept, Untouched, Output
<1>9. MirrorKept'
  <2>1. \A s \in Sessions \ {c} : Register'[s] = Register[s] /\ pc'[s] = pc[s]
    BY <1>3, RegisterKept DEF Callers, Untouched
  <2> QED BY <2>1 DEF MirrorKept
<1> QED BY <1>4, <1>5, <1>6, <1>7, <1>8, <1>9

LEMMA StateKept ==
  ASSUME IInv, UNCHANGED stateVars
  PROVE  IInv' /\ Register' = Register
<1>1. IInv'
  BY StepInv
<1> QED BY <1>1 DEF stateVars, Register

(* A step of the host with an answer that leaves the mirrors alone.        *)
AnswerStep(c) ==
  /\ UNCHANGED <<stateVars, contract, mirror, mirrored>>
  /\ SpiritTypeOK' /\ CacheIsFresh' /\ pc[c] = "answered"
  /\ \A d \in Callers \ {c} :
       step'[d] = step[d] /\ stamp'[d] = stamp[d] /\ shown'[d] = shown[d] /\ since'[d] = since[d]
  /\ step'[c] \in {"opened", "written"} => RoomOf[c] # NoRoom
  /\ step'[c] = "reading" => /\ stamp'[c] <= contract[Spirit(c)].mtime
                             /\ since'[c] <= contract[Spirit(c)].content
  /\ step'[c] = "composed" => shown'[c] >= since'[c]
  /\ active'.kind = "whole" => active' = active \/ (active' = Whole(Output(c)) /\ RoomOf[c] # NoRoom)
  /\ step'[c] = "written" => /\ shown'[c] = shown[c]
                             /\ active'.kind = "whole" /\ active'.value.room = RoomOf[c] =>
                                  active' = Whole(Output(c))

LEMMA AnswerInv ==
  ASSUME HostInv, NEW c \in Callers, AnswerStep(c)
  PROVE  HostInv'
<1> USE DEF HostInv, AnswerStep
<1>1. IInv' /\ Register' = Register /\ pc' = pc /\ mine' = mine
  BY StateKept DEF stateVars
<1>2. Answered'
  BY <1>1 DEF Answered
<1>3. ReadingIsFresh'
  BY <1>1 DEF ReadingIsFresh, Spirit
<1>4. Whole(Output(c)).kind = "whole" /\ Whole(Output(c)).value.room = RoomOf[c]
  BY DEF Whole, Output
<1>5. MirrorKept'
  <2>1. ASSUME NEW s \in Sessions, mirrored[s], active'.kind = "whole", active'.value.room = RoomOf[s]
        PROVE  active' = active
    <3>1. s # c /\ RoomOf[s] # NoRoom /\ s \in Callers
      BY <2>1 DEF MirrorKept, Callers
    <3>2. RoomOf[s] # RoomOf[c]
      BY <3>1, OwnRoom
    <3> QED BY <1>4, <2>1, <3>2
  <2> QED BY <1>1, <2>1 DEF MirrorKept
<1>6. ActiveKept'
  <2>1. ASSUME NEW d \in Callers, step'[d] = "written", active'.kind = "whole", active'.value.room = RoomOf[d]
        PROVE  active' = Whole(Output(d))'
    <3>1. CASE d = c
      BY <1>1, <2>1, <3>1 DEF Output, Whole
    <3>2. CASE d # c
      <4>1. RoomOf[d] # NoRoom
        BY <2>1, <3>2 DEF Answered
      <4>2. active' = active
        BY <1>4, <2>1, <3>2, <4>1, OwnRoom
      <4> QED BY <1>1, <2>1, <3>2, <4>2 DEF ActiveKept, Output, Whole
    <3> QED BY <3>1, <3>2
  <2> QED BY <2>1 DEF ActiveKept
<1> QED BY <1>1, <1>2, <1>3, <1>5, <1>6

(* stat: a hit has a text that is not older, unless the mtime is shared.   *)
LEMMA StatInv ==
  ASSUME HostInv, NEW c \in Callers, StatContract(c)
  PROVE  HostInv'
<1> USE DEF HostInv
<1> DEFINE n == Spirit(c)
<1>1. pc[c] = "answered" /\ step[c] = "none"
  BY DEF StatContract
<1>2. n \in Spirits
  BY <1>1, OutputTyped
<1>3. /\ contract[n] \in [mtime: Nat, content: Contents, twice: BOOLEAN]
      /\ cache[n] \in [mtime: Nat, content: Contents]
  BY <1>2 DEF SpiritTypeOK
<1>4. since' = [since EXCEPT ![c] = IF contract[n].twice THEN 0 ELSE contract[n].content]
  BY Zenon DEF StatContract
<1>5. since'[c] \in Contents /\ since'[c] <= contract[n].content
  <2>1. since'[c] = IF contract[n].twice THEN 0 ELSE contract[n].content
    BY <1>4 DEF SpiritTypeOK
  <2>2. contract[n].content \in Contents /\ contract[n].content \in Nat
    BY <1>3, ContentsAreNat
  <2>3. since'[c] = 0 \/ since'[c] = contract[n].content
    BY <2>1, Zenon
  <2> QED BY <2>2, <2>3, ContentsAreNat
<1>6. UNCHANGED <<stateVars, contract, cache, active, mirror, mirrored>>
  BY DEF StatContract
<1>7. CASE ~Missing(n) /\ ~Hit(n) /\ Reading(c)
  <2>1. /\ step' = [step EXCEPT ![c] = "reading"] /\ stamp' = [stamp EXCEPT ![c] = contract[n].mtime]
        /\ shown' = shown
    BY <1>7 DEF Reading, Move
  <2>2. SpiritTypeOK'
    BY <1>3, <1>4, <1>5, <1>6, <2>1 DEF SpiritTypeOK, Steps
  <2>3. CacheIsFresh'
    BY <1>6 DEF CacheIsFresh
  <2>4. step'[c] = "reading" /\ stamp'[c] <= contract[n].mtime
    BY <1>3, <2>1 DEF SpiritTypeOK
  <2>5. \A d \in Callers \ {c} : /\ step'[d] = step[d] /\ stamp'[d] = stamp[d]
                                 /\ shown'[d] = shown[d] /\ since'[d] = since[d]
    BY <1>4, <2>1 DEF SpiritTypeOK
  <2>6. AnswerStep(c)
    BY <1>1, <1>5, <1>6, <2>2, <2>3, <2>4, <2>5 DEF AnswerStep
  <2> QED BY <2>6, AnswerInv
<1>8. ASSUME NEW content \in Contents, content >= since'[c], Using(c, content)
      PROVE  HostInv'
  <2>1. /\ step' = [step EXCEPT ![c] = "composed"] /\ shown' = [shown EXCEPT ![c] = content]
        /\ stamp' = stamp
    BY <1>8 DEF Using, Move
  <2>2. SpiritTypeOK'
    BY <1>4, <1>5, <1>6, <1>8, <2>1 DEF SpiritTypeOK, Steps
  <2>3. CacheIsFresh'
    BY <1>6 DEF CacheIsFresh
  <2>4. step'[c] = "composed" /\ shown'[c] >= since'[c]
    BY <1>8, <2>1 DEF SpiritTypeOK
  <2>5. \A d \in Callers \ {c} : /\ step'[d] = step[d] /\ stamp'[d] = stamp[d]
                                 /\ shown'[d] = shown[d] /\ since'[d] = since[d]
    BY <1>4, <2>1 DEF SpiritTypeOK
  <2>6. AnswerStep(c)
    BY <1>1, <1>6, <2>2, <2>3, <2>4, <2>5 DEF AnswerStep
  <2> QED BY <2>6, AnswerInv
<1>9. CASE Missing(n) /\ Using(c, 0)
  BY <1>3, <1>5, <1>8, <1>9, ContentsAreNat DEF Missing
<1>10. CASE ~Missing(n) /\ Hit(n) /\ Using(c, cache[n].content)
  <2>1. cache[n].mtime = contract[n].mtime
    BY <1>10 DEF Hit
  <2>2. ~contract[n].twice => cache[n].content >= contract[n].content
    BY <1>2, <2>1 DEF CacheIsFresh
  <2>3. contract[n].twice => since'[c] = 0
    BY <1>4 DEF SpiritTypeOK
  <2>4. ~contract[n].twice => since'[c] = contract[n].content
    BY <1>4 DEF SpiritTypeOK
  <2>5. cache[n].content \in Contents /\ cache[n].content \in Nat /\ contract[n].content \in Nat
    BY <1>3, ContentsAreNat
  <2>6. cache[n].content >= since'[c]
    <3>1. CASE contract[n].twice
      BY <2>3, <2>5, <3>1
    <3>2. CASE ~contract[n].twice
      BY <2>2, <2>4, <2>5, <3>2
    <3> QED BY <3>1, <3>2
  <2> QED BY <1>8, <1>10, <2>5, <2>6
<1> QED BY <1>7, <1>9, <1>10 DEF StatContract

(* read: the text is not older than at stat, nor than the mtime it is      *)
(* cached under.                                                           *)
LEMMA ReadInv ==
  ASSUME HostInv, NEW c \in Callers, ReadContract(c)
  PROVE  HostInv'
<1> USE DEF HostInv
<1> DEFINE n == Spirit(c)
<1>1. pc[c] = "answered" /\ step[c] = "reading" /\ step' = [step EXCEPT ![c] = "composed"]
  BY DEF ReadContract, Move
<1>2. n \in Spirits
  BY <1>1, OutputTyped
<1>3. /\ contract[n] \in [mtime: Nat, content: Contents, twice: BOOLEAN]
      /\ stamp[c] \in Nat /\ since[c] \in Contents
  BY <1>2 DEF SpiritTypeOK
<1>4. /\ shown' = [shown EXCEPT ![c] = contract[n].content] /\ stamp' = [stamp EXCEPT ![c] = 0]
      /\ cache' = [cache EXCEPT ![n] = [mtime |-> stamp[c], content |-> contract[n].content]]
      /\ UNCHANGED <<stateVars, contract, active, mirror, since, mirrored>>
  BY DEF ReadContract
<1>5. SpiritTypeOK'
  BY <1>1, <1>2, <1>3, <1>4 DEF SpiritTypeOK, Steps
<1>6. stamp[c] <= contract[n].mtime /\ since[c] <= contract[n].content
  BY <1>1 DEF ReadingIsFresh
<1>7. CacheIsFresh'
  <2>1. cache'[n] = [mtime |-> stamp[c], content |-> contract[n].content]
    BY <1>2, <1>4 DEF SpiritTypeOK
  <2>2. \A m \in Spirits \ {n} : cache'[m] = cache[m]
    BY <1>4 DEF SpiritTypeOK
  <2>3. contract[n].content \in Nat
    BY <1>3, ContentsAreNat
  <2> QED BY <1>4, <1>6, <2>1, <2>2, <2>3 DEF CacheIsFresh
<1>8. step'[c] = "composed" /\ shown'[c] >= since'[c]
  <2>1. contract[n].content \in Nat /\ since[c] \in Nat
    BY <1>3, ContentsAreNat
  <2>2. shown'[c] = contract[n].content /\ since'[c] = since[c]
    BY <1>4 DEF SpiritTypeOK
  <2>3. step'[c] = "composed"
    BY <1>1 DEF SpiritTypeOK
  <2> QED BY <1>6, <2>1, <2>2, <2>3
<1>9. \A d \in Callers \ {c} : /\ step'[d] = step[d] /\ stamp'[d] = stamp[d]
                               /\ shown'[d] = shown[d] /\ since'[d] = since[d]
  BY <1>1, <1>4 DEF SpiritTypeOK
<1>10. AnswerStep(c)
  BY <1>1, <1>4, <1>5, <1>7, <1>8, <1>9 DEF AnswerStep
<1> QED BY <1>10, AnswerInv

LEMMA OpenActiveInv ==
  ASSUME HostInv, NEW c \in Callers, OpenActive(c)
  PROVE  HostInv'
<1> USE DEF HostInv
<1>1. /\ pc[c] = "answered" /\ RoomOf[c] # NoRoom /\ step' = [step EXCEPT ![c] = "opened"]
      /\ active' = Emptied(NoOutput) /\ since' = [since EXCEPT ![c] = 0]
      /\ UNCHANGED <<stateVars, contract, cache, mirror, stamp, shown, mirrored>>
  BY DEF OpenActive, Move
<1>2. active' \in JsonFiles(Outputs) /\ active'.kind = "empty"
  BY <1>1, NoOutputTyped, EmptiedTyped
<1>3. SpiritTypeOK'
  BY <1>1, <1>2, ContentsAreNat DEF SpiritTypeOK, Steps
<1>4. CacheIsFresh'
  BY <1>1 DEF CacheIsFresh
<1>5. step'[c] = "opened"
  BY <1>1 DEF SpiritTypeOK
<1>6. \A d \in Callers \ {c} : step'[d] = step[d] /\ since'[d] = since[d]
  BY <1>1 DEF SpiritTypeOK
<1>7. AnswerStep(c)
  BY <1>1, <1>2, <1>3, <1>4, <1>5, <1>6 DEF AnswerStep
<1> QED BY <1>7, AnswerInv

LEMMA WriteActiveInv ==
  ASSUME HostInv, NEW c \in Callers, WriteActive(c)
  PROVE  HostInv'
<1> USE DEF HostInv
<1>1. /\ pc[c] = "answered" /\ step[c] = "opened" /\ step' = [step EXCEPT ![c] = "written"]
      /\ active' \in AfterWrite(active, Output(c), NoOutput)
      /\ UNCHANGED <<stateVars, contract, cache, mirror, stamp, shown, since, mirrored>>
  BY DEF WriteActive, Move
<1>2. RoomOf[c] # NoRoom
  BY <1>1 DEF Answered
<1>3. active' \in JsonFiles(Outputs) /\ (active'.kind = "whole" => active' = Whole(Output(c)))
  <2>1. Output(c) \in Outputs /\ active \in JsonFiles(Outputs)
    BY <1>1, OutputTyped DEF SpiritTypeOK
  <2> QED BY <1>1, <2>1, FileOfOutput
<1>4. SpiritTypeOK'
  BY <1>1, <1>3 DEF SpiritTypeOK, Steps
<1>5. CacheIsFresh'
  BY <1>1 DEF CacheIsFresh
<1>6. step'[c] = "written"
  BY <1>1 DEF SpiritTypeOK
<1>7. \A d \in Callers \ {c} : step'[d] = step[d]
  BY <1>1 DEF SpiritTypeOK
<1>8. AnswerStep(c)
  BY <1>1, <1>2, <1>3, <1>4, <1>5, <1>6, <1>7 DEF AnswerStep
<1> QED BY <1>8, AnswerInv

(* The call ends, with its mirror written or left alone.                   *)
LEMMA EndInv ==
  ASSUME HostInv, NEW c \in Callers, End(c), pc[c] = "answered",
         mirror' \in [Rooms -> JsonFiles(Outputs)], mirrored' \in [Sessions -> BOOLEAN],
         \A r \in Rooms : r # RoomOf[c] => mirror'[r] = mirror[r],
         \A s \in Sessions : s # c => mirrored'[s] = mirrored[s],
         c \in Sessions /\ mirrored'[c] =>
           step[c] = "written" /\ mirror'[RoomOf[c]] = Whole(Output(c))
  PROVE  HostInv'
<1> USE DEF HostInv
<1>1. IInv' /\ (\A d \in Callers \ {c} : Untouched(d)) /\ pc'[c] = "idle"
  BY ReturnInv, OwnOnly DEF End, Return, Forget, IInv, TypeOK
<1>2. /\ step' = [step EXCEPT ![c] = "none"] /\ stamp' = [stamp EXCEPT ![c] = 0]
      /\ shown' = [shown EXCEPT ![c] = 0] /\ since' = [since EXCEPT ![c] = 0]
      /\ UNCHANGED <<contract, cache, active, file, held>>
  BY DEF End, Return
<1>3. SpiritTypeOK'
  BY <1>2, ContentsAreNat DEF SpiritTypeOK, Steps
<1>4. step'[c] = "none"
  BY <1>2 DEF SpiritTypeOK
<1>5. \A d \in Callers \ {c} : /\ step'[d] = step[d] /\ stamp'[d] = stamp[d]
                               /\ shown'[d] = shown[d] /\ since'[d] = since[d]
                               /\ pc'[d] = pc[d] /\ mine'[d] = mine[d]
  BY <1>1, <1>2 DEF SpiritTypeOK, Untouched
<1>6. Answered' /\ CacheIsFresh' /\ ReadingIsFresh'
  BY <1>2, <1>4, <1>5 DEF Answered, CacheIsFresh, ReadingIsFresh, Spirit
<1>7. ActiveKept'
  BY <1>2, <1>4, <1>5 DEF ActiveKept, Output
<1>8. MirrorKept'
  <2> SUFFICES ASSUME NEW s \in Sessions, mirrored'[s]
               PROVE  /\ pc'[s] = "idle" /\ RoomOf[s] # NoRoom
                      /\ mirror'[RoomOf[s]].kind = "whole"
                      /\ Register'[s] # NoState => mirror'[RoomOf[s]].value.state = Register'[s]
                      /\ active'.kind = "whole" /\ active'.value.room = RoomOf[s] =>
                           mirror'[RoomOf[s]] = active'
    BY DEF MirrorKept
  <2>1. CASE s = c
    <3>1. mirror'[RoomOf[c]] = Whole(Output(c)) /\ step[c] = "written"
      BY <2>1
    <3>2. RoomOf[c] # NoRoom
      BY <3>1 DEF Answered
    <3>3. Register'[c] = Register[c]
      BY <1>1, <1>2, <2>1 DEF Register
    <3>4. Register[c] # NoState => Register[c] = mine[c]
      BY <2>1 DEF IInv, Prepared, PreparedBy
    <3>5. Whole(Output(c)).kind = "whole" /\ Whole(Output(c)).value.state = mine[c]
      BY DEF Whole, Output
    <3>6. active.kind = "whole" /\ active.value.room = RoomOf[c] => active = Whole(Output(c))
      BY <3>1 DEF ActiveKept
    <3> QED BY <1>1, <1>2, <2>1, <3>1, <3>2, <3>3, <3>4, <3>5, <3>6
  <2>2. CASE s # c
    <3>1. mirrored[s] /\ s \in Callers
      BY <2>2 DEF Callers
    <3>2. RoomOf[s] # NoRoom
      BY <3>1 DEF MirrorKept
    <3>3. RoomOf[s] \in Rooms /\ RoomOf[s] # RoomOf[c]
      BY <2>2, <3>1, <3>2, OwnRoom DEF Rooms
    <3>4. mirror'[RoomOf[s]] = mirror[RoomOf[s]]
      BY <3>3
    <3>5. Register'[s] = Register[s] /\ pc'[s] = pc[s]
      BY <1>1, <2>2, <3>1, RegisterKept DEF Untouched
    <3> QED BY <1>2, <3>1, <3>4, <3>5 DEF MirrorKept
  <2> QED BY <2>1, <2>2
<1> QED BY <1>1, <1>3, <1>6, <1>7, <1>8

LEMMA WriteMirrorInv ==
  ASSUME HostInv, NEW c \in Callers, WriteMirror(c)
  PROVE  HostInv'
<1> USE DEF HostInv
<1> DEFINE r == RoomOf[c]
<1>1. step[c] = "written" /\ End(c)
  BY DEF WriteMirror
<1>2. pc[c] = "answered" /\ r # NoRoom /\ r \in Rooms
  BY <1>1 DEF Answered, Rooms
<1>3. Output(c) \in Outputs /\ mirror[r] \in JsonFiles(Outputs)
  BY <1>2, OutputTyped DEF SpiritTypeOK
<1>4. PICK f \in {Whole(Output(c)), mirror[r], Emptied(NoOutput)} :
        /\ mirror' = [mirror EXCEPT ![r] = f]
        /\ mirrored' = [s \in Sessions |-> IF s = c THEN f = Whole(Output(c)) ELSE mirrored[s]]
  BY DEF WriteMirror
<1>5. f \in JsonFiles(Outputs)
  BY <1>3, <1>4, FileOfOutput
<1>6. /\ mirror' \in [Rooms -> JsonFiles(Outputs)] /\ mirror'[r] = f
      /\ \A q \in Rooms : q # r => mirror'[q] = mirror[q]
  BY <1>2, <1>4, <1>5 DEF SpiritTypeOK
<1>7. /\ mirrored' \in [Sessions -> BOOLEAN]
      /\ \A s \in Sessions : s # c => mirrored'[s] = mirrored[s]
      /\ c \in Sessions /\ mirrored'[c] => f = Whole(Output(c))
  BY <1>4 DEF SpiritTypeOK
<1> QED BY <1>1, <1>2, <1>6, <1>7, EndInv

(* The call ends without writing the mirror.                               *)
LEMMA GiveUpInv ==
  ASSUME HostInv, NEW c \in Callers, Refuse(c) \/ SpiritFails(c)
  PROVE  HostInv'
<1> USE DEF HostInv
<1>1. step[c] # "none" /\ End(c) /\ UNCHANGED <<mirror, mirrored>>
  BY DEF Refuse, SpiritFails
<1>2. pc[c] = "answered"
  BY <1>1 DEF Answered
<1>3. c \in Sessions => ~mirrored[c]
  BY <1>2 DEF MirrorKept
<1> QED BY <1>1, <1>2, <1>3, EndInv DEF SpiritTypeOK

LEMMA SpiritStepInv ==
  ASSUME HostInv, NEW c \in Callers, SpiritStep(c)
  PROVE  HostInv'
BY StatInv, ReadInv, OpenActiveInv, WriteActiveInv, WriteMirrorInv, GiveUpInv DEF SpiritStep

LEMMA HostStepInv == HostInv /\ [HostNext]_vars => HostInv'
<1> SUFFICES ASSUME HostInv, [HostNext]_vars PROVE HostInv'
  OBVIOUS
<1>1. CASE UNCHANGED vars
  <2>1. UNCHANGED <<stateVars, spiritVars>>
    BY <1>1 DEF vars
  <2>2. IInv' /\ Register' = Register /\ pc' = pc /\ mine' = mine
    BY <2>1, StateKept DEF HostInv, stateVars
  <2> QED BY <2>1, <2>2
          DEF HostInv, spiritVars, SpiritTypeOK, Answered, CacheIsFresh, ReadingIsFresh,
              MirrorKept, ActiveKept, Spirit, Output
<1>2. ASSUME NEW c \in Callers, NEW u \in Requests, HostAsks(c, u)
      PROVE  HostInv'
  <2>1. /\ Ask(c, u) /\ UNCHANGED <<contract, cache, active, mirror, step, stamp, shown, since>>
        /\ mirrored' = [s \in Sessions |-> s # c /\ mirrored[s]]
    BY <1>2 DEF HostAsks
  <2>2. mirrored' \in [Sessions -> BOOLEAN] /\ \A s \in Sessions : mirrored'[s] => s # c /\ mirrored[s]
    BY <2>1
  <2> QED BY <2>1, <2>2, CallInv
<1>3. ASSUME NEW c \in Callers, Advance(c) \/ CutOff(c), UNCHANGED spiritVars
      PROVE  HostInv'
  <2>1. pc[c] # "idle"
    BY <1>3 DEF Advance, ReadGlobal, Merge, OpenGlobal, WriteGlobal, OpenFile, WriteFile, CutOff, Goto
  <2>2. mirrored' = mirrored /\ mirrored \in [Sessions -> BOOLEAN]
    BY <1>3 DEF spiritVars, HostInv, SpiritTypeOK
  <2>3. \A s \in Sessions : mirrored'[s] => s # c /\ mirrored[s]
    BY <2>1, <2>2 DEF HostInv, MirrorKept
  <2> QED BY <1>3, <2>2, <2>3, CallInv DEF spiritVars
<1>4. ASSUME NEW c \in Callers, SpiritStep(c)
      PROVE  HostInv'
  BY <1>4, SpiritStepInv
<1>5. ASSUME NEW n \in Edited, Edit(n)
      PROVE  HostInv'
  BY <1>5, EditInv
<1> QED BY <1>1, <1>2, <1>3, <1>4, <1>5 DEF HostNext

LEMMA HostInvariant == HostSpec => []HostInv
BY HostInitInv, HostStepInv, PTL DEF HostSpec
-----------------------------------------------------------------------------
(* "global + per-session overlay" (src/directives.ts:1) of the whole host: *)
(* the state files are a register per session while contracts are edited   *)
(* and active spirits written.                                             *)
THEOREM HostIsRegister == HostSpec => RefinesRegister
<1>1. HostInit => Abstract!Init
  BY InitMaps DEF HostInit
<1>2. HostInv /\ [HostNext]_vars => [Abstract!Next]_Abstract!registerVars
  <2> SUFFICES ASSUME HostInv, [HostNext]_vars PROVE [Abstract!Next]_Abstract!registerVars
    OBVIOUS
  <2>1. IInv
    BY DEF HostInv
  <2>2. ASSUME NEW c \in Callers, NEW u \in Requests, HostAsks(c, u)
        PROVE  [Abstract!Next]_Abstract!registerVars
    BY <2>1, <2>2, CallMaps DEF HostAsks
  <2>3. ASSUME NEW c \in Callers, Advance(c) \/ CutOff(c)
        PROVE  [Abstract!Next]_Abstract!registerVars
    BY <2>1, <2>3, CallMaps
  <2>4. ASSUME NEW c \in Callers, Return(c)
        PROVE  [Abstract!Next]_Abstract!registerVars
    BY <2>1, <2>4, CallMaps
  <2>5. ASSUME UNCHANGED stateVars
        PROVE  [Abstract!Next]_Abstract!registerVars
    BY <2>5, QuietStep DEF stateVars
  <2>6. ASSUME NEW n \in Edited, Edit(n)
        PROVE  [Abstract!Next]_Abstract!registerVars
    BY <2>6, QuietStep DEF Edit
  <2>7. ASSUME NEW c \in Callers, SpiritStep(c)
        PROVE  UNCHANGED stateVars \/ Return(c)
    BY <2>7 DEF SpiritStep, StatContract, ReadContract, OpenActive, WriteActive, WriteMirror,
                Refuse, SpiritFails, End
  <2> QED BY <2>2, <2>3, <2>4, <2>5, <2>6, <2>7 DEF HostNext, vars
<1> QED BY <1>1, <1>2, HostInvariant, PTL DEF HostSpec, RefinesRegister, Abstract!Spec

(* "mtime-cached" (src/spirit.ts:76): no call goes on with a contract that *)
(* is older than the one it looked at, or empty once its text is there.    *)
THEOREM ContractsFresh == HostSpec => []ContractIsFresh
<1>1. HostInv => ContractIsFresh
  BY DEF HostInv, ReadingIsFresh, ContractIsFresh
<1> QED BY <1>1, HostInvariant, PTL

(* The "per-room mirror" (src/spirit.ts:113) shows its session's state.    *)
THEOREM MirrorsOwn == HostSpec => []MirrorIsOwn
<1>1. HostInv => MirrorIsOwn
  BY DEF HostInv, MirrorKept, MirrorIsOwn
<1> QED BY <1>1, HostInvariant, PTL

(* The house's active_spirit.md agrees with the mirror of the room it      *)
(* names.                                                                  *)
THEOREM ActivesAgree == HostSpec => []ActiveAgrees
<1>1. HostInv => ActiveAgrees
  BY DEF HostInv, MirrorKept, ActiveAgrees
<1> QED BY <1>1, HostInvariant, PTL
=============================================================================
