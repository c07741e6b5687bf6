--------------------------- MODULE ConversationProofs ---------------------------
(***************************************************************************)
(* Theorems about Conversation for any number of hooks and messages. A     *)
(* hook that is at work on a message stands for a copy it may still push,  *)
(* so the copies there are and the hooks at work never exceed the most     *)
(* hooks that were at work on the message at once.                         *)
(***************************************************************************)
EXTENDS Conversation, FiniteSetTheorems, SequenceTheorems, TLAPS

Message == [role: {"user", "assistant"}, parts: Seq(PartType)]

(* A hook at work is at work on a message there is.                        *)
AtWork == \A h \in Hooks : pc[h] # "idle" => on[h] \in DOMAIN messages

LEMMA SeqOfMore ==
  ASSUME NEW S, NEW T, S \subseteq T, NEW seq \in Seq(S)
  PROVE  seq \in Seq(T)
OBVIOUS

LEMMA WithParts ==
  ASSUME NEW msg \in Message, NEW parts \in Seq(PartType)
  PROVE  /\ [msg EXCEPT !.parts = parts] \in Message
         /\ [msg EXCEPT !.parts = parts].parts = parts
BY DEF Message

LEMMA PartTypes ==
  /\ Said \subseteq PartType
  /\ \A blocks \in Retrieved : blocks \in Seq(PartType)
<1>1. [kind: {"memory", "canon"}, directive: BOOLEAN, constraint: BOOLEAN, block: {FALSE}]
        \subseteq PartType
  BY DEF PartType, Kinds
<1>2. ASSUME NEW blocks \in Retrieved PROVE blocks \in Seq(PartType)
  <2>1. blocks \in Seq([kind: {"memory", "canon"}, directive: BOOLEAN, constraint: BOOLEAN, block: {FALSE}])
    BY ConversationAssumption
  <2>2. QED BY <1>1, <2>1, SeqOfMore
<1>3. QED BY <1>2, ConversationAssumption DEF PartType, Kinds

LEMMA MessagesKept ==
  ASSUME TypeOK
  PROVE  /\ messages \in Seq(Message) /\ Len(messages) \in Nat
         /\ DOMAIN messages = 1 .. Len(messages) /\ DOMAIN messages \subseteq 1 .. MaxMessages
         /\ \A m \in DOMAIN messages : messages[m] \in Message
<1>1. messages \in Seq(Message) /\ Len(messages) <= MaxMessages /\ MaxMessages \in Nat
  BY ConversationAssumption DEF TypeOK, Message
<1>2. Len(messages) \in Nat /\ DOMAIN messages = 1 .. Len(messages)
  BY <1>1, LenProperties
<1>3. QED BY <1>1, <1>2

(* The patches rewrite the texts and leave every part what it is.          *)
LEMMA PatchKeepsKinds ==
  ASSUME TypeOK, PatchDirectiveHistory \/ PatchSyntheticReminders
  PROVE  /\ messages' \in Seq(Message) /\ Len(messages') = Len(messages)
         /\ \A m \in DOMAIN messages :
              /\ DOMAIN messages'[m].parts = DOMAIN messages[m].parts
              /\ \A i \in DOMAIN messages[m].parts :
                   messages'[m].parts[i].kind = messages[m].parts[i].kind
<1>1. /\ \A part \in PartType : Strip(part) \in PartType /\ Strip(part).kind = part.kind
      /\ \A part \in PartType : Preserve(part) \in PartType /\ Preserve(part).kind = part.kind
  BY DEF Strip, Preserve, PartType
<1>2. \A m \in DOMAIN messages :
        messages[m] \in Message /\ messages[m].parts \in Seq(PartType)
  BY MessagesKept DEF Message
<1>3. ASSUME PatchDirectiveHistory
      PROVE  \A m \in DOMAIN messages :
               /\ messages'[m] \in Message
               /\ DOMAIN messages'[m].parts = DOMAIN messages[m].parts
               /\ \A i \in DOMAIN messages[m].parts :
                    messages'[m].parts[i].kind = messages[m].parts[i].kind
  <2>1. messages' = [m \in DOMAIN messages |->
          [messages[m] EXCEPT !.parts = [i \in DOMAIN messages[m].parts |-> Strip(messages[m].parts[i])]]]
    BY <1>3 DEF PatchDirectiveHistory, OfParts
  <2>2. ASSUME NEW m \in DOMAIN messages
        PROVE  [i \in DOMAIN messages[m].parts |-> Strip(messages[m].parts[i])] \in Seq(PartType)
    BY <1>1, <1>2
  <2>3. ASSUME NEW m \in DOMAIN messages
        PROVE  /\ messages'[m] \in Message
               /\ messages'[m].parts =
                    [i \in DOMAIN messages[m].parts |-> Strip(messages[m].parts[i])]
    BY <1>2, <2>1, <2>2, WithParts
  <2>4. ASSUME NEW m \in DOMAIN messages
        PROVE  /\ DOMAIN messages'[m].parts = DOMAIN messages[m].parts
               /\ \A i \in DOMAIN messages[m].parts :
                    messages'[m].parts[i].kind = messages[m].parts[i].kind
    <3>1. \A i \in DOMAIN messages[m].parts : messages[m].parts[i] \in PartType
      BY <1>2
    <3>2. DOMAIN messages'[m].parts = DOMAIN messages[m].parts
      BY <2>3
    <3>3. ASSUME NEW i \in DOMAIN messages[m].parts
          PROVE  messages'[m].parts[i] = Strip(messages[m].parts[i])
      BY <2>3
    <3>4. QED BY <1>1, <3>1, <3>2, <3>3
  <2>5. QED BY <2>3, <2>4
<1>4. ASSUME PatchSyntheticReminders
      PROVE  \A m \in DOMAIN messages :
               /\ messages'[m] \in Message
               /\ DOMAIN messages'[m].parts = DOMAIN messages[m].parts
               /\ \A i \in DOMAIN messages[m].parts :
                    messages'[m].parts[i].kind = messages[m].parts[i].kind
  <2>1. messages' = [m \in DOMAIN messages |->
          [messages[m] EXCEPT !.parts = [i \in DOMAIN messages[m].parts |-> Preserve(messages[m].parts[i])]]]
    BY <1>4 DEF PatchSyntheticReminders, OfParts
  <2>2. ASSUME NEW m \in DOMAIN messages
        PROVE  [i \in DOMAIN messages[m].parts |-> Preserve(messages[m].parts[i])] \in Seq(PartType)
    BY <1>1, <1>2
  <2>3. ASSUME NEW m \in DOMAIN messages
        PROVE  /\ messages'[m] \in Message
               /\ messages'[m].parts =
                    [i \in DOMAIN messages[m].parts |-> Preserve(messages[m].parts[i])]
    BY <1>2, <2>1, <2>2, WithParts
  <2>4. ASSUME NEW m \in DOMAIN messages
        PROVE  /\ DOMAIN messages'[m].parts = DOMAIN messages[m].parts
               /\ \A i \in DOMAIN messages[m].parts :
                    messages'[m].parts[i].kind = messages[m].parts[i].kind
    <3>1. \A i \in DOMAIN messages[m].parts : messages[m].parts[i] \in PartType
      BY <1>2
    <3>2. DOMAIN messages'[m].parts = DOMAIN messages[m].parts
      BY <2>3
    <3>3. ASSUME NEW i \in DOMAIN messages[m].parts
          PROVE  messages'[m].parts[i] = Preserve(messages[m].parts[i])
      BY <2>3
    <3>4. QED BY <1>1, <3>1, <3>2, <3>3
  <2>5. QED BY <2>3, <2>4
<1>5. DOMAIN messages' = DOMAIN messages
  BY DEF PatchDirectiveHistory, PatchSyntheticReminders, OfParts
<1>6. messages' \in Seq(Message) /\ Len(messages') = Len(messages)
  <2>1. messages' = [m \in 1 .. Len(messages) |-> messages'[m]]
    BY <1>5, MessagesKept DEF PatchDirectiveHistory, PatchSyntheticReminders, OfParts
  <2>2. \A m \in 1 .. Len(messages) : messages'[m] \in Message
    BY <1>3, <1>4, MessagesKept
  <2>3. QED BY <2>1, <2>2, MessagesKept
<1>7. QED BY <1>3, <1>4, <1>6

LEMMA TypeInit == Init => TypeOK /\ AtWork
<1> SUFFICES ASSUME Init PROVE TypeOK /\ AtWork
  OBVIOUS
<1>1. messages \in Seq(Message) /\ Len(messages) = 0
  BY EmptySeq DEF Init
<1>2. QED BY <1>1, ConversationAssumption DEF Init, TypeOK, AtWork, Message

LEMMA TypeStep == TypeOK /\ AtWork /\ [Next]_vars => (TypeOK /\ AtWork)'
<1> SUFFICES ASSUME TypeOK, AtWork, [Next]_vars PROVE (TypeOK /\ AtWork)'
  OBVIOUS
<1>0. /\ messages \in Seq(Message) /\ Len(messages) \in Nat
      /\ DOMAIN messages = 1 .. Len(messages) /\ DOMAIN messages \subseteq 1 .. MaxMessages
      /\ \A m \in DOMAIN messages : messages[m] \in Message
  BY MessagesKept
<1>1. ASSUME NEW role \in {"user", "assistant"}, NEW part \in Said, Say(role, part)
      PROVE  (TypeOK /\ AtWork)'
  <2>1. [role |-> role, parts |-> <<part>>] \in Message
    BY PartTypes DEF Message
  <2>2. messages' \in Seq(Message) /\ Len(messages') = Len(messages) + 1
    BY <1>0, <1>1, <2>1, AppendProperties DEF Say
  <2>3. Len(messages') <= MaxMessages /\ DOMAIN messages \subseteq DOMAIN messages'
    BY <1>0, <1>1, <2>2, ConversationAssumption DEF Say
  <2>4. QED BY <1>1, <2>2, <2>3 DEF Say, TypeOK, AtWork, Message
<1>2. CASE PatchDirectiveHistory \/ PatchSyntheticReminders
  <2>1. /\ messages' \in Seq(Message) /\ Len(messages') = Len(messages)
        /\ UNCHANGED <<pc, on, prompt, hooks, crowd>>
    BY <1>2, PatchKeepsKinds DEF PatchDirectiveHistory, PatchSyntheticReminders
  <2>2. DOMAIN messages' = DOMAIN messages
    BY <1>0, <2>1
  <2>3. QED BY <2>1, <2>2 DEF TypeOK, AtWork, Message
<1>3. ASSUME NEW h \in Hooks, Start(h) PROVE (TypeOK /\ AtWork)'
  <2>1. PICK m \in UserMessages :
          /\ pc' = [pc EXCEPT ![h] = "loading"] /\ on' = [on EXCEPT ![h] = m]
          /\ crowd' = [crowd EXCEPT ![m] =
               IF 1 + Cardinality(WorkingOn(m)) > @ THEN 1 + Cardinality(WorkingOn(m)) ELSE @]
          /\ hooks < MaxHooks /\ hooks' = hooks + 1
          /\ UNCHANGED <<messages, prompt>>
    BY <1>3 DEF Start
  <2>2. m \in DOMAIN messages /\ m \in 1 .. MaxMessages
    BY <1>0 DEF UserMessages
  <2>3. Cardinality(WorkingOn(m)) \in Nat
    BY ConversationAssumption, FS_Subset, FS_CardinalityType DEF WorkingOn
  <2>4. crowd' \in [1 .. MaxMessages -> Nat] /\ hooks' \in 0 .. MaxHooks
    BY <2>1, <2>2, <2>3, ConversationAssumption DEF TypeOK
  <2>5. pc' \in [Hooks -> {"idle", "loading", "retrieving"}] /\ on' \in [Hooks -> 0 .. MaxMessages]
    BY <2>1, <2>2 DEF TypeOK
  <2>6. QED BY <2>1, <2>2, <2>4, <2>5 DEF TypeOK, AtWork
<1>4. ASSUME NEW h \in Hooks, NoRoom(h) PROVE (TypeOK /\ AtWork)'
  BY <1>4, ConversationAssumption DEF NoRoom, Done, TypeOK, AtWork
<1>5. ASSUME NEW h \in Hooks, TakePrompt(h) PROVE (TypeOK /\ AtWork)'
  <2>1. on[h] \in DOMAIN messages
    BY <1>5 DEF TakePrompt, AtWork
  <2>2. PromptOf(on[h]) \subseteq PartType
    BY <1>0, <2>1 DEF PromptOf, Message
  <2>3. QED BY <1>5, <2>2 DEF TakePrompt, TypeOK, AtWork
<1>6. ASSUME NEW h \in Hooks, Inject(h) PROVE (TypeOK /\ AtWork)'
  <2>1. PICK blocks \in Retrieved : messages' = [messages EXCEPT ![on[h]].parts = @ \o blocks]
    BY <1>6 DEF Inject
  <2>2. on[h] \in DOMAIN messages
    BY <1>6 DEF Inject, AtWork
  <2>3. messages[on[h]].parts \o blocks \in Seq(PartType)
    BY <1>0, <2>2, PartTypes DEF Message
  <2>4. [messages[on[h]] EXCEPT !.parts = @ \o blocks] \in Message
    BY <1>0, <2>2, <2>3 DEF Message
  <2>5. messages' \in Seq(Message) /\ Len(messages') = Len(messages) /\ DOMAIN messages' = DOMAIN messages
    BY <1>0, <2>1, <2>2, <2>4, ExceptSeq
  <2>6. QED BY <1>6, <2>5, ConversationAssumption DEF Inject, Done, TypeOK, AtWork, Message
<1>7. CASE UNCHANGED vars
  BY <1>7 DEF vars, TypeOK, AtWork
<1>8. QED BY <1>1, <1>2, <1>3, <1>4, <1>5, <1>6, <1>7 DEF Next

(* Type correctness, for any hooks, messages and retrievals.               *)
THEOREM TypeCorrect == Spec => []TypeOK
<1>1. TypeOK /\ AtWork /\ [Next]_vars => (TypeOK /\ AtWork)'
  BY TypeStep
<1>2. QED BY <1>1, TypeInit, PTL DEF Spec
-----------------------------------------------------------------------------
Blocks == {"memory", "canon"}

Crowded ==
  \A m \in DOMAIN messages, kind \in Blocks :
    Copies(m, kind) + Cardinality(WorkingOn(m)) <= crowd[m]

LEMMA WorkingFinite ==
  \A m : IsFiniteSet(WorkingOn(m)) /\ Cardinality(WorkingOn(m)) \in Nat
BY ConversationAssumption, FS_Subset, FS_CardinalityType DEF WorkingOn

LEMMA KindFinite ==
  ASSUME NEW parts \in Seq(PartType), NEW kind
  PROVE  IsFiniteSet(OfKind(parts, kind)) /\ Cardinality(OfKind(parts, kind)) \in Nat
<1>1. Len(parts) \in Nat /\ OfKind(parts, kind) \in SUBSET (1 .. Len(parts))
  BY DEF OfKind
<1>2. IsFiniteSet(1 .. Len(parts))
  BY <1>1, FS_Interval
<1>3. QED BY <1>1, <1>2, FS_Subset, FS_CardinalityType

(* What is pushed adds as many of a kind as it has.                        *)
LEMMA PushedOfKind ==
  ASSUME NEW parts \in Seq(PartType), NEW blocks \in Seq(PartType), NEW kind,
         Cardinality(OfKind(blocks, kind)) <= 1
  PROVE  Cardinality(OfKind(parts \o blocks, kind)) <= Cardinality(OfKind(parts, kind)) + 1
<1>1. /\ Len(parts) \in Nat /\ Len(blocks) \in Nat
      /\ DOMAIN parts = 1 .. Len(parts) /\ DOMAIN blocks = 1 .. Len(blocks)
      /\ DOMAIN (parts \o blocks) = 1 .. Len(parts) + Len(blocks)
      /\ \A i \in 1 .. Len(parts) : (parts \o blocks)[i] = parts[i]
      /\ \A i \in 1 .. Len(blocks) : (parts \o blocks)[Len(parts) + i] = blocks[i]
  OBVIOUS
<1>2. /\ IsFiniteSet(OfKind(parts, kind)) /\ Cardinality(OfKind(parts, kind)) \in Nat
      /\ IsFiniteSet(OfKind(blocks, kind)) /\ Cardinality(OfKind(blocks, kind)) \in Nat
  BY KindFinite
<1>3. ASSUME NEW i \in OfKind(parts \o blocks, kind)
      PROVE  i \in OfKind(parts, kind) \/ (i \in Nat /\ i - Len(parts) \in OfKind(blocks, kind))
  <2>1. i \in 1 .. Len(parts) + Len(blocks) /\ (parts \o blocks)[i].kind = kind
    BY <1>1, <1>3 DEF OfKind
  <2>2. CASE i <= Len(parts)
    BY <1>1, <2>1, <2>2 DEF OfKind
  <2>3. CASE i > Len(parts)
    <3>1. i - Len(parts) \in 1 .. Len(blocks) /\ i = Len(parts) + (i - Len(parts)) /\ i \in Nat
      BY <1>1, <2>1, <2>3
    <3>2. (parts \o blocks)[i] = blocks[i - Len(parts)]
      BY <1>1, <3>1
    <3>3. QED BY <1>1, <2>1, <3>1, <3>2 DEF OfKind
  <2>4. QED BY <1>1, <2>1, <2>2, <2>3
<1>4. CASE OfKind(blocks, kind) = {}
  <2>1. OfKind(parts \o blocks, kind) \in SUBSET OfKind(parts, kind)
    BY <1>3, <1>4
  <2>2. /\ Cardinality(OfKind(parts \o blocks, kind)) <= Cardinality(OfKind(parts, kind))
        /\ IsFiniteSet(OfKind(parts \o blocks, kind))
    BY <1>2, <2>1, FS_Subset
  <2>3. Cardinality(OfKind(parts \o blocks, kind)) \in Nat
    BY <2>2, FS_CardinalityType
  <2>4. QED BY <1>2, <2>2, <2>3
<1>5. CASE OfKind(blocks, kind) # {}
  <2>1. Cardinality(OfKind(blocks, kind)) = 1
    <3>1. Cardinality(OfKind(blocks, kind)) # 0
      BY <1>2, <1>5, FS_EmptySet
    <3>2. QED BY <1>2, <3>1
  <2>2. PICK j : OfKind(blocks, kind) = {j}
    BY <1>2, <2>1, FS_Singleton
  <2>3. j \in Nat
    BY <1>1, <2>2 DEF OfKind
  <2>4. OfKind(parts \o blocks, kind) \in SUBSET (OfKind(parts, kind) \union {Len(parts) + j})
    <3> SUFFICES ASSUME NEW i \in OfKind(parts \o blocks, kind), i \notin OfKind(parts, kind)
                 PROVE  i = Len(parts) + j
      OBVIOUS
    <3>1. i \in Nat /\ i - Len(parts) = j
      BY <1>3, <2>2
    <3>2. QED BY <1>1, <2>3, <3>1
  <2>5. /\ IsFiniteSet(OfKind(parts, kind) \union {Len(parts) + j})
        /\ Cardinality(OfKind(parts, kind) \union {Len(parts) + j}) <= Cardinality(OfKind(parts, kind)) + 1
        /\ Cardinality(OfKind(parts, kind) \union {Len(parts) + j}) \in Nat
    <3>1. /\ IsFiniteSet(OfKind(parts, kind) \union {Len(parts) + j})
          /\ \/ Cardinality(OfKind(parts, kind) \union {Len(parts) + j}) = Cardinality(OfKind(parts, kind))
             \/ Cardinality(OfKind(parts, kind) \union {Len(parts) + j}) = Cardinality(OfKind(parts, kind)) + 1
      BY <1>2, FS_AddElement
    <3>2. QED BY <1>2, <3>1
  <2>6. /\ Cardinality(OfKind(parts \o blocks, kind))
             <= Cardinality(OfKind(parts, kind) \union {Len(parts) + j})
        /\ Cardinality(OfKind(parts \o blocks, kind)) \in Nat
    BY <2>4, <2>5, FS_Subset, FS_CardinalityType
  <2>7. QED BY <1>2, <2>5, <2>6
<1>6. QED BY <1>4, <1>5

LEMMA CrowdedInit == Init => Crowded
BY EmptySeq DEF Init, Crowded

LEMMA CrowdedStep == TypeOK /\ AtWork /\ Crowded /\ [Next]_vars => Crowded'
<1> SUFFICES ASSUME TypeOK, AtWork, Crowded, [Next]_vars PROVE Crowded'
  OBVIOUS
<1>0. /\ messages \in Seq(Message) /\ Len(messages) \in Nat
      /\ DOMAIN messages = 1 .. Len(messages) /\ DOMAIN messages \subseteq 1 .. MaxMessages
      /\ \A m \in DOMAIN messages : messages[m].parts \in Seq(PartType)
  BY MessagesKept DEF Message
<1>1. ASSUME NEW m \in DOMAIN messages, NEW kind \in Blocks
      PROVE  /\ Copies(m, kind) \in Nat /\ Cardinality(WorkingOn(m)) \in Nat /\ crowd[m] \in Nat
             /\ Copies(m, kind) + Cardinality(WorkingOn(m)) <= crowd[m]
  BY <1>0, KindFinite, WorkingFinite DEF Copies, TypeOK, Crowded
<1>2. ASSUME NEW role \in {"user", "assistant"}, NEW part \in Said, Say(role, part)
      PROVE  Crowded'
  <2>1. /\ Len(messages) < MaxMessages /\ UNCHANGED <<pc, on, crowd>>
        /\ messages' = Append(messages, [role |-> role, parts |-> <<part>>])
    BY <1>2 DEF Say
  <2>2. [role |-> role, parts |-> <<part>>] \in Message
    BY PartTypes DEF Message
  <2>3. /\ DOMAIN messages' = DOMAIN messages \union {Len(messages) + 1}
        /\ \A m \in DOMAIN messages : messages'[m] = messages[m]
        /\ messages'[Len(messages) + 1] = [role |-> role, parts |-> <<part>>]
    <3>1. /\ messages' \in Seq(Message) /\ Len(messages') = Len(messages) + 1
          /\ \A m \in 1 .. Len(messages) : messages'[m] = messages[m]
          /\ messages'[Len(messages) + 1] = [role |-> role, parts |-> <<part>>]
      BY <1>0, <2>1, <2>2, AppendProperties
    <3>2. DOMAIN messages' = 1 .. Len(messages) + 1
      BY <3>1, LenProperties
    <3>3. QED BY <1>0, <3>1, <3>2
  <2>4. \A m : WorkingOn(m)' = WorkingOn(m)
    BY <2>1 DEF WorkingOn
  <2>5. ASSUME NEW kind \in Blocks
        PROVE  OfKind(<<part>>, kind) = {} /\ WorkingOn(Len(messages) + 1) = {}
    <3>1. part.kind \notin Blocks
      BY ConversationAssumption DEF Blocks
    <3>2. Len(messages) + 1 \notin DOMAIN messages
      BY <1>0
    <3>3. QED BY <3>1, <3>2, <2>5 DEF OfKind, WorkingOn, AtWork
  <2>6. Len(messages) + 1 \in 1 .. MaxMessages /\ crowd[Len(messages) + 1] \in Nat
    BY <1>0, <2>1, ConversationAssumption DEF TypeOK
  <2>7. ASSUME NEW m \in DOMAIN messages', NEW kind \in Blocks
        PROVE  Cardinality(OfKind(messages'[m].parts, kind)) + Cardinality(WorkingOn(m)) <= crowd[m]
    <3>1. CASE m \in DOMAIN messages
      BY <1>1, <2>3, <3>1 DEF Copies
    <3>2. CASE m = Len(messages) + 1
      <4>1. messages'[m].parts = <<part>>
        BY <2>3, <3>2
      <4>2. Cardinality(OfKind(messages'[m].parts, kind)) = 0 /\ Cardinality(WorkingOn(m)) = 0
        BY <2>5, <3>2, <4>1, FS_EmptySet
      <4>3. QED BY <2>6, <3>2, <4>2
    <3>3. QED BY <2>3, <3>1, <3>2
  <2>8. QED BY <2>1, <2>4, <2>7 DEF Crowded, Copies
<1>3. CASE PatchDirectiveHistory \/ PatchSyntheticReminders
  <2>1. /\ messages' \in Seq(Message) /\ Len(messages') = Len(messages)
        /\ \A m \in DOMAIN messages :
             /\ DOMAIN messages'[m].parts = DOMAIN messages[m].parts
             /\ \A i \in DOMAIN messages[m].parts :
                  messages'[m].parts[i].kind = messages[m].parts[i].kind
        /\ UNCHANGED <<pc, on, crowd>>
    BY <1>3, PatchKeepsKinds DEF PatchDirectiveHistory, PatchSyntheticReminders
  <2>2. DOMAIN messages' = DOMAIN messages
    BY <1>0, <2>1, LenProperties
  <2>3. \A m \in DOMAIN messages, kind \in Blocks :
          OfKind(messages'[m].parts, kind) = OfKind(messages[m].parts, kind)
    BY <2>1 DEF OfKind
  <2>4. \A m : WorkingOn(m)' = WorkingOn(m)
    BY <2>1 DEF WorkingOn
  <2>5. QED BY <1>1, <2>1, <2>2, <2>3, <2>4 DEF Crowded, Copies
<1>4. ASSUME NEW h \in Hooks, Start(h) PROVE Crowded'
  <2>1. PICK m \in UserMessages :
          /\ ~HasMemoryContext(m)
          /\ pc' = [pc EXCEPT ![h] = "loading"] /\ on' = [on EXCEPT ![h] = m]
          /\ crowd' = [crowd EXCEPT ![m] =
               IF 1 + Cardinality(WorkingOn(m)) > @ THEN 1 + Cardinality(WorkingOn(m)) ELSE @]
          /\ pc[h] = "idle" /\ UNCHANGED messages
    BY <1>4 DEF Start
  <2>2. m \in DOMAIN messages /\ m \in 1 .. MaxMessages
    BY <1>0 DEF UserMessages
  <2>3. WorkingOn(m)' = WorkingOn(m) \union {h} /\ h \notin WorkingOn(m)
    BY <2>1 DEF WorkingOn, TypeOK
  <2>4. \A k \in DOMAIN messages : k # m => WorkingOn(k)' = WorkingOn(k) /\ crowd'[k] = crowd[k]
    BY <1>0, <2>1 DEF WorkingOn, TypeOK
  <2>5. Cardinality(WorkingOn(m)') = Cardinality(WorkingOn(m)) + 1
    BY <2>3, WorkingFinite, FS_AddElement
  <2>6. \A kind \in Blocks : Copies(m, kind) = 0
    <3>1. \A kind \in Blocks : OfKind(messages[m].parts, kind) = {}
      BY <2>1 DEF HasMemoryContext, OfKind, Blocks
    <3>2. QED BY <3>1, FS_EmptySet DEF Copies
  <2>7. crowd'[m] \in Nat /\ Cardinality(WorkingOn(m)) + 1 <= crowd'[m]
    BY <2>1, <2>2, WorkingFinite DEF TypeOK
  <2>8. ASSUME NEW k \in DOMAIN messages, NEW kind \in Blocks
        PROVE  Copies(k, kind) + Cardinality(WorkingOn(k)') <= crowd'[k]
    <3>1. CASE k = m
      BY <2>5, <2>6, <2>7, <3>1, WorkingFinite
    <3>2. CASE k # m
      BY <1>1, <2>4, <3>2
    <3>3. QED BY <3>1, <3>2
  <2>9. QED BY <2>1, <2>8 DEF Crowded, Copies
<1>5. ASSUME NEW h \in Hooks, Done(h) PROVE \A m \in DOMAIN messages : WorkingOn(m)' = WorkingOn(m) \ {h}
  BY <1>5 DEF Done, WorkingOn, TypeOK
<1>6. ASSUME NEW h \in Hooks, NoRoom(h) PROVE Crowded'
  <2>1. UNCHANGED <<messages, crowd>> /\ Done(h)
    BY <1>6 DEF NoRoom, Done
  <2>2. ASSUME NEW m \in DOMAIN messages
        PROVE  /\ Cardinality(WorkingOn(m)') <= Cardinality(WorkingOn(m))
               /\ Cardinality(WorkingOn(m)') \in Nat
    <3>1. WorkingOn(m)' \in SUBSET WorkingOn(m)
      BY <1>5, <2>1
    <3>2. QED BY <3>1, WorkingFinite, FS_Subset, FS_CardinalityType
  <2>3. ASSUME NEW m \in DOMAIN messages, NEW kind \in Blocks
        PROVE  Copies(m, kind) + Cardinality(WorkingOn(m)') <= crowd[m]
    BY <1>1, <2>2
  <2>4. QED BY <2>1, <2>3 DEF Crowded, Copies
<1>7. ASSUME NEW h \in Hooks, TakePrompt(h) PROVE Crowded'
  <2>1. UNCHANGED <<messages, on, crowd>> /\ \A m : WorkingOn(m)' = WorkingOn(m)
    BY <1>7 DEF TakePrompt, WorkingOn, TypeOK
  <2>2. QED BY <1>1, <2>1 DEF Crowded, Copies
<1>8. ASSUME NEW h \in Hooks, Inject(h) PROVE Crowded'
  <2>1. PICK blocks \in Retrieved : messages' = [messages EXCEPT ![on[h]].parts = @ \o blocks]
    BY <1>8 DEF Inject
  <2>2. on[h] \in DOMAIN messages /\ h \in WorkingOn(on[h]) /\ Done(h) /\ crowd' = crowd
    BY <1>8 DEF Inject, AtWork, Done, WorkingOn
  <2>3. /\ DOMAIN messages' = DOMAIN messages
        /\ \A k \in DOMAIN messages : k # on[h] => messages'[k] = messages[k]
        /\ messages'[on[h]].parts = messages[on[h]].parts \o blocks
    BY <1>0, <2>1, <2>2, MessagesKept DEF Message
  <2>4. blocks \in Seq(PartType) /\ \A kind \in Blocks : Cardinality(OfKind(blocks, kind)) <= 1
    BY PartTypes, ConversationAssumption DEF Blocks, Kinds
  <2>5. ASSUME NEW m \in DOMAIN messages, NEW kind \in Blocks
        PROVE  Cardinality(OfKind(messages'[m].parts, kind)) + Cardinality(WorkingOn(m)') <= crowd[m]
    <3>1. CASE m = on[h]
      <4>1. Cardinality(WorkingOn(m)') = Cardinality(WorkingOn(m)) - 1
        BY <1>5, <2>2, <3>1, WorkingFinite, FS_RemoveElement
      <4>2. Cardinality(OfKind(messages'[m].parts, kind)) <= Copies(m, kind) + 1
        <5>1. messages[m].parts \in Seq(PartType)
          BY <1>0
        <5>2. /\ messages'[m].parts = messages[m].parts \o blocks
              /\ Cardinality(OfKind(blocks, kind)) <= 1
          BY <2>3, <2>4, <3>1
        <5>3. Cardinality(OfKind(messages[m].parts \o blocks, kind))
                <= Cardinality(OfKind(messages[m].parts, kind)) + 1
          BY <2>4, <5>1, <5>2, PushedOfKind
        <5>4. QED BY <5>2, <5>3 DEF Copies
      <4>3. messages'[m].parts \in Seq(PartType)
        <5>1. messages[m].parts \in Seq(PartType) /\ blocks \in Seq(PartType)
          BY <1>0, <2>4
        <5>2. messages[m].parts \o blocks \in Seq(PartType)
          BY <5>1
        <5>3. QED BY <2>3, <3>1, <5>2
      <4>4. Cardinality(OfKind(messages'[m].parts, kind)) \in Nat
        BY <4>3, KindFinite
      <4>5. QED BY <1>1, <4>1, <4>2, <4>4
    <3>2. CASE m # on[h]
      <4>1. h \notin WorkingOn(m)
        BY <3>2 DEF WorkingOn
      <4>2. WorkingOn(m)' = WorkingOn(m) \ {h}
        BY <1>5, <2>2
      <4>3. WorkingOn(m)' = WorkingOn(m)
        BY <4>1, <4>2
      <4>4. messages'[m] = messages[m] /\ Copies(m, kind) + Cardinality(WorkingOn(m)) <= crowd[m]
        BY <1>1, <2>3, <3>2
      <4>5. QED BY <4>3, <4>4 DEF Copies
    <3>3. QED BY <3>1, <3>2
  <2>6. QED BY <2>2, <2>3, <2>5 DEF Crowded, Copies
<1>9. CASE UNCHANGED vars
  BY <1>9 DEF vars, Crowded, Copies, WorkingOn
<1>10. QED BY <1>2, <1>3, <1>4, <1>6, <1>7, <1>8, <1>9 DEF Next

LEMMA CrowdedIsOnce == TypeOK /\ Crowded => InjectedOnce
<1> SUFFICES ASSUME TypeOK, Crowded, NEW m \in DOMAIN messages, NEW kind \in Blocks
             PROVE  Copies(m, kind) <= crowd[m]
  BY DEF InjectedOnce, Blocks
<1>1. messages[m].parts \in Seq(PartType) /\ m \in 1 .. MaxMessages
  BY MessagesKept DEF Message
<1>2. Copies(m, kind) \in Nat /\ Cardinality(WorkingOn(m)) \in Nat /\ crowd[m] \in Nat
  BY <1>1, KindFinite, WorkingFinite DEF Copies, TypeOK
<1>3. QED BY <1>2 DEF Crowded

(* A message has more copies of a block only than hooks were at work on it *)
(* at once (the marker of injectRoomMemoryContext).                        *)
THEOREM MemoryOnce == Spec => []InjectedOnce
<1>1. TypeOK /\ AtWork /\ Crowded /\ [Next]_vars => (TypeOK /\ AtWork /\ Crowded)'
  BY TypeStep, CrowdedStep
<1>2. QED BY <1>1, TypeInit, CrowdedInit, CrowdedIsOnce, PTL DEF Spec

(* The prompt of a hook has no memory of an earlier one, and canon of one  *)
(* only where hooks overlapped (userPromptFromMessage).                    *)
THEOREM PromptsOwn == Spec => []PromptIsOwn
<1> DEFINE Waiting == \A h \in Hooks : prompt[h] # {} => pc[h] = "retrieving"
<1>1. Init => Waiting /\ PromptIsOwn
  BY DEF Init, PromptIsOwn
<1>2. TypeOK /\ AtWork /\ Crowded /\ Waiting /\ PromptIsOwn /\ [Next]_vars =>
        (Waiting /\ PromptIsOwn)'
  <2> SUFFICES ASSUME TypeOK, AtWork, Crowded, Waiting, PromptIsOwn, [Next]_vars
               PROVE  (Waiting /\ PromptIsOwn)'
    OBVIOUS
  <2>1. ASSUME NEW role, NEW part, Say(role, part) PROVE (Waiting /\ PromptIsOwn)'
    BY <2>1 DEF Say, PromptIsOwn
  <2>2. CASE PatchDirectiveHistory \/ PatchSyntheticReminders
    BY <2>2 DEF PatchDirectiveHistory, PatchSyntheticReminders, PromptIsOwn
  <2>3. ASSUME NEW h \in Hooks, Start(h) PROVE (Waiting /\ PromptIsOwn)'
    <3>1. PICK m \in UserMessages :
            /\ pc' = [pc EXCEPT ![h] = "loading"] /\ on' = [on EXCEPT ![h] = m]
            /\ crowd' = [crowd EXCEPT ![m] =
                 IF 1 + Cardinality(WorkingOn(m)) > @ THEN 1 + Cardinality(WorkingOn(m)) ELSE @]
            /\ pc[h] = "idle" /\ UNCHANGED <<messages, prompt>>
      BY <2>3 DEF Start
    <3>2. prompt[h] = {}
      BY <3>1
    <3>3. \A k \in 1 .. MaxMessages : crowd[k] \in Nat /\ crowd'[k] \in Nat /\ crowd'[k] >= crowd[k]
      BY <3>1, WorkingFinite DEF TypeOK
    <3>4. \A g \in Hooks : prompt[g] # {} => pc'[g] = pc[g] /\ on'[g] = on[g] /\ on[g] \in 1 .. MaxMessages
      BY <3>1, <3>2, MessagesKept DEF TypeOK, AtWork
    <3>5. QED BY <3>1, <3>3, <3>4 DEF PromptIsOwn
  <2>4. ASSUME NEW h \in Hooks, NoRoom(h) \/ Inject(h) PROVE (Waiting /\ PromptIsOwn)'
    <3>1. /\ prompt' = [prompt EXCEPT ![h] = {}] /\ crowd' = crowd
          /\ \A g \in Hooks \ {h} : pc'[g] = pc[g] /\ on'[g] = on[g]
      BY <2>4 DEF NoRoom, Inject, Done, TypeOK
    <3>2. QED BY <3>1 DEF PromptIsOwn, TypeOK
  <2>5. ASSUME NEW h \in Hooks, TakePrompt(h) PROVE (Waiting /\ PromptIsOwn)'
    <3>1. /\ pc[h] = "loading" /\ pc' = [pc EXCEPT ![h] = "retrieving"]
          /\ prompt' = [prompt EXCEPT ![h] = PromptOf(on[h])]
          /\ UNCHANGED <<messages, on, crowd>>
      BY <2>5 DEF TakePrompt
    <3>2. on[h] \in DOMAIN messages /\ h \in WorkingOn(on[h])
      BY <3>1 DEF AtWork, WorkingOn
    <3>3. ASSUME NEW part \in PromptOf(on[h]), part.kind = "canon"
          PROVE  crowd[on[h]] > 1
      <4>1. OfKind(messages[on[h]].parts, "canon") # {}
        BY <3>3 DEF PromptOf, OfKind
      <4>2. messages[on[h]].parts \in Seq(PartType) /\ on[h] \in 1 .. MaxMessages
        BY <3>2, MessagesKept DEF Message
      <4>3. Copies(on[h], "canon") \in Nat /\ Copies(on[h], "canon") # 0
        BY <4>1, <4>2, KindFinite, FS_EmptySet DEF Copies
      <4>4. Cardinality(WorkingOn(on[h])) \in Nat /\ Cardinality(WorkingOn(on[h])) # 0
        BY <3>2, WorkingFinite, FS_EmptySet
      <4>5. Copies(on[h], "canon") + Cardinality(WorkingOn(on[h])) <= crowd[on[h]] /\ crowd[on[h]] \in Nat
        BY <3>2, <4>2 DEF Crowded, Blocks, TypeOK
      <4>6. QED BY <4>3, <4>4, <4>5
    <3>4. \A part \in PromptOf(on[h]) : part.kind # "memory"
      BY DEF PromptOf
    <3>5. QED BY <3>1, <3>3, <3>4 DEF PromptIsOwn, TypeOK
  <2>6. CASE UNCHANGED vars
    BY <2>6 DEF vars, PromptIsOwn
  <2>7. QED BY <2>1, <2>2, <2>3, <2>4, <2>5, <2>6 DEF Next
<1>3. TypeOK /\ AtWork /\ Crowded /\ [Next]_vars => (TypeOK /\ AtWork /\ Crowded)'
  BY TypeStep, CrowdedStep
<1>4. QED BY <1>1, <1>2, <1>3, TypeInit, CrowdedInit, PTL DEF Spec
===============================================================================
