----------------------------- MODULE Conversation -----------------------------
(***************************************************************************)
(* What the host's hooks do to the messages of a conversation before they  *)
(* go to the model: patchDirectiveHistory and patchSyntheticReminders of   *)
(* src/directives.ts, and injectRoomMemoryContext of src/memory.ts. The    *)
(* first two are done at once; the third looks at the latest user message, *)
(* waits for the session state, takes the prompt from the message, waits   *)
(* for the retrieval and pushes what came of it. Hooks of one conversation *)
(* may overlap, and the user may write meanwhile (both external).          *)
(***************************************************************************)
EXTENDS Naturals, Sequences, FiniteSets

CONSTANTS
  Hooks,          \* calls of the injecting hook that may be under way at once
  Said,           \* parts a message may start with
  Retrieved,      \* blocks a retrieval may come to: memory, canon, both or neither
  MaxMessages,    \* bound: messages of the conversation
  MaxHooks        \* bound: injecting hooks called

(* A part of a message: whose text it is, whether the text has a line with *)
(* a directive, has the phrases of a constraint, is marked as a reminder   *)
(* and has the block that preserves the mode.                              *)
Kinds == {"words", "reminder", "memory", "canon"}
PartType == [kind: Kinds, directive: BOOLEAN, constraint: BOOLEAN, block: BOOLEAN]

OfKind(parts, kind) == {i \in DOMAIN parts : parts[i].kind = kind}

ASSUME ConversationAssumption ==
  /\ IsFiniteSet(Hooks)
  /\ Said \subseteq [kind: {"words", "reminder"}, directive: BOOLEAN, constraint: BOOLEAN, block: {FALSE}]
  /\ Retrieved \subseteq Seq([kind: {"memory", "canon"}, directive: BOOLEAN, constraint: BOOLEAN, block: {FALSE}])
  /\ \A blocks \in Retrieved, kind \in Kinds : Cardinality(OfKind(blocks, kind)) <= 1
  /\ MaxMessages \in Nat /\ MaxHooks \in Nat

VARIABLES
  messages,       \* the conversation: roles and parts
  pc,             \* pc[h]: "idle", "loading" or "retrieving"
  on,             \* on[h]: the message h works on
  prompt,         \* prompt[h]: the parts the prompt of h was taken from
  hooks,          \* hooks called so far
  crowd           \* history: the most hooks that worked on a message at once

vars == <<messages, pc, on, prompt, hooks, crowd>>

Init ==
  /\ messages = <<>>
  /\ pc = [h \in Hooks |-> "idle"]
  /\ on = [h \in Hooks |-> 0]
  /\ prompt = [h \in Hooks |-> {}]
  /\ hooks = 0
  /\ crowd = [m \in 1 .. MaxMessages |-> 0]

(* A message of the user, or an answer. The host's messages have their     *)
(* role in "info".                                                         *)
Say(role, part) ==
  /\ Len(messages) < MaxMessages
  /\ messages' = Append(messages, [role |-> role, parts |-> <<part>>])
  /\ UNCHANGED <<pc, on, prompt, hooks, crowd>>

OfParts(F(_)) ==
  [m \in DOMAIN messages |->
    [messages[m] EXCEPT !.parts = [i \in DOMAIN messages[m].parts |-> F(messages[m].parts[i])]]]

(* patchDirectiveHistory: the lines go from every text. It would leave     *)
(* messages alone whose own "role" is not the user's, and the host's       *)
(* messages have none.                                                     *)
Strip(part) == [part EXCEPT !.directive = FALSE]
PatchDirectiveHistory ==
  /\ messages' = OfParts(Strip)
  /\ UNCHANGED <<pc, on, prompt, hooks, crowd>>

(* patchSyntheticReminders: every reminder of a constraint has the block   *)
(* once. What was retrieved is a reminder too.                             *)
Preserve(part) ==
  [part EXCEPT !.block = @ \/ (part.kind # "words" /\ part.constraint)]
PatchSyntheticReminders ==
  /\ messages' = OfParts(Preserve)
  /\ UNCHANGED <<pc, on, prompt, hooks, crowd>>

UserMessages == {m \in DOMAIN messages : messages[m].role = "user"}
(* latestUserMessage                                                       *)
Latest(m) == m \in UserMessages /\ \A n \in UserMessages : n <= m

\* A variant with a bug: only the memory part counts.
HasMemoryPart(m) == \E i \in DOMAIN messages[m].parts : messages[m].parts[i].kind = "memory"
(* messageHasMemoryContext                                                 *)
HasMemoryContext(m) ==
  \E i \in DOMAIN messages[m].parts : messages[m].parts[i].kind \in {"memory", "canon"}

WorkingOn(m) == {h \in Hooks : pc[h] # "idle" /\ on[h] = m}

(* injectRoomMemoryContext until it waits for the session's state. A hook  *)
(* without a message, or with one that has its context, changes nothing.   *)
Start(h) ==
  /\ pc[h] = "idle" /\ hooks < MaxHooks
  /\ \E m \in UserMessages :
       /\ Latest(m) /\ ~HasMemoryContext(m)
       /\ pc' = [pc EXCEPT ![h] = "loading"]
       /\ on' = [on EXCEPT ![h] = m]
       /\ LET n == 1 + Cardinality(WorkingOn(m))
          IN  crowd' = [crowd EXCEPT ![m] = IF n > @ THEN n ELSE @]
  /\ hooks' = hooks + 1
  /\ UNCHANGED <<messages, prompt>>

Done(h) ==
  /\ pc' = [pc EXCEPT ![h] = "idle"]
  /\ on' = [on EXCEPT ![h] = 0]
  /\ prompt' = [prompt EXCEPT ![h] = {}]
  /\ UNCHANGED <<hooks, crowd>>

(* A path that is no room's: nothing is retrieved.                         *)
NoRoom(h) ==
  /\ pc[h] = "loading"
  /\ Done(h) /\ UNCHANGED messages

\* A variant with a bug: what was injected is part of the prompt.
PromptOfAll(m) == {messages[m].parts[i] : i \in DOMAIN messages[m].parts}
(* userPromptFromMessage: the parts that are not marked as memory.         *)
PromptOf(m) ==
  {part \in {messages[m].parts[i] : i \in DOMAIN messages[m].parts} : part.kind # "memory"}

TakePrompt(h) ==
  /\ pc[h] = "loading"
  /\ pc' = [pc EXCEPT ![h] = "retrieving"]
  /\ prompt' = [prompt EXCEPT ![h] = PromptOf(on[h])]
  /\ UNCHANGED <<messages, on, hooks, crowd>>

(* The retrieval is done: a part for each block that is not empty.         *)
Inject(h) ==
  /\ pc[h] = "retrieving"
  /\ \E blocks \in Retrieved :
       messages' = [messages EXCEPT ![on[h]].parts = @ \o blocks]
  /\ Done(h)

Next ==
  \/ \E role \in {"user", "assistant"}, part \in Said : Say(role, part)
  \/ PatchDirectiveHistory \/ PatchSyntheticReminders
  \/ \E h \in Hooks : Start(h) \/ NoRoom(h) \/ TakePrompt(h) \/ Inject(h)

Spec == Init /\ [][Next]_vars
-----------------------------------------------------------------------------
TypeOK ==
  /\ messages \in Seq([role: {"user", "assistant"}, parts: Seq(PartType)])
  /\ Len(messages) <= MaxMessages
  /\ pc \in [Hooks -> {"idle", "loading", "retrieving"}]
  /\ on \in [Hooks -> 0 .. MaxMessages]
  /\ prompt \in [Hooks -> SUBSET PartType]
  /\ hooks \in 0 .. MaxHooks
  /\ crowd \in [1 .. MaxMessages -> Nat]

Copies(m, kind) == Cardinality(OfKind(messages[m].parts, kind))

(* The marker of src/memory.ts:456: a message gets its memory and its      *)
(* canon once. It has more copies only when as many hooks had looked at it *)
(* before any of them pushed.                                              *)
InjectedOnce ==
  \A m \in DOMAIN messages :
    Copies(m, "memory") <= crowd[m] /\ Copies(m, "canon") <= crowd[m]

(* What a retrieval is asked (src/memory.ts:483) is never the memory of an *)
(* earlier one; it is an earlier one's canon only when hooks overlapped on *)
(* the message.                                                            *)
PromptIsOwn ==
  \A h \in Hooks : \A part \in prompt[h] :
    /\ part.kind # "memory"
    /\ part.kind = "canon" => crowd[on[h]] > 1
=============================================================================
