-------------------------------- MODULE TurnLog --------------------------------
(***************************************************************************)
(* The turn logging of src/ledger.ts. A call of logUserTurn or             *)
(* logAssistantTurn appends the turn to the ledger of its spirit and day,  *)
(* rebuilds the spirit's window from the ledger (assistant turns only),    *)
(* and adds the turn to the live context of the room, first in the JSON    *)
(* file and then in the markdown one. Every step is an await: the calls of *)
(* the sessions open on the room come between, and midnight may.           *)
(*                                                                         *)
(* A turn is its number, in the order of the calls. The text of a window   *)
(* is the ledger entries it was made from, that of the markdown file the   *)
(* live context it was made from.                                          *)
(***************************************************************************)
EXTENDS Sequences, SequencesExt, Naturals, JsonFile

CONSTANTS
  Sessions,       \* conversations open on the room
  Spirits,        \* spirits that speak in them
  MaxLive,        \* LIVE_CONTEXT_MAX_TURNS (8)
  MaxWindow,      \* turns a window summarises (12)
  MaxCalls,       \* bound: calls made in a behaviour
  MaxDay          \* bound: days that pass

ASSUME LogAssumption ==
  /\ MaxLive \in Nat \ {0} /\ MaxWindow \in Nat \ {0}
  /\ MaxCalls \in Nat /\ MaxDay \in Nat \ {0}

VARIABLES
  calls,          \* calls[n]: the n-th turn
  today,          \* the local date
  ledger,         \* ledger[sp, d]: conversations/<d>.jsonl of sp
  window,         \* window[sp, d]: window/<d>.md of sp
  live,           \* current_session_context.json
  markdown,       \* current_session_context.md
  pc,             \* pc[s]: where the call of session s is
  turn,           \* turn[s]: the turn it logs
  day,            \* day[s]: the date its next path was made with
  entries,        \* entries[s]: the ledger entries it read
  next,           \* next[s]: the live context it read, and then the one it writes
  alone,          \* history: no two calls have overlapped since all were idle
  sound,          \* history: the windows of which no call was cut off and no
                  \* overlap came since a call that was alone wrote them
  paired,         \* history: the same of the two files of the live context
  late            \* history: turns whose window was rebuilt on another day

files == <<ledger, window, live, markdown>>
call == <<pc, turn, day, entries, next>>
history == <<alone, sound, paired>>
vars == <<calls, today, ledger, window, live, markdown, pc, turn, day, entries, next,
          alone, sound, paired, late>>

NoTurn == 0
Turns == 0 .. MaxCalls
Days == 1 .. MaxDay
Roles == {"user", "assistant"}
Phases == {"idle", "append", "window", "rebuild", "rewrite", "live", "merge", "save",
           "render", "mark"}

(* `progress`: the text is one looksLikeLiveContextProgressTurn skips,     *)
(* which only an assistant's can be.                                       *)
Call == {c \in [session: Sessions, role: Roles, spirit: Spirits, progress: BOOLEAN] :
           c.role = "user" => ~c.progress}

LastOf(seq, n) == SubSeq(seq, Max({1, Len(seq) - n + 1}), Len(seq))

\* A variant with a bug: the tail is counted, not the ledger.
WindowOfTail(read) ==
  [of |-> Len(LastOf(read, MaxWindow)), turns |-> LastOf(read, MaxWindow)]

(* summarizeLedgerEntries: how many entries there are, and the last ones.  *)
WindowOf(read) == [of |-> Len(read), turns |-> LastOf(read, MaxWindow)]
NoWindow == [of |-> 0, turns |-> <<>>]

(* The live context. NoLive is what stands for a missing one.              *)
NoSession == "no session"
NoLive == [session |-> NoSession, turns |-> <<>>, user |-> NoTurn, assistant |-> NoTurn]
-----------------------------------------------------------------------------
\* A variant with a bug: another session's turns are kept.
BaseOfAny(existing, s) == [existing EXCEPT !.session = s]

(* refreshLiveRoomContext: the context the turn is added to, unless it is  *)
(* another session's, and the one that is written.                         *)
Base(existing, s) == IF existing.session = s THEN existing ELSE [NoLive EXCEPT !.session = s]

\* A variant with a bug: the text of any turn is the latest of both roles.
WithTurnOfAny(base, n) ==
  [base EXCEPT !.turns = LastOf(Append(base.turns, n), MaxLive), !.user = n, !.assistant = n]

WithTurn(base, n) ==
  [base EXCEPT
     !.turns = LastOf(Append(base.turns, n), MaxLive),
     !.user = IF calls[n].role = "user" THEN n ELSE base.user,
     !.assistant = IF calls[n].role = "assistant" THEN n ELSE base.assistant]

(* The spirit and the day of the files the call of s works on.             *)
Path(s) == <<calls[turn[s]].spirit, day[s]>>

Idle(s) == pc[s] = "idle"
AllIdle == \A s \in Sessions : Idle(s)
Goto(s, from, to) == pc[s] = from /\ pc' = [pc EXCEPT ![s] = to]

(* The call of s returns.                                                  *)
Return(s) ==
  /\ pc' = [pc EXCEPT ![s] = "idle"]
  /\ turn' = [turn EXCEPT ![s] = NoTurn]
  /\ day' = [day EXCEPT ![s] = 1]
  /\ entries' = [entries EXCEPT ![s] = <<>>]
  /\ next' = [next EXCEPT ![s] = NoLive]
-----------------------------------------------------------------------------
Init ==
  /\ calls = <<>> /\ today = 1
  /\ ledger = [path \in Spirits \X Days |-> <<>>]
  /\ window = [path \in Spirits \X Days |-> Emptied(NoWindow)]
  /\ live = Emptied(NoLive) /\ markdown = Emptied(NoLive)
  /\ pc = [s \in Sessions |-> "idle"]
  /\ turn = [s \in Sessions |-> NoTurn]
  /\ day = [s \in Sessions |-> 1]
  /\ entries = [s \in Sessions |-> <<>>]
  /\ next = [s \in Sessions |-> NoLive]
  /\ alone = TRUE /\ sound = Spirits \X Days /\ paired = TRUE /\ late = {}

(* logUserTurn or logAssistantTurn, with a text; the ledger's path is made.*)
LogTurn(c) ==
  /\ Len(calls) < MaxCalls
  /\ Goto(c.session, "idle", "append")
  /\ calls' = Append(calls, c)
  /\ turn' = [turn EXCEPT ![c.session] = Len(calls) + 1]
  /\ day' = [day EXCEPT ![c.session] = today]
  /\ alone' = AllIdle
  /\ sound' = IF AllIdle THEN sound ELSE {}
  /\ paired' = (paired /\ AllIdle)
  /\ UNCHANGED <<today, files, entries, next, late>>

\* A variant with a bug: a progress turn does not rebuild the window.
AppendNoProgress(s) ==
  LET c == calls[turn[s]]
  IN  /\ Goto(s, "append", IF c.role = "assistant" /\ ~c.progress THEN "window" ELSE "live")
      /\ ledger' = [ledger EXCEPT ![Path(s)] = Append(@, turn[s])]
      /\ UNCHANGED <<calls, today, window, live, markdown, turn, day, entries, next, history, late>>

AppendConversationLedger(s) ==
  LET c == calls[turn[s]]
  IN  /\ Goto(s, "append", IF c.role = "assistant" THEN "window" ELSE "live")
      /\ ledger' = [ledger EXCEPT ![Path(s)] = Append(@, turn[s])]
      /\ UNCHANGED <<calls, today, window, live, markdown, turn, day, entries, next, history, late>>

(* refreshSpiritWindow: the date is taken again and that day's ledger read.*)
ReadLedger(s) ==
  /\ Goto(s, "window", "rebuild")
  /\ day' = [day EXCEPT ![s] = today]
  /\ entries' = [entries EXCEPT ![s] = ledger[<<calls[turn[s]].spirit, today>>]]
  /\ late' = IF today = day[s] THEN late ELSE late \union {turn[s]}
  /\ UNCHANGED <<calls, today, files, turn, next, history>>

OpenWindow(s) ==
  /\ Goto(s, "rebuild", "rewrite")
  /\ window' = [window EXCEPT ![Path(s)] = Emptied(NoWindow)]
  /\ UNCHANGED <<calls, today, ledger, live, markdown, turn, day, entries, next, history, late>>

WriteWindow(s) ==
  /\ Goto(s, "rewrite", "live")
  /\ \E text \in AfterWrite(window[Path(s)], WindowOf(entries[s]), NoWindow) :
       window' = [window EXCEPT ![Path(s)] = text]
  /\ entries' = [entries EXCEPT ![s] = <<>>]
  /\ sound' = IF alone THEN sound \union {Path(s)} ELSE sound
  /\ UNCHANGED <<calls, today, ledger, live, markdown, turn, day, next, alone, paired, late>>

(* refreshLiveRoomContext returns early: a progress turn, or no shared     *)
(* state beside the room.                                                  *)
SkipLive(s) ==
  /\ pc[s] = "live"
  /\ Return(s)
  /\ UNCHANGED <<calls, today, files, history, late>>

ReadLive(s) ==
  /\ Goto(s, "live", "merge")
  /\ ~calls[turn[s]].progress
  /\ next' = [next EXCEPT ![s] = WithTurn(Base(ReadJson(live, NoLive), s), turn[s])]
  /\ UNCHANGED <<calls, today, files, turn, day, entries, history, late>>

OpenLive(s) ==
  /\ Goto(s, "merge", "save")
  /\ live' = Emptied(NoLive)
  /\ UNCHANGED <<calls, today, ledger, window, markdown, turn, day, entries, next, history, late>>

WriteLive(s) ==
  /\ Goto(s, "save", "render")
  /\ live' \in AfterWrite(live, next[s], NoLive)
  /\ UNCHANGED <<calls, today, ledger, window, markdown, turn, day, entries, next, history, late>>

OpenMarkdown(s) ==
  /\ Goto(s, "render", "mark")
  /\ markdown' = Emptied(NoLive)
  /\ UNCHANGED <<calls, today, ledger, window, live, turn, day, entries, next, history, late>>

\* A variant with a bug: the markdown leaves the new turn out.
WriteMarkdownBefore(s) ==
  /\ pc[s] = "mark"
  /\ markdown' \in AfterWrite(markdown, [next[s] EXCEPT !.turns = Front(@)], NoLive)
  /\ paired' = (paired \/ alone)
  /\ Return(s)
  /\ UNCHANGED <<calls, today, ledger, window, live, alone, sound, late>>

WriteMarkdown(s) ==
  /\ pc[s] = "mark"
  /\ markdown' \in AfterWrite(markdown, next[s], NoLive)
  /\ paired' = (paired \/ alone)
  /\ Return(s)
  /\ UNCHANGED <<calls, today, ledger, window, live, alone, sound, late>>

(* A file operation fails, or the process dies, with the files as they are.*)
CutOff(s) ==
  /\ ~Idle(s)
  /\ Return(s)
  /\ sound' = IF pc[s] \in {"window", "rebuild", "rewrite"} THEN sound \ {Path(s)} ELSE sound
  /\ paired' = (paired /\ pc[s] \notin {"save", "render", "mark"})
  /\ UNCHANGED <<calls, today, files, alone, late>>

Midnight ==
  /\ today < MaxDay
  /\ today' = today + 1
  /\ UNCHANGED <<calls, files, call, history, late>>

Step(s) ==
  \/ AppendConversationLedger(s)
  \/ ReadLedger(s) \/ OpenWindow(s) \/ WriteWindow(s)
  \/ SkipLive(s)
  \/ ReadLive(s) \/ OpenLive(s) \/ WriteLive(s)
  \/ OpenMarkdown(s) \/ WriteMarkdown(s)
  \/ CutOff(s)

Next ==
  \/ \E c \in Call : LogTurn(c)
  \/ \E s \in Sessions : Step(s)
  \/ Midnight

Spec == Init /\ [][Next]_vars
-----------------------------------------------------------------------------
Window == [of: Nat, turns: Seq(Nat)]
Live == [session: Sessions \union {NoSession}, turns: Seq(Nat), user: Nat, assistant: Nat]

TypeOK ==
  /\ calls \in Seq(Call) /\ today \in Days
  /\ ledger \in [Spirits \X Days -> Seq(Nat)]
  /\ window \in [Spirits \X Days -> JsonFiles(Window)]
  /\ live \in JsonFiles(Live) /\ markdown \in JsonFiles(Live)
  /\ pc \in [Sessions -> Phases]
  /\ turn \in [Sessions -> 0 .. Len(calls)]
  /\ day \in [Sessions -> Days]
  /\ entries \in [Sessions -> Seq(Nat)]
  /\ next \in [Sessions -> Live]
  /\ alone \in BOOLEAN /\ sound \subseteq Spirits \X Days /\ paired \in BOOLEAN
  /\ late \subseteq 1 .. Len(calls)

Ascending(seq) == \A i, j \in DOMAIN seq : i < j => seq[i] < seq[j]
Logged(n) == \E d \in Days : n \in Range(ledger[<<calls[n].spirit, d>>])

(* However calls overlap, are cut off or find the file unreadable, a live  *)
(* context is a true, if incomplete, history of the one session it names:  *)
(* turns of that session only, in the order they were taken, each already  *)
(* in the ledger.                                                          *)
TrueHistory(context) ==
  /\ Ascending(context.turns)
  /\ \A n \in Range(context.turns) : calls[n].session = context.session /\ Logged(n)
LiveIsHistory ==
  /\ TrueHistory(live.value) /\ TrueHistory(markdown.value)
  /\ \A s \in Sessions : TrueHistory(next[s])

(* The latest user turn shown is the last user turn among the recent ones, *)
(* or one that has left them; likewise the assistant's.                    *)
LatestIsLast ==
  LET last(n, role) ==
        /\ n # NoTurn => calls[n].role = role /\ calls[n].session = live.value.session
        /\ \A m \in Range(live.value.turns) : calls[m].role = role => m <= n
  IN  last(live.value.user, "user") /\ last(live.value.assistant, "assistant")

(* A window shows the end of a beginning of the ledger it summarises, and  *)
(* counts it right, however late it is written.                            *)
WindowOfLedger ==
  \A path \in Spirits \X Days :
    LET shown == window[path].value
    IN  /\ shown.of <= Len(ledger[path])
        /\ shown.turns = LastOf(SubSeq(ledger[path], 1, shown.of), MaxWindow)

(* A call that is alone repairs what overlapping and cut-off calls left:   *)
(* the window it writes has every assistant turn of its day, theirs too    *)
(* ("rebuilt on each assistant turn from the JSONL"), and keeps up from    *)
(* then on, until the next overlap or a cut-off before it is whole again.  *)
(* A turn midnight divided from its rebuild is left out.                   *)
WindowUpToDate ==
  AllIdle =>
    \A path \in sound : \A i \in DOMAIN ledger[path] :
      calls[ledger[path][i]].role = "assistant" /\ ledger[path][i] \notin late =>
        window[path].kind = "whole" /\ i <= window[path].value.of

(* Whatever happened before, a call that is alone leaves the two files of  *)
(* the live context saying the same, and so do those after it, until the   *)
(* next overlap or a cut-off between the first write and the last.         *)
MarkdownAgrees == AllIdle /\ paired => markdown = live
=============================================================================
