------------------------------ MODULE ActiveSpirit ------------------------------
(***************************************************************************)
(* src/spirit.ts on top of the session state: with the state its call      *)
(* returned, the host (external) loads the contract of the embodied spirit *)
(* and writes the active spirit, once for the house and once in the room.  *)
(*                                                                         *)
(* loadSpiritContract looks at the contract's mtime, and reads it a step   *)
(* later when the cache has nothing for that mtime. Contracts are edited   *)
(* meanwhile, and an edit too is an open that empties and a later write.   *)
(* The content of a contract is the number of changes made to it: 0 before *)
(* it exists, odd while it is open and empty.                              *)
(***************************************************************************)
EXTENDS SessionState

CONSTANTS
  RoomOf,         \* RoomOf[c]: the room the call's directory names, or NoRoom
  NoRoom,
  Edited,         \* spirits whose contract is written or edited meanwhile
  MaxEdits        \* bound: steps of the edits of a contract

Rooms == {RoomOf[c] : c \in Callers} \ {NoRoom}

ASSUME SpiritAssumption ==
  /\ DOMAIN RoomOf = Callers
  /\ Edited \subseteq Spirits /\ MaxEdits \in Nat
  /\ \A c, d \in Callers : RoomOf[c] = RoomOf[d] => c = d \/ RoomOf[c] = NoRoom

VARIABLES
  contract,       \* contract[n]: the contract file of spirit n
  cache,          \* spiritCache: per spirit an mtime and the content read, or Uncached
  active,         \* the active_spirit.md of the house
  mirror,         \* mirror[r]: the active_spirit.md of room r
  step,           \* step[c]: where writeActiveSpiritFiles of c's call is
  stamp,          \* stamp[c]: the mtime its stat returned
  shown,          \* shown[c]: the content of the contract it goes on with
  since,          \* history: since[c], the content when it called stat; 0 if another
                  \* content had the same mtime
  mirrored        \* history: mirrored[s], s's last call wrote its room's file

spiritVars == <<contract, cache, active, mirror, step, stamp, shown, since, mirrored>>
vars == <<stateVars, spiritVars>>

Contents == 0 .. MaxEdits
Empty(content) == content % 2 = 1
Uncached == [mtime |-> 0, content |-> 0]

(* What is written: the room, the state and the contract's text.           *)
Outputs == [room: Rooms \union {NoRoom}, state: States, content: Contents]
NoOutput == [room |-> NoRoom, state |-> DefaultState, content |-> 0]
\* A variant with a bug: the state is taken from the global file.
OutputShared(c) ==
  [room |-> RoomOf[c], state |-> ReadJson(global, DefaultState), content |-> shown[c]]
Output(c) == [room |-> RoomOf[c], state |-> mine[c], content |-> shown[c]]

Spirit(c) == mine[c]["embodied"]
Move(c, from, to) ==
  /\ pc[c] = "answered" /\ step[c] = from
  /\ step' = [step EXCEPT ![c] = to]

SpiritInit ==
  /\ contract = [n \in Spirits |-> [mtime |-> 1, content |-> 0, twice |-> FALSE]]
  /\ cache = [n \in Spirits |-> Uncached]
  /\ active = Emptied(NoOutput)
  /\ mirror = [r \in Rooms |-> Emptied(NoOutput)]
  /\ step = [c \in Callers |-> "none"]
  /\ stamp = [c \in Callers |-> 0]
  /\ shown = [c \in Callers |-> 0]
  /\ since = [c \in Callers |-> 0]
  /\ mirrored = [s \in Sessions |-> FALSE]

(* A step of an edit. Two steps may fall into one tick of the clock that   *)
(* mtimes are taken from (twice). An edit that begins counts as a call.    *)
Edit(n) ==
  /\ contract[n].content < MaxEdits
  /\ \/ Empty(contract[n].content) /\ UNCHANGED calls
     \/ ~Empty(contract[n].content) /\ calls < MaxCalls /\ calls' = calls + 1
  /\ \E tick \in 0 .. 1 :
       contract' = [contract EXCEPT ![n] =
         [mtime |-> @.mtime + tick, content |-> @.content + 1, twice |-> tick = 0]]
  /\ UNCHANGED <<global, file, pc, partial, mine, published, held, cache, active, mirror, step, stamp, shown, since, mirrored>>

(* The call goes on with a content, or reads the file.                     *)
Using(c, content) ==
  /\ Move(c, "none", "composed")
  /\ shown' = [shown EXCEPT ![c] = content]
  /\ UNCHANGED stamp
Reading(c) ==
  /\ Move(c, "none", "reading")
  /\ stamp' = [stamp EXCEPT ![c] = contract[Spirit(c)].mtime]
  /\ UNCHANGED shown

Missing(n) == contract[n].content = 0
\* A variant with a bug: what is cached is used whatever the mtime.
HitAnyTime(n) == cache[n] # Uncached
Hit(n) == cache[n] # Uncached /\ cache[n].mtime = contract[n].mtime

(* loadSpiritContract: stat fails on a missing file, and nothing is cached;*)
(* a file with the mtime of the cached text is not read.                   *)
StatContract(c) ==
  /\ pc[c] = "answered" /\ step[c] = "none"
  /\ LET n == Spirit(c)
     IN  /\ \/ Missing(n) /\ Using(c, 0)
            \/ ~Missing(n) /\ Hit(n) /\ Using(c, cache[n].content)
            \/ ~Missing(n) /\ ~Hit(n) /\ Reading(c)
         /\ since' = [since EXCEPT ![c] = IF contract[n].twice THEN 0 ELSE contract[n].content]
  /\ UNCHANGED <<stateVars, contract, cache, active, mirror, mirrored>>

(* The text read is cached under the mtime seen before.                    *)
ReadContract(c) ==
  /\ Move(c, "reading", "composed")
  /\ LET n == Spirit(c)
     IN  /\ shown' = [shown EXCEPT ![c] = contract[n].content]
         /\ cache' = [cache EXCEPT ![n] = [mtime |-> stamp[c], content |-> contract[n].content]]
  /\ stamp' = [stamp EXCEPT ![c] = 0]
  /\ UNCHANGED <<stateVars, contract, active, mirror, since, mirrored>>

OpenActive(c) ==
  /\ RoomOf[c] # NoRoom
  /\ Move(c, "composed", "opened")
  /\ active' = Emptied(NoOutput)
  /\ since' = [since EXCEPT ![c] = 0]
  /\ UNCHANGED <<stateVars, contract, cache, mirror, stamp, shown, mirrored>>

WriteActive(c) ==
  /\ Move(c, "opened", "written")
  /\ active' \in AfterWrite(active, Output(c), NoOutput)
  /\ UNCHANGED <<stateVars, contract, cache, mirror, stamp, shown, since, mirrored>>

(* The host's call ends, with the session's.                               *)
End(c) ==
  /\ Return(c)
  /\ step' = [step EXCEPT ![c] = "none"]
  /\ stamp' = [stamp EXCEPT ![c] = 0]
  /\ shown' = [shown EXCEPT ![c] = 0]
  /\ since' = [since EXCEPT ![c] = 0]
  /\ UNCHANGED <<contract, cache, active>>

\* A variant with a bug: a room that has its file keeps it.
WriteMirrorOnce(c) ==
  LET r == RoomOf[c]
  IN  /\ step[c] = "written"
      /\ mirror' = [mirror EXCEPT ![r] = IF @.kind = "whole" THEN @ ELSE Whole(Output(c))]
      /\ mirrored' = [s \in Sessions |-> s = c \/ mirrored[s]]
      /\ End(c)

(* The room's file is written by calls of the room only. When that fails,  *)
(* before or after the file is opened, the error is swallowed.             *)
WriteMirror(c) ==
  LET r == RoomOf[c]
  IN  /\ step[c] = "written"
      /\ \E f \in {Whole(Output(c))} \union
                  (IF Faults THEN {mirror[r], Emptied(NoOutput)} ELSE {}) :
           /\ mirror' = [mirror EXCEPT ![r] = f]
           /\ mirrored' = [s \in Sessions |-> IF s = c THEN f = Whole(Output(c)) ELSE mirrored[s]]
      /\ End(c)

(* A call without a room writes neither file.                              *)
Refuse(c) ==
  /\ step[c] = "composed" /\ RoomOf[c] = NoRoom
  /\ End(c) /\ UNCHANGED <<mirror, mirrored>>

(* The write of the house's file fails, and the call with it; or the       *)
(* process ends, and the cache with it, which is then as good as new.      *)
SpiritFails(c) ==
  /\ Faults /\ step[c] \in {"composed", "opened"}
  /\ End(c) /\ UNCHANGED <<mirror, mirrored>>

HostAsks(c, u) ==
  /\ Ask(c, u)
  /\ mirrored' = [s \in Sessions |-> s # c /\ mirrored[s]]
  /\ UNCHANGED <<contract, cache, active, mirror, step, stamp, shown, since>>

SpiritStep(c) ==
  \/ StatContract(c) \/ ReadContract(c) \/ OpenActive(c) \/ WriteActive(c)
  \/ WriteMirror(c) \/ Refuse(c) \/ SpiritFails(c)

HostNext ==
  \/ \E c \in Callers :
       \/ \E u \in Requests : HostAsks(c, u)
       \/ (Advance(c) \/ CutOff(c)) /\ UNCHANGED spiritVars
       \/ SpiritStep(c)
  \/ \E n \in Edited : Edit(n)

HostInit == Init /\ SpiritInit

HostSpec == HostInit /\ [][HostNext]_vars
-----------------------------------------------------------------------------
(* "mtime-cached" (src/spirit.ts:76): the contract a call goes on with is  *)
(* never older than the one that was there when the call looked, and never *)
(* an empty one once the text is there. It holds of the contents that are  *)
(* alone in having their mtime.                                            *)
ContractIsFresh ==
  \A c \in Callers :
    step[c] = "composed" => shown[c] >= since[c]

(* The "per-room mirror" (src/spirit.ts:113) of a session that has a state *)
(* of its own shows that state once its call has written the mirror,       *)
(* whatever sessions of other rooms saved and wrote at the same time.      *)
MirrorIsOwn ==
  \A s \in Sessions :
    pc[s] = "idle" /\ mirrored[s] /\ Register[s] # NoState =>
      mirror[RoomOf[s]].kind = "whole" /\ mirror[RoomOf[s]].value.state = Register[s]

(* The house's file may be any room's, or torn. When it names a room whose *)
(* last call is done and wrote both files, the two say the same.           *)
ActiveAgrees ==
  \A s \in Sessions :
    pc[s] = "idle" /\ mirrored[s] /\ active.kind = "whole" /\ active.value.room = RoomOf[s] =>
      mirror[RoomOf[s]] = active
=============================================================================
