------------------------------ MODULE AtomicRoom ------------------------------
(***************************************************************************)
(* What the room's retrieval memory promises: a retrieval turn reads the   *)
(* room state and the deferred queue, and replaces both, in one step. The  *)
(* detailed module RoomMemory, where a turn is a run of awaits over two    *)
(* files, is compared with this one.                                       *)
(***************************************************************************)
EXTENDS MemoryRank

CONSTANTS
  Sessions,       \* conversations open on the room
  Prompts         \* the raw scores a prompt may give to the threads

VARIABLES
  room,           \* the state the next turn starts from
  deferred,       \* the queue the next turn starts from
  now             \* the time, in recency half-lives

atomicVars == <<room, deferred, now>>

Init ==
  /\ room = InitMemoryState
  /\ deferred = NoQueue
  /\ now = 1

(* Everything a turn retrieves is computed from the state and the queue    *)
(* the last turn left, at one moment `at`, and saved before any other turn *)
(* starts.                                                                 *)
Turn(s, raw, lane, at) ==
  LET st == OpenTurn(room, s)
  IN  /\ room'.turn = room.turn + 1   \* implied by the next line; spares TLC the rest
      /\ room' = CloseTurn(st, raw, RetrievedUnion(st, raw, deferred.threads, lane, at), at)
      /\ deferred' = BuildMemoryPrefetchQueue(st, raw, at)
      /\ UNCHANGED now

(* The operator marks a file the room has loaded as pinned.                *)
Pin(f) ==
  /\ room.loaded[f].at > 0
  /\ room' = [room EXCEPT !.loaded[f].pinned = TRUE]
  /\ UNCHANGED <<deferred, now>>

Tick ==
  /\ now' = now + 1
  /\ UNCHANGED <<room, deferred>>

Next ==
  \/ \E s \in Sessions, raw \in Prompts, lane \in SUBSET Files, at \in 1 .. now :
       Turn(s, raw, lane, at)
  \/ \E f \in Files : Pin(f)
  \/ Tick

Spec == Init /\ [][Next]_atomicVars
=============================================================================
