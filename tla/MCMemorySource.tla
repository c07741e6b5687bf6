---------------------------- MODULE MCMemorySource ----------------------------
(***************************************************************************)
(* Instances of MemorySource for TLC: a paper-boat and a recorded session  *)
(* of the room and a shared paper-boat, all three under one db-only path,  *)
(* and a memory of another room.                                           *)
(***************************************************************************)
EXTENDS MemorySource, TLC

CONSTANTS boat, session, shared, foreign

MCMemories == {boat, session, shared, foreign}
MCRoomOf == boat :> "kodo" @@ session :> "kodo" @@ shared :> House @@ foreign :> "tuner"
MCPathOf == boat :> "a" @@ session :> "a" @@ shared :> "a" @@ foreign :> "b"
=============================================================================
