----------------------------- MODULE MCRoomMemory -----------------------------
(***************************************************************************)
(* Instances of RoomMemory for TLC: two threads competing for one          *)
(* injection slot and one deferred slot, over two files.                   *)
(***************************************************************************)
EXTENDS RoomMemory, TLC

CONSTANTS f1, f2, r1, r2, r3, s1, s2

MCFiles == {f1, f2}
MCRefs == {r1, r2, r3}
MCFileOf == (r1 :> f1) @@ (r2 :> f2) @@ (r3 :> f1)
MCEntries == <<{r1}, {r2}>>
\* Thread 2 points at both files.
MCSharedEntries == <<{r1}, {r2, r3}>>
MCFileDate == (f1 :> 1) @@ (f2 :> NoDate)
\* Both threads score and the first wins; the second alone scores, less.
MCPrompts == {<<16, 10>>, <<0, 7>>}
MCLanes == {{}, {f2}}

MCSymmetry == Permutations({s1, s2})
=============================================================================
