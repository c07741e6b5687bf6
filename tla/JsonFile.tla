------------------------------- MODULE JsonFile -------------------------------
(***************************************************************************)
(* A JSON file as src/util.ts reads and writes it. No rename and no lock:  *)
(* writeFile empties the file when it opens it and then writes the text at *)
(* the start of it, so a write is two steps other writers and readers can  *)
(* come between, and a process can die between.                            *)
(*   empty: absent, or opened by a writer that has not written yet         *)
(*   torn : the text of one writer followed by the tail of another's       *)
(*   whole: the text of one value                                          *)
(* The value of a file that is not whole is never looked at; it is the     *)
(* reader's fallback so that equal files are equal states.                 *)
(***************************************************************************)
FileKinds == {"empty", "torn", "whole"}
JsonFiles(S) == [kind: FileKinds, value: S]

Emptied(fallback) == [kind |-> "empty", value |-> fallback]
Torn(fallback) == [kind |-> "torn", value |-> fallback]
Whole(v) == [kind |-> "whole", value |-> v]

(* readJson: whatever goes wrong, missing file or bad JSON, the fallback.  *)
ReadJson(file, fallback) == IF file.kind = "whole" THEN file.value ELSE fallback

\* A variant with a bug: the file is opened without being emptied.
AfterUntruncatedWrite(file, v, fallback) == {Whole(v), Torn(fallback)}

(* What the file may be after a writer that emptied it earlier writes v:   *)
(* when another writer's text is already there and is longer, a mixture.   *)
AfterWrite(file, v, fallback) ==
  {Whole(v)} \union (IF file.kind = "empty" THEN {} ELSE {Torn(fallback)})
=============================================================================
