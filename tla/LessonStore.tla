------------------------------ MODULE LessonStore ------------------------------
(***************************************************************************)
(* update_lesson and delete_lesson (src/update-lesson.py and               *)
(* src/delete-lesson.py) against PostgreSQL. Each call is a process with a *)
(* connection of its own; its transaction locks the row (SELECT title ...  *)
(* FOR UPDATE), compares the title, writes and commits. The database runs  *)
(* at READ COMMITTED: a locked or written row is the last committed one,   *)
(* and a statement that needs a lock waits for it.                         *)
(***************************************************************************)
EXTENDS Lessons

CONSTANTS
  MaxCalls        \* bound: calls made in a behaviour

VARIABLES
  rows,           \* the committed rows
  holder,         \* holder[k]: the caller whose transaction has locked row k
  pc,             \* pc[c]: where the call of c is
  call,           \* call[c]: what c last asked for
  seen,           \* seen[c]: the title c's SELECT returned
  draft,          \* draft[c]: the version of the row c's statement left
  reply,          \* reply[c]: the answer of c's call, once it has one
  made,           \* calls made so far
  changed         \* history: changed[c], whether c's call changed the database

vars == <<rows, holder, pc, call, seen, draft, reply, made, changed>>

NoOne == "no one"
NoTitle == "no title"

ASSUME StoreAssumption ==
  /\ NoOne \notin Callers /\ NoTitle \notin Values
  /\ MaxCalls \in Nat
-----------------------------------------------------------------------------
Goto(c, from, to) == pc[c] = from /\ pc' = [pc EXCEPT ![c] = to]

(* The end of a transaction, whichever: its locks go.                      *)
Release(c) == holder' = [k \in Keys |-> IF holder[k] = c THEN NoOne ELSE holder[k]]

Answer(c, answer) ==
  /\ reply' = [reply EXCEPT ![c] = answer]
  /\ pc' = [pc EXCEPT ![c] = "replying"]

Init ==
  /\ rows = Initial
  /\ holder = [k \in Keys |-> NoOne]
  /\ pc = [c \in Callers |-> "idle"]
  /\ call = [c \in Callers |-> NoCall]
  /\ seen = [c \in Callers |-> NoTitle]
  /\ draft = [c \in Callers |-> NoRow]
  /\ reply = [c \in Callers |-> "none"]
  /\ made = 0
  /\ changed = [c \in Callers |-> FALSE]

Ask(c, r) ==
  /\ made < MaxCalls
  /\ Goto(c, "idle", "checking")
  /\ call' = [call EXCEPT ![c] = r]
  /\ made' = made + 1
  /\ changed' = [changed EXCEPT ![c] = FALSE]
  /\ UNCHANGED <<rows, holder, seen, draft, reply>>

(* Arguments that do not pass are refused before any statement.            *)
Reject(c) ==
  /\ pc[c] = "checking" /\ ~WellFormed(call[c])
  /\ Answer(c, "refused")
  /\ UNCHANGED <<rows, holder, call, seen, draft, made, changed>>

\* A variant with a bug: the SELECT takes no lock.
SelectNoLock(c) ==
  LET k == Key(call[c])
  IN  /\ Goto(c, "checking", "locked") /\ WellFormed(call[c])
      /\ rows[k] # NoRow /\ holder[k] = NoOne
      /\ seen' = [seen EXCEPT ![c] = rows[k]["title"]]
      /\ UNCHANGED <<rows, holder, call, draft, reply, made, changed>>

(* SELECT title ... FOR UPDATE finds the row, and locks it.                *)
SelectForUpdate(c) ==
  LET k == Key(call[c])
  IN  /\ Goto(c, "checking", "locked") /\ WellFormed(call[c])
      /\ rows[k] # NoRow /\ holder[k] = NoOne
      /\ holder' = [holder EXCEPT ![k] = c]
      /\ seen' = [seen EXCEPT ![c] = rows[k]["title"]]
      /\ UNCHANGED <<rows, call, draft, reply, made, changed>>

\* Variants with a bug: a missing row counts as deleted; a refusal keeps the lock.
NotFoundOk(c) ==
  /\ pc[c] = "checking" /\ WellFormed(call[c])
  /\ rows[Key(call[c])] = NoRow
  /\ Answer(c, "ok")
  /\ UNCHANGED <<rows, holder, call, seen, draft, made, changed>>
MismatchLocked(c) ==
  /\ pc[c] = "locked" /\ seen[c] # call[c].expected
  /\ Answer(c, "refused")
  /\ UNCHANGED <<rows, holder, call, seen, draft, made, changed>>

NotFound(c) ==
  LET k == Key(call[c])
  IN  /\ pc[c] = "checking" /\ WellFormed(call[c])
      /\ rows[k] = NoRow
      /\ Answer(c, "refused")
      /\ UNCHANGED <<rows, holder, call, seen, draft, made, changed>>

Mismatch(c) ==
  /\ pc[c] = "locked" /\ seen[c] # call[c].expected
  /\ Release(c) /\ Answer(c, "refused")
  /\ UNCHANGED <<rows, call, seen, draft, made, changed>>

(* The UPDATE or DELETE statement: it needs the row's lock, works on the   *)
(* committed row, and is refused unless it meets exactly one row. DELETE   *)
(* names the title too.                                                    *)
Write(c) ==
  LET r == call[c]
      k == Key(r)
      meets == rows[k] # NoRow /\ (r.op = "delete" => rows[k]["title"] = r.expected)
  IN  /\ pc[c] = "locked" /\ seen[c] = r.expected
      /\ holder[k] \in {c, NoOne}
      /\ holder' = [holder EXCEPT ![k] = IF meets THEN c ELSE NoOne]
      /\ draft' = [draft EXCEPT ![c] = IF meets THEN Left(rows[k], r) ELSE NoRow]
      /\ pc' = [pc EXCEPT ![c] = IF meets THEN "written" ELSE "replying"]
      /\ reply' = [reply EXCEPT ![c] = IF meets THEN reply[c] ELSE "refused"]
      /\ UNCHANGED <<rows, call, seen, made, changed>>

(* Leaving the connection's context commits.                               *)
CommitWith(c, answer) ==
  /\ pc[c] = "written"
  /\ rows' = [rows EXCEPT ![Key(call[c])] = draft[c]]
  /\ changed' = [changed EXCEPT ![c] = TRUE]
  /\ Release(c) /\ Answer(c, answer)
  /\ UNCHANGED <<call, seen, draft, made>>

Commit(c) == CommitWith(c, "ok")

(* The commit is done and its acknowledgement is not received: an          *)
(* exception, and main answers updated (or deleted): false.                *)
CommitUnheard(c) == LoseAck /\ CommitWith(c, "refused")

(* Any other exception: the transaction is rolled back, and main answers   *)
(* the same.                                                               *)
Fail(c) ==
  /\ MayFail
  /\ pc[c] \in {"checking", "locked", "written"}
  /\ Release(c) /\ Answer(c, "refused")
  /\ UNCHANGED <<rows, call, seen, draft, made, changed>>

Return(c) ==
  /\ Goto(c, "replying", "idle")
  /\ UNCHANGED <<rows, holder, call, seen, draft, reply, made, changed>>

Advance(c) ==
  \/ Reject(c) \/ SelectForUpdate(c) \/ NotFound(c) \/ Mismatch(c)
  \/ Write(c) \/ Commit(c) \/ Return(c)

Next == \E c \in Callers :
  \/ \E r \in Requests : Ask(c, r)
  \/ Advance(c) \/ CommitUnheard(c) \/ Fail(c)

Spec == Init /\ [][Next]_vars

(* A statement the database can run is run: the caller holds no other lock *)
(* while it waits, and calls are finitely many.                            *)
FairSpec == Spec /\ \A c \in Callers : WF_vars(Advance(c))
-----------------------------------------------------------------------------
TypeOK ==
  /\ rows \in [Keys -> Rows \union {NoRow}]
  /\ holder \in [Keys -> Callers \union {NoOne}]
  /\ pc \in [Callers -> {"idle", "checking", "locked", "written", "replying"}]
  /\ call \in [Callers -> Requests \union {NoCall}]
  /\ seen \in [Callers -> Values \union {NoTitle}]
  /\ draft \in [Callers -> Rows \union {NoRow}]
  /\ reply \in [Callers -> {"none", "ok", "refused"}]
  /\ made \in Nat
  /\ changed \in [Callers -> BOOLEAN]

(* A row changes only by a call whose expected title is the title the row  *)
(* has at that moment, not one it had when the call looked.                *)
ConfirmedByTitle ==
  [][\A k \in Keys : rows'[k] # rows[k] =>
       \E c \in Callers :
         /\ pc[c] = "written" /\ Key(call[c]) = k
         /\ rows[k] # NoRow /\ rows[k]["title"] = call[c].expected]_vars

(* "Omitted fields remain unchanged, including formal negation links"      *)
(* (docs/LESSONS.md:128), whatever other updates of the row run meanwhile. *)
OmittedKept ==
  [][\A k \in Keys, col \in Columns :
       rows[k] # NoRow /\ rows'[k] # NoRow /\ rows'[k][col] # rows[k][col] =>
         \E c \in Callers :
           /\ pc[c] = "written" /\ Key(call[c]) = k
           /\ call[c].op = "update" /\ col \in DOMAIN call[c].patch]_vars

(* A call answers ok only if it changed its row, and a refusal leaves the  *)
(* database as it was: "Delete one exact row, or return a refusal without  *)
(* changing the DB" (src/delete-lesson.py:30).                             *)
AnswersAreTrue ==
  \A c \in Callers : pc[c] = "replying" => (reply[c] = "ok" <=> changed[c])

(* Every call is answered: no caller waits for a lock for ever.            *)
CallAnswered == \A c \in Callers : pc[c] = "checking" ~> pc[c] = "replying"

-----------------------------------------------------------------------------
(* A call takes effect when it commits, or when it is refused.             *)
Outcome == [c \in Callers |->
  CASE pc[c] = "idle" -> "idle"
    [] pc[c] = "replying" -> reply[c]
    [] OTHER -> "waiting"]

Registry == INSTANCE LessonRegistry WITH outcome <- Outcome

(* The transactions are atomic calls of the registry, in commit order.     *)
RefinesRegistry == Registry!Spec
=============================================================================
