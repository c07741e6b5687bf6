-------------------------------- MODULE Lessons --------------------------------
(***************************************************************************)
(* Lessons and the calls that change one: the arguments update_lesson and  *)
(* delete_lesson accept, the row they expect and the row they leave.       *)
(***************************************************************************)
EXTENDS Naturals, FiniteSets

CONSTANTS
  Callers,        \* processes, each running one call at a time
  Kinds,          \* the kinds of TABLES, one table each
  Ids,            \* row ids
  Columns,        \* the columns of a lesson, "title" among them
  Values,         \* column values
  Allowed,        \* Allowed[kind]: the columns an update of that kind may name
  Legal,          \* Legal[col]: the values update_lesson lets through for col
  Requests,       \* the calls callers may make
  Initial,        \* the tables as they are at the start
  MayFail,        \* TRUE: a statement or the connection may fail before the commit
  LoseAck         \* TRUE: the connection may fail once the commit is done

Rows == [Columns -> Values]
NoRow == << >>
NoCall == << >>
Keys == Kinds \X Ids
Patches == UNION {[cols -> Values] : cols \in SUBSET Columns}

ASSUME LessonAssumption ==
  /\ "title" \in Columns /\ NoRow \notin Rows
  /\ Ids \subseteq Nat
  /\ Allowed \in [Kinds -> SUBSET Columns]
  /\ Legal \in [Columns -> SUBSET Values]
  /\ Initial \in [Keys -> Rows \union {NoRow}]
  /\ MayFail \in BOOLEAN /\ LoseAck \in BOOLEAN
  /\ \A r \in Requests :
       r.id \in Ids /\ r.op \in {"update", "delete"} /\ r.patch \in Patches

Key(r) == <<r.kind, r.id>>

(* The checks both scripts make before they open a transaction.            *)
WellFormed(r) ==
  /\ r.kind \in Kinds
  /\ r.id > 0
  /\ r.expected \in Legal["title"]
  /\ r.op = "update" =>
       /\ DOMAIN r.patch # {}
       /\ DOMAIN r.patch \subseteq Allowed[r.kind]
       /\ \A col \in DOMAIN r.patch : r.patch[col] \in Legal[col]

(* The row a call leaves: a deletion leaves none, an update the row with   *)
(* the columns of its patch replaced.                                      *)
Left(row, r) ==
  IF r.op = "delete" THEN NoRow
  ELSE [col \in Columns |-> IF col \in DOMAIN r.patch THEN r.patch[col] ELSE row[col]]

Confirms(row, r) == row # NoRow /\ row["title"] = r.expected
=============================================================================
