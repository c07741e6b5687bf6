--------------------------- MODULE LessonStoreProofs ---------------------------
(***************************************************************************)
(* Theorems about LessonStore for every set of callers, tables and calls.  *)
(* The invariant behind all of them: between its SELECT ... FOR UPDATE and *)
(* its commit a call holds the lock of its row, so the row is still the    *)
(* one whose title it compared and its statement worked on.                *)
(***************************************************************************)
EXTENDS LessonStore, TLAPS

LEMMA RequestType ==
  ASSUME NEW r \in Requests, WellFormed(r)
  PROVE  Key(r) \in Keys
BY LessonAssumption DEF WellFormed, Key, Keys

LEMMA LeftType ==
  ASSUME NEW r \in Requests, NEW row \in Rows
  PROVE  Left(row, r) \in Rows \union {NoRow}
<1>1. PICK cols \in SUBSET Columns : r.patch \in [cols -> Values]
  BY LessonAssumption DEF Patches
<1>2. QED
  BY <1>1 DEF Left, Rows

(* A call under way is one that was made, and one that holds a row passed  *)
(* the checks.                                                             *)
Called == \A c \in Callers :
  /\ pc[c] # "idle" => call[c] \in Requests
  /\ pc[c] \in {"locked", "written"} => WellFormed(call[c])

(* From its SELECT to its end a call holds its row, which is as it found   *)
(* it and, once written, as its draft replaces it.                         *)
Holds(c) ==
  LET k == Key(call[c])
  IN  /\ pc[c] \in {"locked", "written"} =>
           holder[k] = c /\ rows[k] # NoRow /\ seen[c] = rows[k]["title"]
      /\ pc[c] = "written" =>
           seen[c] = call[c].expected /\ draft[c] = Left(rows[k], call[c])

Unanswered(c) ==
  /\ pc[c] \in {"checking", "locked", "written"} => ~changed[c]
  /\ pc[c] = "replying" => reply[c] \in {"ok", "refused"}
  /\ pc[c] = "replying" /\ ~LoseAck => (reply[c] = "ok" <=> changed[c])

StoreInv ==
  /\ TypeOK
  /\ Called
  /\ \A c \in Callers : Holds(c) /\ Unanswered(c)
-----------------------------------------------------------------------------
LEMMA TypeInit == Init => TypeOK /\ Called
BY LessonAssumption DEF Init, TypeOK, Called, Keys

LEMMA TypeStep == TypeOK /\ Called /\ [Next]_vars => TypeOK' /\ Called'
<1>. SUFFICES ASSUME TypeOK, Called, [Next]_vars
              PROVE  TypeOK' /\ Called'
  OBVIOUS
<1>. USE DEF TypeOK, Called
<1>0. ASSUME NEW c \in Callers, pc[c] \in {"locked", "written"} \/
                                (pc[c] = "checking" /\ WellFormed(call[c]))
      PROVE  call[c] \in Requests /\ Key(call[c]) \in Keys
  BY <1>0, RequestType
<1>1. ASSUME NEW c \in Callers, NEW r \in Requests, Ask(c, r)
      PROVE  TypeOK' /\ Called'
  BY <1>1 DEF Ask, Goto
<1>2. ASSUME NEW c \in Callers, Reject(c) \/ NotFound(c)
      PROVE  TypeOK' /\ Called'
  BY <1>2 DEF Reject, NotFound, Answer
<1>3. ASSUME NEW c \in Callers, SelectForUpdate(c)
      PROVE  TypeOK' /\ Called'
  <2>1. pc[c] = "checking" /\ WellFormed(call[c]) /\ Key(call[c]) \in Keys
    BY <1>0, <1>3 DEF SelectForUpdate, Goto
  <2>2. rows[Key(call[c])] \in Rows
    BY <1>3, <2>1 DEF SelectForUpdate
  <2>3. rows[Key(call[c])]["title"] \in Values
    BY <2>2, LessonAssumption DEF Rows
  <2>4. QED
    BY <1>3, <2>1, <2>3 DEF SelectForUpdate, Goto
<1>4. ASSUME NEW c \in Callers, Mismatch(c) \/ Fail(c)
      PROVE  TypeOK' /\ Called'
  BY <1>4 DEF Mismatch, Fail, Release, Answer
<1>5. ASSUME NEW c \in Callers, Write(c)
      PROVE  TypeOK' /\ Called'
  <2>. DEFINE r == call[c]
              k == Key(r)
              meets == rows[k] # NoRow /\ (r.op = "delete" => rows[k]["title"] = r.expected)
  <2>1. pc[c] = "locked" /\ r \in Requests /\ k \in Keys /\ WellFormed(r)
    BY <1>0, <1>5 DEF Write
  <2>2. meets => Left(rows[k], r) \in Rows \union {NoRow}
    BY <2>1, LeftType
  <2>3. /\ pc' = [pc EXCEPT ![c] = IF meets THEN "written" ELSE "replying"]
        /\ holder' = [holder EXCEPT ![k] = IF meets THEN c ELSE NoOne]
        /\ draft' = [draft EXCEPT ![c] = IF meets THEN Left(rows[k], r) ELSE NoRow]
        /\ reply' = [reply EXCEPT ![c] = IF meets THEN reply[c] ELSE "refused"]
        /\ UNCHANGED <<rows, call, seen, made, changed>>
    BY <1>5 DEF Write
  <2>. HIDE DEF meets, k
  <2>4. QED
    BY <2>1, <2>2, <2>3
<1>6. ASSUME NEW c \in Callers, Commit(c) \/ CommitUnheard(c)
      PROVE  TypeOK' /\ Called'
  <2>1. pc[c] = "written" /\ Key(call[c]) \in Keys
    BY <1>0, <1>6 DEF Commit, CommitUnheard, CommitWith
  <2>2. QED
    BY <1>6, <2>1, ZenonT(60) DEF Commit, CommitUnheard, CommitWith, Release, Answer
<1>7. ASSUME NEW c \in Callers, Return(c)
      PROVE  TypeOK' /\ Called'
  BY <1>7 DEF Return, Goto
<1>8. CASE UNCHANGED vars
  BY <1>8 DEF vars
<1>9. QED
  BY <1>1, <1>2, <1>3, <1>4, <1>5, <1>6, <1>7, <1>8 DEF Next, Advance

(* Tables, locks and the callers' state keep their types.                  *)
THEOREM TypeCorrect == Spec => []TypeOK
BY TypeInit, TypeStep, PTL DEF Spec
-----------------------------------------------------------------------------
LEMMA StoreInit == Init => StoreInv
BY TypeInit DEF Init, StoreInv, Holds, Unanswered

(* Two callers never hold the same row.                                    *)
LEMMA OneHolder ==
  ASSUME StoreInv, NEW c \in Callers, NEW d \in Callers, c # d,
         pc[c] \in {"locked", "written"}, pc[d] \in {"locked", "written"}
  PROVE  Key(call[c]) # Key(call[d])
BY DEF StoreInv, Holds

LEMMA StoreStep == StoreInv /\ [Next]_vars => StoreInv'
<1>. SUFFICES ASSUME StoreInv, [Next]_vars, NEW d \in Callers
              PROVE  Holds(d)' /\ Unanswered(d)'
  BY TypeStep DEF StoreInv
<1>0. /\ TypeOK /\ Called /\ Holds(d) /\ Unanswered(d)
      /\ pc[d] \in {"locked", "written"} => Key(call[d]) \in Keys
  BY RequestType DEF StoreInv, Called
<1>a. ASSUME pc'[d] = pc[d], call'[d] = call[d], seen'[d] = seen[d], draft'[d] = draft[d],
             reply'[d] = reply[d], changed'[d] = changed[d],
             pc[d] \in {"locked", "written"} =>
               /\ rows'[Key(call[d])] = rows[Key(call[d])]
               /\ holder'[Key(call[d])] = holder[Key(call[d])]
      PROVE  Holds(d)' /\ Unanswered(d)'
  BY <1>0, <1>a DEF Holds, Unanswered
<1>1. ASSUME NEW c \in Callers, NEW r \in Requests, Ask(c, r)
      PROVE  Holds(d)' /\ Unanswered(d)'
  <2>1. CASE c = d
    BY <1>0, <1>1, <2>1 DEF Ask, Goto, TypeOK, Holds, Unanswered
  <2>2. CASE c # d
    BY <1>0, <1>1, <1>a, <2>2 DEF Ask, Goto, TypeOK
  <2>3. QED
    BY <2>1, <2>2
<1>2. ASSUME NEW c \in Callers, Reject(c) \/ NotFound(c)
      PROVE  Holds(d)' /\ Unanswered(d)'
  <2>1. CASE c = d
    BY <1>0, <1>2, <2>1 DEF Reject, NotFound, Answer, TypeOK, Holds, Unanswered
  <2>2. CASE c # d
    BY <1>0, <1>2, <1>a, <2>2 DEF Reject, NotFound, Answer, TypeOK
  <2>3. QED
    BY <2>1, <2>2
<1>3. ASSUME NEW c \in Callers, SelectForUpdate(c)
      PROVE  Holds(d)' /\ Unanswered(d)'
  <2>1. WellFormed(call[c]) /\ pc[c] = "checking" /\ Key(call[c]) \in Keys
    BY <1>0, <1>3, RequestType DEF SelectForUpdate, Goto, Called
  <2>2. CASE c = d
    BY <1>0, <1>3, <2>1, <2>2 DEF SelectForUpdate, Goto, TypeOK, Holds, Unanswered
  <2>3. CASE c # d
    <3>1. d # NoOne
      BY StoreAssumption
    <3>2. pc[d] \in {"locked", "written"} => Key(call[d]) # Key(call[c])
      BY <1>0, <1>3, <3>1 DEF SelectForUpdate, Holds
    <3>3. QED
      BY <1>0, <1>3, <1>a, <2>3, <3>2 DEF SelectForUpdate, Goto, TypeOK
  <2>4. QED
    BY <2>2, <2>3
<1>4. ASSUME NEW c \in Callers, Mismatch(c) \/ Fail(c)
      PROVE  Holds(d)' /\ Unanswered(d)'
  <2>1. CASE c = d
    BY <1>0, <1>4, <2>1 DEF Mismatch, Fail, Answer, TypeOK, Holds, Unanswered
  <2>2. CASE c # d
    <3>1. pc[d] \in {"locked", "written"} => holder'[Key(call[d])] = holder[Key(call[d])]
      BY <1>0, <1>4, <2>2 DEF Mismatch, Fail, Release, Holds
    <3>2. QED
      BY <1>0, <1>4, <1>a, <2>2, <3>1 DEF Mismatch, Fail, Answer, TypeOK
  <2>3. QED
    BY <2>1, <2>2
<1>5. ASSUME NEW c \in Callers, Write(c)
      PROVE  Holds(d)' /\ Unanswered(d)'
  <2>. DEFINE r == call[c]
              k == Key(r)
  <2>1. /\ pc[c] = "locked" /\ seen[c] = r.expected /\ k \in Keys
        /\ holder[k] = c /\ rows[k] # NoRow /\ rows[k]["title"] = r.expected
    BY <1>5, RequestType DEF Write, StoreInv, Called, Holds
  <2>2. /\ pc' = [pc EXCEPT ![c] = "written"] /\ holder' = [holder EXCEPT ![k] = c]
        /\ draft' = [draft EXCEPT ![c] = Left(rows[k], r)]
        /\ reply' = [reply EXCEPT ![c] = reply[c]]
        /\ UNCHANGED <<rows, call, seen, made, changed>>
    BY <1>5, <2>1 DEF Write
  <2>3. CASE c = d
    BY <1>0, <2>1, <2>2, <2>3 DEF TypeOK, Holds, Unanswered
  <2>4. CASE c # d
    <3>1. holder'[Key(call[d])] = holder[Key(call[d])]
      BY <1>0, <2>1, <2>2 DEF TypeOK
    <3>2. QED
      BY <1>0, <1>a, <2>2, <2>4, <3>1 DEF TypeOK
  <2>5. QED
    BY <2>3, <2>4
<1>6. ASSUME NEW c \in Callers, NEW answer, CommitWith(c, answer),
             answer = "ok" \/ (answer = "refused" /\ LoseAck)
      PROVE  Holds(d)' /\ Unanswered(d)'
  <2>1. pc[c] = "written"
    BY <1>6 DEF CommitWith
  <2>2. CASE c = d
    BY <1>0, <1>6, <2>2 DEF CommitWith, Answer, TypeOK, Holds, Unanswered
  <2>3. CASE c # d
    <3>1. pc[d] \in {"locked", "written"} =>
            /\ rows'[Key(call[d])] = rows[Key(call[d])]
            /\ holder'[Key(call[d])] = holder[Key(call[d])]
      <4>1. pc[d] \in {"locked", "written"} => Key(call[d]) # Key(call[c])
        BY <2>1, <2>3, OneHolder
      <4>2. pc[d] \in {"locked", "written"} => holder[Key(call[d])] = d
        BY <1>0 DEF Holds
      <4>3. QED
        BY <1>0, <1>6, <2>3, <4>1, <4>2 DEF CommitWith, Release, TypeOK
    <3>2. QED
      BY <1>0, <1>6, <1>a, <2>3, <3>1 DEF CommitWith, Answer, TypeOK
  <2>4. QED
    BY <2>2, <2>3
<1>7. ASSUME NEW c \in Callers, Return(c)
      PROVE  Holds(d)' /\ Unanswered(d)'
  <2>1. CASE c = d
    BY <1>0, <1>7, <2>1 DEF Return, Goto, TypeOK, Holds, Unanswered
  <2>2. CASE c # d
    BY <1>0, <1>7, <1>a, <2>2 DEF Return, Goto, TypeOK
  <2>3. QED
    BY <2>1, <2>2
<1>8. CASE UNCHANGED vars
  BY <1>0, <1>8, <1>a DEF vars
<1>9. QED
  BY <1>1, <1>2, <1>3, <1>4, <1>5, <1>6, <1>7, <1>8
  DEF Next, Advance, Commit, CommitUnheard

LEMMA StoreInvariant == Spec => []StoreInv
BY StoreInit, StoreStep, PTL DEF Spec

(* Of all the steps only a commit changes a row, and only the one it holds.*)
LEMMA OnlyCommits ==
  ASSUME StoreInv, [Next]_vars, NEW k \in Keys, rows'[k] # rows[k]
  PROVE  \E c \in Callers :
           /\ pc[c] = "written" /\ Key(call[c]) = k
           /\ rows[k] # NoRow /\ rows[k]["title"] = call[c].expected
           /\ rows'[k] = Left(rows[k], call[c])
<1>1. PICK c \in Callers : \E answer : CommitWith(c, answer)
  BY DEF Next, Advance, Ask, Reject, SelectForUpdate, NotFound, Mismatch, Write, Commit,
         CommitUnheard, Fail, Return, vars
<1>2. pc[c] = "written" /\ rows' = [rows EXCEPT ![Key(call[c])] = draft[c]]
  BY <1>1 DEF CommitWith
<1>3. Key(call[c]) = k /\ rows'[k] = draft[c]
  BY <1>2 DEF StoreInv, TypeOK
<1>4. Holds(c)
  BY DEF StoreInv
<1>5. QED
  BY <1>2, <1>3, <1>4 DEF Holds

(* However calls interleave, a row changes only under the title its caller *)
(* confirmed.                                                              *)
THEOREM Confirmed == Spec => ConfirmedByTitle
<1>1. StoreInv /\ [Next]_vars =>
        \A k \in Keys : rows'[k] # rows[k] =>
          \E c \in Callers :
            /\ pc[c] = "written" /\ Key(call[c]) = k
            /\ rows[k] # NoRow /\ rows[k]["title"] = call[c].expected
  BY OnlyCommits
<1>2. StoreInv /\ [Next]_vars => [\A k \in Keys : rows'[k] # rows[k] =>
          \E c \in Callers :
            /\ pc[c] = "written" /\ Key(call[c]) = k
            /\ rows[k] # NoRow /\ rows[k]["title"] = call[c].expected]_vars
  BY <1>1
<1>3. QED
  BY <1>2, StoreInvariant, PTL DEF Spec, ConfirmedByTitle

(* A column no patch names keeps its value.                                *)
THEOREM Omitted == Spec => OmittedKept
<1>1. ASSUME StoreInv, [Next]_vars, NEW k \in Keys, NEW col \in Columns,
             rows[k] # NoRow, rows'[k] # NoRow, rows'[k][col] # rows[k][col]
      PROVE  \E c \in Callers :
               /\ pc[c] = "written" /\ Key(call[c]) = k
               /\ call[c].op = "update" /\ col \in DOMAIN call[c].patch
  <2>1. PICK c \in Callers : /\ pc[c] = "written" /\ Key(call[c]) = k
                             /\ rows'[k] = Left(rows[k], call[c])
    BY <1>1, OnlyCommits
  <2>2. call[c] \in Requests
    BY <1>1, <2>1 DEF StoreInv, Called
  <2>3. call[c].op = "update"
    BY <1>1, <2>1, <2>2, LessonAssumption DEF Left
  <2>4. col \in DOMAIN call[c].patch
    BY <1>1, <2>1, <2>3 DEF Left
  <2>5. QED
    BY <2>1, <2>3, <2>4
<1>2. StoreInv /\ [Next]_vars =>
        [\A k \in Keys, col \in Columns :
           rows[k] # NoRow /\ rows'[k] # NoRow /\ rows'[k][col] # rows[k][col] =>
             \E c \in Callers :
               /\ pc[c] = "written" /\ Key(call[c]) = k
               /\ call[c].op = "update" /\ col \in DOMAIN call[c].patch]_vars
  BY <1>1
<1>3. QED
  BY <1>2, StoreInvariant, PTL DEF Spec, OmittedKept

(* While no acknowledgement is lost an answer says what happened.          *)
THEOREM Answered ==
  ASSUME ~LoseAck
  PROVE  Spec => []AnswersAreTrue
<1>1. StoreInv => AnswersAreTrue
  BY DEF StoreInv, Unanswered, AnswersAreTrue
<1>2. QED
  BY <1>1, StoreInvariant, PTL
-----------------------------------------------------------------------------
(* Who holds a lock is between its SELECT and its commit, on its own row.  *)
Brief ==
  \A k \in Keys, c \in Callers :
    holder[k] = c => pc[c] \in {"locked", "written"} /\ Key(call[c]) = k

LEMMA BriefStep == StoreInv /\ Brief /\ [Next]_vars => Brief'
<1>. SUFFICES ASSUME StoreInv, Brief, [Next]_vars, NEW k \in Keys, NEW d \in Callers,
                     holder'[k] = d
              PROVE  pc'[d] \in {"locked", "written"} /\ Key(call'[d]) = k
  BY DEF Brief
<1>0. /\ TypeOK /\ NoOne \notin Callers
      /\ holder[k] = d => pc[d] \in {"locked", "written"} /\ Key(call[d]) = k
  BY StoreAssumption DEF StoreInv, Brief
<1>1. ASSUME NEW c \in Callers, NEW r \in Requests, Ask(c, r)
      PROVE  pc'[d] \in {"locked", "written"} /\ Key(call'[d]) = k
  BY <1>0, <1>1 DEF Ask, Goto, TypeOK
<1>2. ASSUME NEW c \in Callers, Reject(c) \/ NotFound(c) \/ Return(c)
      PROVE  pc'[d] \in {"locked", "written"} /\ Key(call'[d]) = k
  BY <1>0, <1>2 DEF Reject, NotFound, Return, Answer, Goto, TypeOK
<1>3. ASSUME NEW c \in Callers, SelectForUpdate(c)
      PROVE  pc'[d] \in {"locked", "written"} /\ Key(call'[d]) = k
  <2>1. /\ pc[c] = "checking" /\ pc' = [pc EXCEPT ![c] = "locked"] /\ call' = call
        /\ holder' = [holder EXCEPT ![Key(call[c])] = c]
    BY <1>3 DEF SelectForUpdate, Goto
  <2>2. CASE k = Key(call[c])
    BY <1>0, <2>1, <2>2 DEF TypeOK
  <2>3. CASE k # Key(call[c])
    BY <1>0, <2>1, <2>3 DEF TypeOK
  <2>. QED
    BY <2>2, <2>3
(* Whoever ends its transaction holds nothing after it.                    *)
<1>4. ASSUME NEW c \in Callers, Release(c), pc' = [pc EXCEPT ![c] = "replying"], call' = call
      PROVE  pc'[d] \in {"locked", "written"} /\ Key(call'[d]) = k
  <2>1. holder'[k] = IF holder[k] = c THEN NoOne ELSE holder[k]
    BY <1>4 DEF Release
  <2>2. holder[k] = d /\ c # d
    BY <1>0, <2>1
  <2>. QED
    BY <1>0, <1>4, <2>2 DEF TypeOK
<1>5. ASSUME NEW c \in Callers, Mismatch(c) \/ Commit(c) \/ CommitUnheard(c) \/ Fail(c)
      PROVE  pc'[d] \in {"locked", "written"} /\ Key(call'[d]) = k
  BY <1>4, <1>5 DEF Mismatch, Commit, CommitUnheard, CommitWith, Fail, Answer
<1>6. ASSUME NEW c \in Callers, Write(c)
      PROVE  pc'[d] \in {"locked", "written"} /\ Key(call'[d]) = k
  <2>1. /\ pc[c] = "locked" /\ call' = call
        /\ \E meets \in BOOLEAN :
             /\ holder' = [holder EXCEPT ![Key(call[c])] = IF meets THEN c ELSE NoOne]
             /\ pc' = [pc EXCEPT ![c] = IF meets THEN "written" ELSE "replying"]
    BY <1>6 DEF Write
  <2>2. CASE k = Key(call[c])
    BY <1>0, <2>1, <2>2 DEF TypeOK
  <2>3. CASE k # Key(call[c])
    BY <1>0, <2>1, <2>3 DEF TypeOK
  <2>. QED
    BY <2>2, <2>3
<1>7. CASE UNCHANGED vars
  BY <1>0, <1>7 DEF vars
<1>. QED
  BY <1>1, <1>2, <1>3, <1>5, <1>6, <1>7 DEF Next, Advance

(* No caller waits for itself, and none in a circle: a lock is held by a   *)
(* call of its own row whose next statement needs no lock but that one     *)
(* (SELECT ... FOR UPDATE of src/update-lesson.py and delete-lesson.py), so*)
(* who waits to lock a row waits for a caller that waits for nobody. What  *)
(* of CallAnswered does not depend on fairness.                            *)
THEOREM NoCircularWait ==
  Spec => [](\A k \in Keys, c \in Callers :
               holder[k] = c <=> pc[c] \in {"locked", "written"} /\ Key(call[c]) = k)
<1>1. Init => Brief
  BY StoreAssumption DEF Init, Brief
<1>2. Spec => [](StoreInv /\ Brief)
  BY <1>1, StoreInit, StoreStep, BriefStep, PTL DEF Spec
<1>3. StoreInv /\ Brief => \A k \in Keys, c \in Callers :
        holder[k] = c <=> pc[c] \in {"locked", "written"} /\ Key(call[c]) = k
  BY DEF StoreInv, Holds, Brief
<1>. QED
  BY <1>2, <1>3, PTL
-----------------------------------------------------------------------------
(* Refinement. The registry's operators are those of Lessons.              *)
LEMMA SameLessons ==
  /\ Registry!NoRow = NoRow /\ Registry!NoCall = NoCall
  /\ \A r : Registry!Key(r) = Key(r)
  /\ \A r : Registry!WellFormed(r) <=> WellFormed(r)
  /\ \A row, r : Registry!Left(row, r) = Left(row, r)
  /\ \A row, r : Registry!Confirms(row, r) <=> Confirms(row, r)
BY DEF Registry!NoRow, NoRow, Registry!NoCall, NoCall, Registry!Key, Key,
       Registry!WellFormed, WellFormed, Registry!Left, Left, Registry!Confirms, Confirms

(* A step of one call changes the outcome of that call only.               *)
LEMMA OutcomeStep ==
  ASSUME NEW c \in Callers,
         \A d \in Callers : d # c => pc'[d] = pc[d] /\ reply'[d] = reply[d]
  PROVE  Outcome' = [Outcome EXCEPT ![c] =
                       IF pc'[c] = "idle" THEN "idle"
                       ELSE IF pc'[c] = "replying" THEN reply'[c] ELSE "waiting"]
<1>1. Outcome' = [d \in Callers |->
        IF d = c THEN IF pc'[c] = "idle" THEN "idle"
                      ELSE IF pc'[c] = "replying" THEN reply'[c] ELSE "waiting"
                 ELSE Outcome[d]]
  BY DEF Outcome
<1>2. QED
  BY <1>1 DEF Outcome

LEMMA OutcomeOf ==
  ASSUME NEW c \in Callers
  PROVE  /\ pc[c] = "idle" => Outcome[c] = "idle"
         /\ pc[c] \in {"checking", "locked", "written"} => Outcome[c] = "waiting"
         /\ pc[c] = "replying" => Outcome[c] = reply[c]
BY DEF Outcome

(* The interleaved transactions are atomic calls: each takes effect, if at *)
(* all, in one step of its own.                                            *)
THEOREM StoreIsRegistry == Spec => RefinesRegistry
<1>1. Init => Registry!Init
  BY SameLessons DEF Init, Registry!Init, Outcome
<1>2. StoreInv /\ [Next]_vars => [Registry!Next]_(Registry!registryVars)
  <2>. SUFFICES ASSUME StoreInv, [Next]_vars
                PROVE  [Registry!Next]_(Registry!registryVars)
    OBVIOUS
  <2>0. TypeOK /\ pc \in [Callers -> {"idle", "checking", "locked", "written", "replying"}]
    BY DEF StoreInv, TypeOK
  <2>1. ASSUME NEW c \in Callers, NEW r \in Requests, Ask(c, r)
        PROVE  Registry!Ask(c, r)
    <3>1. /\ pc[c] = "idle" /\ pc'[c] = "checking"
          /\ \A d \in Callers : d # c => pc'[d] = pc[d] /\ reply'[d] = reply[d]
          /\ call' = [call EXCEPT ![c] = r] /\ rows' = rows
      BY <2>0, <2>1 DEF Ask, Goto, TypeOK
    <3>2. Outcome' = [Outcome EXCEPT ![c] = "waiting"]
      BY <2>0, <3>1, OutcomeStep
    <3>3. QED
      BY <3>1, <3>2, OutcomeOf DEF Registry!Ask
  <2>2. ASSUME NEW c \in Callers, Reject(c) \/ NotFound(c) \/ Mismatch(c) \/ Fail(c)
        PROVE  Registry!Refuse(c)
    <3>1. /\ pc[c] \in {"checking", "locked", "written"}
          /\ pc'[c] = "replying" /\ reply'[c] = "refused"
          /\ \A d \in Callers : d # c => pc'[d] = pc[d] /\ reply'[d] = reply[d]
          /\ call' = call /\ rows' = rows
      BY <2>0, <2>2 DEF Reject, NotFound, Mismatch, Fail, Answer, TypeOK
    <3>2. MayFail \/ ~WellFormed(call[c]) \/ ~Confirms(rows[Key(call[c])], call[c])
      <4>1. CASE Mismatch(c)
        BY <4>1 DEF Mismatch, StoreInv, Holds, Confirms
      <4>2. QED
        BY <2>2, <4>1 DEF Reject, NotFound, Fail, Confirms
    <3>3. Outcome' = [Outcome EXCEPT ![c] = "refused"]
      BY <2>0, <3>1, OutcomeStep
    <3>4. QED
      BY <3>1, <3>2, <3>3, OutcomeOf, SameLessons DEF Registry!Refuse
  <2>3. ASSUME NEW c \in Callers, Commit(c) \/ CommitUnheard(c)
        PROVE  Registry!Serve(c)
    <3>0. PICK answer \in {"ok"} \union (IF LoseAck THEN {"refused"} ELSE {}) :
            CommitWith(c, answer)
      BY <2>3 DEF Commit, CommitUnheard
    <3>1. /\ pc[c] = "written"
          /\ pc'[c] = "replying" /\ reply'[c] = answer
          /\ \A d \in Callers : d # c => pc'[d] = pc[d] /\ reply'[d] = reply[d]
          /\ rows' = [rows EXCEPT ![Key(call[c])] = draft[c]] /\ call' = call
      BY <2>0, <3>0 DEF CommitWith, Answer, TypeOK
    <3>2. /\ WellFormed(call[c]) /\ Confirms(rows[Key(call[c])], call[c])
          /\ draft[c] = Left(rows[Key(call[c])], call[c])
      BY <3>1 DEF StoreInv, Called, Holds, Confirms
    <3>3. Outcome' = [Outcome EXCEPT ![c] = answer]
      BY <2>0, <3>1, OutcomeStep
    <3>4. Outcome[c] = "waiting"
      BY <3>1, OutcomeOf
    <3>5. QED
      BY <3>1, <3>2, <3>3, <3>4, SameLessons DEF Registry!Serve
  <2>4. ASSUME NEW c \in Callers, SelectForUpdate(c) \/ Write(c)
        PROVE  UNCHANGED Registry!registryVars
    <3>1. /\ pc[c] \in {"checking", "locked"}
          /\ pc'[c] \in {"locked", "written"}
          /\ \A d \in Callers : d # c => pc'[d] = pc[d] /\ reply'[d] = reply[d]
          /\ UNCHANGED <<rows, call>>
      <4>1. CASE SelectForUpdate(c)
        BY <2>0, <4>1 DEF SelectForUpdate, Goto, TypeOK
      <4>2. CASE Write(c)
        <5>1. rows[Key(call[c])] # NoRow /\ rows[Key(call[c])]["title"] = call[c].expected
          BY <4>2 DEF Write, StoreInv, Holds
        <5>2. QED
          BY <2>0, <4>2, <5>1 DEF Write, TypeOK
      <4>3. QED
        BY <2>4, <4>1, <4>2
    <3>2. Outcome' = [Outcome EXCEPT ![c] = "waiting"]
      BY <2>0, <3>1, OutcomeStep
    <3>3. Outcome[c] = "waiting" /\ Outcome = [d \in Callers |-> Outcome[d]]
      BY <3>1, OutcomeOf DEF Outcome
    <3>4. Outcome' = Outcome
      BY <3>2, <3>3
    <3>5. QED
      BY <3>1, <3>4 DEF Registry!registryVars
  <2>5. ASSUME NEW c \in Callers, Return(c)
        PROVE  Registry!Return(c)
    <3>1. /\ pc[c] = "replying" /\ pc'[c] = "idle"
          /\ \A d \in Callers : d # c => pc'[d] = pc[d] /\ reply'[d] = reply[d]
          /\ call' = call /\ rows' = rows
      BY <2>0, <2>5 DEF Return, Goto, TypeOK
    <3>2. Outcome' = [Outcome EXCEPT ![c] = "idle"]
      BY <2>0, <3>1, OutcomeStep
    <3>3. Outcome[c] \in {"ok", "refused"}
      BY <3>1, OutcomeOf DEF StoreInv, Unanswered
    <3>4. QED
      BY <3>1, <3>2, <3>3 DEF Registry!Return
  <2>6. CASE UNCHANGED vars
    BY <2>6 DEF vars, Outcome, Registry!registryVars
  <2>7. QED
    BY <2>1, <2>2, <2>3, <2>4, <2>5, <2>6 DEF Next, Advance, Registry!Next
<1>3. QED
  BY <1>1, <1>2, StoreInvariant, PTL DEF Spec, RefinesRegistry, Registry!Spec
=============================================================================
