--------------------------- MODULE AuditLogProofs ---------------------------
(***************************************************************************)
(* Theorems about AuditLog: for any number of attempts, of overlapping     *)
(* executions and of failed insertions, the trail shows what the server    *)
(* took for the result of an activity, and the decision before what it     *)
(* allowed.                                                                *)
(***************************************************************************)
EXTENDS AuditLog, TLAPS

-----------------------------------------------------------------------------
(* The inductive invariant.                                                *)

\* Attempt n of activity a has been given to a worker.
Dispatched(a, n) ==
  \/ a = step /\ (n < attempt \/ (n = attempt /\ ~queued))
  \/ step = "Promote" /\ a = "RecordApproval"
  \/ step = "closed"

Has(a, n, phase) == \E i \in DOMAIN rows : Written(i, a, n, phase)

Lost(a, n, phase) == <<"this", a, n, phase>> \in missed

\* Attempt n of a is on record from start to end, with status st.
OnRecord(a, n, st) ==
  \/ Lost(a, n, "start") \/ Lost(a, n, "end")
  \/ \E j \in DOMAIN rows : \E i \in 1..(j - 1) :
       /\ Written(i, a, n, "start")
       /\ Written(j, a, n, "end") /\ rows[j].status = st

\* An attempt is executed once and leaves rows only when it is executed.
Dispatching ==
  /\ \A x \in execs : Dispatched(x.act, x.attempt)
  /\ \A x, y \in execs : x.act = y.act /\ x.attempt = y.attempt => x = y
  /\ \A i \in DOMAIN rows :
       rows[i].run = "this" => Dispatched(rows[i].act, rows[i].attempt)

\* What an execution has left in the trail when it stands at x.at.
Progress(x) ==
  /\ x.at # "report" => ~Has(x.act, x.attempt, "end")
  /\ x.at # "start" => \/ Has(x.act, x.attempt, "start")
                       \/ Lost(x.act, x.attempt, "start")
  /\ x.at = "report" => OnRecord(x.act, x.attempt, EndStatus(x))

\* An execution of RecordApproval that succeeds has written the decision.
Decided(x) ==
  x.act = "RecordApproval" /\ x.at \in {"end", "report"} /\ ~x.failed =>
    \E n \in Attempts : Has("RecordApproval", n, "approval")

\* The worker polls with a default store only, so RecordApproval has written what
\* it says it has.
Approval ==
  /\ worker => store
  /\ ~worker => execs = {}
  /\ \A x \in execs : Decided(x)

IInv ==
  /\ TypeOK
  /\ Dispatching
  /\ \A x \in execs : Progress(x)
  /\ Approval
  /\ ResultOnRecord
  /\ ApprovalBeforePromotion

-----------------------------------------------------------------------------
(* What an insertion does to the table.                                    *)

\* Every row stays where it is, and every loss is remembered.
Grows ==
  /\ rows' \in Seq(Entry)
  /\ DOMAIN rows \subseteq DOMAIN rows'
  /\ \A i \in DOMAIN rows : rows'[i] = rows[i]
  /\ missed \subseteq missed'

\* A row that was not there is e, behind all the others.
AddsOnly(e) ==
  \A i \in DOMAIN rows' : i \notin DOMAIN rows => i = Len(rows) + 1 /\ rows'[i] = e

\* Insert keeps the table as it is, or puts e behind it when no row has its key;
\* either way a row with the key of e is there.
LEMMA InsertEffect ==
  ASSUME NEW t \in Seq(Entry), NEW e \in Entry
  PROVE  /\ Insert(t, e) \in {t, Append(t, e)}
         /\ \E i \in DOMAIN Insert(t, e) : Key(Insert(t, e)[i]) = Key(e)
         /\ (~ \E i \in DOMAIN t : Key(t[i]) = Key(e)) => Insert(t, e) = Append(t, e)
<1>1. CASE \E i \in DOMAIN t : Key(t[i]) = Key(e)
  <2>1. Insert(t, e) = t
    BY <1>1 DEF Insert
  <2> QED
    BY <1>1, <2>1
<1>2. CASE ~ \E i \in DOMAIN t : Key(t[i]) = Key(e)
  <2>1. Insert(t, e) = Append(t, e)
    BY <1>2 DEF Insert
  <2>2. Len(t) + 1 \in DOMAIN Append(t, e) /\ Append(t, e)[Len(t) + 1] = e
    OBVIOUS
  <2> QED
    BY <2>1, <2>2
<1> QED
  BY <1>1, <1>2

\* Putting e behind the table lets it grow by e.
LEMMA AppendGrows ==
  ASSUME NEW e \in Entry, rows \in Seq(Entry), rows' \in {rows, Append(rows, e)},
         missed \subseteq missed'
  PROVE  Grows /\ AddsOnly(e)
<1>1. CASE rows' = rows
  BY <1>1 DEF Grows, AddsOnly
<1>2. CASE rows' = Append(rows, e)
  <2>1. /\ rows' \in Seq(Entry)
        /\ DOMAIN rows = 1..Len(rows) /\ Len(rows) \in Nat
        /\ DOMAIN rows' = 1..(Len(rows) + 1)
        /\ \A i \in 1..Len(rows) : rows'[i] = rows[i]
        /\ rows'[Len(rows) + 1] = e
    BY <1>2
  <2> QED
    BY <2>1 DEF Grows, AddsOnly
<1> QED
  BY <1>1, <1>2

\* Store.Record: the table grows at most by e; after it the row, or the loss of
\* it, can be told; and a row that is new is written as it was given.
LEMMA RecordEffect ==
  ASSUME rows \in Seq(Entry), NEW e \in Entry, NEW ok \in BOOLEAN, Record(e, ok)
  PROVE  /\ Grows
         /\ AddsOnly(e)
         /\ ok => \E i \in DOMAIN rows' : Key(rows'[i]) = Key(e)
         /\ ~ok => Key(e) \in missed'
         /\ ok /\ (~ \E i \in DOMAIN rows : Key(rows[i]) = Key(e)) =>
              rows' = Append(rows, e)
<1>1. CASE ok /\ rows' = Insert(rows, e) /\ missed' = missed
  BY <1>1, InsertEffect, AppendGrows
<1>2. CASE ~ok /\ missed' = missed \cup {Key(e)} /\ rows' = rows
  BY <1>2, AppendGrows
<1> QED
  BY <1>1, <1>2 DEF Record

\* A table that does not change grows, and by any row.
LEMMA SameTable ==
  ASSUME rows \in Seq(Entry), rows' = rows, missed' = missed
  PROVE  Grows /\ \A e : AddsOnly(e)
BY DEF Grows, AddsOnly

-----------------------------------------------------------------------------
(* What survives a table that grows.                                       *)

\* A row that is on record stays on record, and so does an attempt.
LEMMA OnRecordStays ==
  ASSUME Grows, rows \in Seq(Entry), NEW a, NEW n, NEW st
  PROVE  /\ \A phase : Has(a, n, phase) => Has(a, n, phase)'
         /\ \A phase : Lost(a, n, phase) => Lost(a, n, phase)'
         /\ OnRecord(a, n, st) => OnRecord(a, n, st)'
<1>1. ASSUME NEW i \in DOMAIN rows, NEW phase, Written(i, a, n, phase)
      PROVE  i \in DOMAIN rows' /\ Written(i, a, n, phase)'
  BY <1>1 DEF Grows, Written
<1>2. \A phase : Has(a, n, phase) => Has(a, n, phase)'
  BY <1>1 DEF Has
<1>3. \A phase : Lost(a, n, phase) => Lost(a, n, phase)'
  BY DEF Grows, Lost
<1>4. ASSUME NEW j \in DOMAIN rows, NEW i \in 1..(j - 1),
             Written(i, a, n, "start"), Written(j, a, n, "end"), rows[j].status = st
      PROVE  OnRecord(a, n, st)'
  <2>1. i \in DOMAIN rows
    OBVIOUS
  <2>2. rows'[j].status = st
    BY <1>4 DEF Grows
  <2> QED
    BY <1>1, <1>4, <2>1, <2>2 DEF OnRecord
<1> QED
  BY <1>2, <1>3, <1>4 DEF OnRecord

\* The approval row in front of the promotion stays there.
LEMMA ApprovalStays ==
  ASSUME Grows, rows \in Seq(Entry), NEW e, AddsOnly(e),
         ApprovalBeforePromotion, UNCHANGED done
  PROVE  ApprovalBeforePromotion'
<1>1. SUFFICES ASSUME done["RecordApproval"] # 0
               PROVE  ApprovalBeforePromotion'
  BY DEF ApprovalBeforePromotion
<1>2. PICK i \in DOMAIN rows :
        /\ rows[i].run = "this" /\ rows[i].phase = "approval"
        /\ \A j \in DOMAIN rows : rows[j].run = "this" /\ rows[j].act = "Promote" => i < j
  BY <1>1 DEF ApprovalBeforePromotion
<1>3. i \in DOMAIN rows' /\ rows'[i] = rows[i]
  BY DEF Grows
<1>4. ASSUME NEW j \in DOMAIN rows', rows'[j].run = "this", rows'[j].act = "Promote"
      PROVE  i < j
  <2>1. CASE j \in DOMAIN rows
    BY <1>2, <1>4, <2>1 DEF Grows
  <2>2. CASE j \notin DOMAIN rows
    BY <2>2 DEF AddsOnly
  <2> QED
    BY <2>1, <2>2
<1> QED
  BY <1>2, <1>3, <1>4 DEF ApprovalBeforePromotion

\* A result that is on record stays on record.
LEMMA ResultStays ==
  ASSUME Grows, rows \in Seq(Entry), ResultOnRecord, UNCHANGED done
  PROVE  ResultOnRecord'
<1>1. ResultOnRecord <=> \A a \in Steps : done[a] # 0 => OnRecord(a, done[a], "completed")
  BY DEF ResultOnRecord, OnRecord, Lost
<1>2. ResultOnRecord' <=>
        \A a \in Steps : done[a] # 0 => OnRecord(a, done[a], "completed")'
  BY DEF ResultOnRecord, OnRecord, Lost, Written
<1>3. ASSUME NEW a \in Steps, done[a] # 0
      PROVE  OnRecord(a, done[a], "completed")'
  <2>1. OnRecord(a, done[a], "completed")
    BY <1>1, <1>3
  <2>2. ASSUME NEW n, n = done[a]
        PROVE  OnRecord(a, n, "completed")'
    BY <2>1, <2>2, OnRecordStays
  <2> QED
    BY <2>2 DEF OnRecord, Lost, Written
<1> QED
  BY <1>2, <1>3

-----------------------------------------------------------------------------
(* The steps of an execution.                                              *)

\* x moves on, having written at most e, a row of its own: the invariant holds
\* behind the step but for what it says of the execution itself.
LEMMA ExecutionMoves ==
  ASSUME IInv, NEW x \in execs, NEW y \in Execution, NEW e \in Entry,
         y.act = x.act, y.attempt = x.attempt,
         e.run = "this", e.act = x.act, e.attempt = x.attempt,
         Grows, AddsOnly(e), Advance(x, y), UNCHANGED attemptFrame
  PROVE  /\ TypeOK' /\ Dispatching' /\ ResultOnRecord' /\ ApprovalBeforePromotion'
         /\ (worker => store)' /\ (~worker => execs = {})'
         /\ \A z \in execs' : z # y => Progress(z)' /\ Decided(z)'
<1> USE DEF attemptFrame, serverVars
<1>1. rows \in Seq(Entry) /\ rows' \in Seq(Entry) /\ execs \subseteq Execution
  BY DEF IInv, TypeOK, Grows
<1>2. TypeOK'
  BY <1>1 DEF IInv, TypeOK, Advance
<1>3. ResultOnRecord' /\ ApprovalBeforePromotion'
  BY <1>1, ResultStays, ApprovalStays DEF IInv
<1>4. (worker => store)' /\ (~worker => execs = {})'
  BY DEF IInv, Approval, Advance
<1>5. \A a, n : Dispatched(a, n)' <=> Dispatched(a, n)
  BY DEF Dispatched
<1>6. ASSUME NEW z \in execs', z # y
      PROVE  z \in execs /\ ~ (z.act = x.act /\ z.attempt = x.attempt)
  BY <1>6 DEF IInv, Dispatching, Advance
<1>7. Dispatching'
  <2>1. \A z \in execs' : Dispatched(z.act, z.attempt)'
    BY <1>5, <1>6 DEF IInv, Dispatching
  <2>2. \A z, w \in execs' : z.act = w.act /\ z.attempt = w.attempt => z = w
    BY <1>6 DEF IInv, Dispatching
  <2>3. ASSUME NEW i \in DOMAIN rows', rows'[i].run = "this"
        PROVE  Dispatched(rows'[i].act, rows'[i].attempt)
    <3>1. CASE i \in DOMAIN rows
      BY <2>3, <3>1 DEF IInv, Dispatching, Grows
    <3>2. CASE i \notin DOMAIN rows
      BY <3>2 DEF IInv, Dispatching, AddsOnly
    <3> QED
      BY <3>1, <3>2
  <2> QED
    BY <1>5, <2>1, <2>2, <2>3 DEF Dispatching
<1>8. ASSUME NEW z \in execs', z # y
      PROVE  Progress(z)'
  <2>1. Progress(z)
    BY <1>6, <1>8 DEF IInv
  <2>2. ASSUME Has(z.act, z.attempt, "end")' PROVE Has(z.act, z.attempt, "end")
    <3>1. PICK i \in DOMAIN rows' : Written(i, z.act, z.attempt, "end")'
      BY <2>2 DEF Has
    <3>2. i \in DOMAIN rows
      BY <1>6, <1>8, <3>1 DEF AddsOnly, Written
    <3> QED
      BY <3>1, <3>2 DEF Has, Written, Grows
  <2>3. /\ \A phase : Has(z.act, z.attempt, phase) => Has(z.act, z.attempt, phase)'
        /\ \A phase : Lost(z.act, z.attempt, phase) => Lost(z.act, z.attempt, phase)'
        /\ OnRecord(z.act, z.attempt, EndStatus(z)) =>
             OnRecord(z.act, z.attempt, EndStatus(z))'
    BY <1>1, OnRecordStays DEF EndStatus
  <2> QED
    BY <2>1, <2>2, <2>3 DEF Progress, EndStatus
<1>9. ASSUME NEW z \in execs', z # y
      PROVE  Decided(z)'
  <2>1. Decided(z)
    BY <1>6, <1>9 DEF IInv, Approval
  <2>2. \A n : Has("RecordApproval", n, "approval") => Has("RecordApproval", n, "approval")'
    BY <1>1, OnRecordStays
  <2> QED
    BY <2>1, <2>2 DEF Decided
<1> QED
  BY <1>2, <1>3, <1>4, <1>7, <1>8, <1>9

\* With what the execution itself needs, that is the invariant.
LEMMA ExecutionHolds ==
  ASSUME IInv, NEW x \in execs, NEW y \in Execution, NEW e \in Entry,
         y.act = x.act, y.attempt = x.attempt,
         e.run = "this", e.act = x.act, e.attempt = x.attempt,
         Grows, AddsOnly(e), Advance(x, y), UNCHANGED attemptFrame,
         Progress(y)', Decided(y)'
  PROVE  IInv'
<1>1. /\ TypeOK' /\ Dispatching' /\ ResultOnRecord' /\ ApprovalBeforePromotion'
      /\ (worker => store)' /\ (~worker => execs = {})'
      /\ \A z \in execs' : z # y => Progress(z)' /\ Decided(z)'
  BY ExecutionMoves
<1>2. \A z \in execs' : Progress(z)' /\ Decided(z)'
  BY <1>1
<1> QED
  BY <1>1, <1>2 DEF IInv, Approval

\* A row of an execution is a row, and its key tells whose it is.
LEMMA RowIsEntry ==
  ASSUME NEW x \in Execution, NEW phase \in RowPhases,
         NEW st \in {"started", "decided", "completed", "failed"}
  PROVE  LET e == RowOf(x, phase, st)
         IN  /\ e \in Entry
             /\ e.run = "this" /\ e.act = x.act /\ e.attempt = x.attempt
             /\ e.phase = phase /\ e.status = st
             /\ Key(e) = <<"this", x.act, x.attempt, phase>>
BY DEF RowOf, Row, Entry, Execution, Runs, Key

\* A row with the key <<"this", a, n, phase>> is the one Has asks for.
LEMMA KeyIsHas ==
  ASSUME NEW a, NEW n, NEW phase
  PROVE  Has(a, n, phase) <=> \E i \in DOMAIN rows : Key(rows[i]) = <<"this", a, n, phase>>
BY DEF Has, Written, Key

\* RecordStart leaves the start row, or its loss, and no end row.
LEMMA RecordStartHolds ==
  ASSUME IInv, NEW x \in execs, RecordStart(x)
  PROVE  IInv'
<1> DEFINE y == [x EXCEPT !.at = "body"]
           e == RowOf(x, "start", "started")
<1>1. rows \in Seq(Entry) /\ x \in Execution
  BY DEF IInv, TypeOK
<1>2. y \in Execution /\ y.act = x.act /\ y.attempt = x.attempt /\ y.at = "body"
  BY <1>1 DEF Execution
<1>3. /\ e \in Entry
      /\ e.run = "this" /\ e.act = x.act /\ e.attempt = x.attempt /\ e.phase = "start"
      /\ Key(e) = <<"this", x.act, x.attempt, "start">>
  BY <1>1, RowIsEntry DEF RowPhases
<1>4. PICK ok \in BOOLEAN : Record(e, ok)
  BY DEF RecordStart
<1>5. /\ Grows /\ AddsOnly(e)
      /\ ok => \E i \in DOMAIN rows' : Key(rows'[i]) = Key(e)
      /\ ~ok => Key(e) \in missed'
  BY <1>1, <1>3, <1>4, RecordEffect
<1>6. Has(x.act, x.attempt, "start")' \/ Lost(x.act, x.attempt, "start")'
  BY <1>3, <1>5 DEF Has, Written, Lost, Key
<1>7. ~ Has(x.act, x.attempt, "end")'
  <2>1. ~ Has(x.act, x.attempt, "end")
    BY DEF IInv, Progress, RecordStart
  <2>2. SUFFICES ASSUME NEW i \in DOMAIN rows', Written(i, x.act, x.attempt, "end")'
                 PROVE  FALSE
    BY DEF Has
  <2>3. i \in DOMAIN rows
    BY <1>3, <1>5, <2>2 DEF AddsOnly, Written
  <2> QED
    BY <1>5, <2>1, <2>2, <2>3 DEF Has, Written, Grows
<1>8. Progress(y)' /\ Decided(y)'
  BY <1>2, <1>6, <1>7 DEF Progress, Decided
<1>9. Advance(x, y) /\ UNCHANGED attemptFrame
  BY DEF RecordStart
<1> HIDE DEF y, e
<1> QED
  BY <1>2, <1>3, <1>5, <1>8, <1>9, ExecutionHolds

\* What an execution past its start row has shown of itself, it goes on showing,
\* as long as no end row of its own is added.
LEMMA PastStart ==
  ASSUME IInv, NEW x \in execs, x.at \in {"body", "end"},
         Grows, NEW e, AddsOnly(e), e.phase # "end"
  PROVE  /\ ~ Has(x.act, x.attempt, "end")'
         /\ Has(x.act, x.attempt, "start")' \/ Lost(x.act, x.attempt, "start")'
<1>1. /\ ~ Has(x.act, x.attempt, "end")
      /\ Has(x.act, x.attempt, "start") \/ Lost(x.act, x.attempt, "start")
  BY DEF IInv, Progress
<1>2. rows \in Seq(Entry)
  BY DEF IInv, TypeOK
<1>3. Has(x.act, x.attempt, "start")' \/ Lost(x.act, x.attempt, "start")'
  BY <1>1, <1>2, OnRecordStays
<1>4. ~ Has(x.act, x.attempt, "end")'
  <2>1. SUFFICES ASSUME NEW i \in DOMAIN rows', Written(i, x.act, x.attempt, "end")'
                 PROVE  FALSE
    BY DEF Has
  <2>2. i \in DOMAIN rows
    BY <2>1 DEF AddsOnly, Written
  <2> QED
    BY <1>1, <2>1, <2>2 DEF Has, Written, Grows
<1> QED
  BY <1>3, <1>4

\* RecordApproval says it has written the decision only when it has.
LEMMA RecordApprovalHolds ==
  ASSUME IInv, NEW x \in execs, RecordApproval(x)
  PROVE  IInv'
<1>1. PICK ok \in BOOLEAN :
        /\ RecordDefault(RowOf(x, "approval", "decided"), ok)
        /\ Advance(x, [x EXCEPT !.at = "end", !.failed = ~ok])
  BY DEF RecordApproval
<1> DEFINE y == [x EXCEPT !.at = "end", !.failed = ~ok]
           e == RowOf(x, "approval", "decided")
<1>2. rows \in Seq(Entry) /\ x \in Execution /\ x.act = "RecordApproval" /\ x.at = "body"
  BY DEF IInv, TypeOK, RecordApproval
<1>3. /\ y \in Execution /\ y.act = x.act /\ y.attempt = x.attempt /\ y.at = "end"
      /\ y.failed = ~ok
  BY <1>2 DEF Execution
<1>4. /\ e \in Entry
      /\ e.run = "this" /\ e.act = x.act /\ e.attempt = x.attempt /\ e.phase = "approval"
      /\ Key(e) = <<"this", x.act, x.attempt, "approval">>
  BY <1>2, RowIsEntry DEF RowPhases
<1>5. store
  BY DEF IInv, Approval, TypeOK
<1>6. Record(e, ok)
  BY <1>1, <1>5 DEF RecordDefault
<1>7. /\ Grows /\ AddsOnly(e)
      /\ ok => \E i \in DOMAIN rows' : Key(rows'[i]) = Key(e)
  BY <1>2, <1>4, <1>6, RecordEffect
<1>8. Progress(y)'
  BY <1>2, <1>3, <1>4, <1>7, PastStart DEF Progress
<1>9. Decided(y)'
  <2>1. x.attempt \in Attempts
    BY <1>2 DEF Execution
  <2>2. ok => Has("RecordApproval", x.attempt, "approval")'
    BY <1>2, <1>4, <1>7 DEF Has, Written, Key
  <2> QED
    BY <1>3, <2>1, <2>2 DEF Decided
<1>10. Advance(x, y) /\ UNCHANGED attemptFrame
  BY <1>1 DEF RecordApproval
<1> HIDE DEF y, e
<1> QED
  BY <1>2, <1>3, <1>4, <1>7, <1>8, <1>9, <1>10, ExecutionHolds

\* Promote writes nothing.
LEMMA PromoteHolds ==
  ASSUME IInv, NEW x \in execs, Promote(x)
  PROVE  IInv'
<1>1. PICK f \in BOOLEAN : Advance(x, [x EXCEPT !.at = "end", !.failed = f])
  BY DEF Promote
<1> DEFINE y == [x EXCEPT !.at = "end", !.failed = f]
           e == RowOf(x, "start", "started")
<1>2. rows \in Seq(Entry) /\ x \in Execution /\ x.act = "Promote" /\ x.at = "body"
  BY DEF IInv, TypeOK, Promote
<1>3. y \in Execution /\ y.act = x.act /\ y.attempt = x.attempt /\ y.at = "end"
  BY <1>2 DEF Execution
<1>4. /\ e \in Entry
      /\ e.run = "this" /\ e.act = x.act /\ e.attempt = x.attempt /\ e.phase = "start"
  BY <1>2, RowIsEntry DEF RowPhases
<1>5. Grows /\ AddsOnly(e)
  BY <1>2, SameTable DEF Promote, tableVars
<1>6. Progress(y)' /\ Decided(y)'
  BY <1>2, <1>3, <1>4, <1>5, PastStart DEF Progress, Decided
<1>7. Advance(x, y) /\ UNCHANGED attemptFrame
  BY <1>1 DEF Promote
<1> HIDE DEF y, e
<1> QED
  BY <1>2, <1>3, <1>4, <1>5, <1>6, <1>7, ExecutionHolds

\* The end row is new, so it carries the status of this execution, and it comes
\* behind the start row.
LEMMA RecordEndHolds ==
  ASSUME IInv, NEW x \in execs, RecordEnd(x)
  PROVE  IInv'
<1> DEFINE y == [x EXCEPT !.at = "report"]
           e == RowOf(x, "end", EndStatus(x))
<1>1. rows \in Seq(Entry) /\ x \in Execution /\ x.at = "end"
  BY DEF IInv, TypeOK, RecordEnd
<1>2. /\ y \in Execution /\ y.act = x.act /\ y.attempt = x.attempt /\ y.at = "report"
      /\ y.failed = x.failed
  BY <1>1 DEF Execution
<1>3. /\ e \in Entry
      /\ e.run = "this" /\ e.act = x.act /\ e.attempt = x.attempt
      /\ e.phase = "end" /\ e.status = EndStatus(x)
      /\ Key(e) = <<"this", x.act, x.attempt, "end">>
  BY <1>1, RowIsEntry DEF RowPhases, EndStatus
<1>4. PICK ok \in BOOLEAN : Record(e, ok)
  BY DEF RecordEnd
<1>5. /\ ~ Has(x.act, x.attempt, "end")
      /\ Has(x.act, x.attempt, "start") \/ Lost(x.act, x.attempt, "start")
  BY <1>1 DEF IInv, Progress
<1>6. ~ \E i \in DOMAIN rows : Key(rows[i]) = Key(e)
  BY <1>3, <1>5, KeyIsHas
<1>7. /\ Grows /\ AddsOnly(e)
      /\ ~ok => Key(e) \in missed'
      /\ ok => rows' = Append(rows, e)
  BY <1>1, <1>3, <1>4, <1>6, RecordEffect
<1>8. OnRecord(x.act, x.attempt, EndStatus(x))'
  <2>1. CASE Lost(x.act, x.attempt, "start") \/ ~ok
    BY <1>3, <1>7, <2>1 DEF OnRecord, Lost, Grows, EndStatus
  <2>2. CASE Has(x.act, x.attempt, "start") /\ ok
    <3>1. PICK i \in DOMAIN rows : Written(i, x.act, x.attempt, "start")
      BY <2>2 DEF Has
    <3>2. PICK j \in DOMAIN rows' : rows'[j] = e /\ i \in 1..(j - 1)
      <4>1. Len(rows) + 1 \in DOMAIN rows' /\ rows'[Len(rows) + 1] = e
        BY <1>1, <1>3, <1>7, <2>2
      <4> QED
        BY <1>1, <4>1
    <3>3. rows'[i] = rows[i]
      BY <1>7 DEF Grows
    <3>4. Written(i, x.act, x.attempt, "start")' /\ Written(j, x.act, x.attempt, "end")'
      BY <1>3, <3>1, <3>2, <3>3 DEF Written
    <3>5. rows'[j].status = EndStatus(x)
      BY <1>3, <3>2
    <3> QED
      BY <3>2, <3>4, <3>5 DEF OnRecord, EndStatus
  <2> QED
    BY <1>5, <2>1, <2>2
<1>9. Progress(y)'
  <2>1. EndStatus(y) = EndStatus(x)
    BY <1>2 DEF EndStatus
  <2>2. OnRecord(y.act, y.attempt, EndStatus(y))'
    BY <1>2, <1>8, <2>1
  <2>3. Has(x.act, x.attempt, "start")' \/ Lost(x.act, x.attempt, "start")'
    BY <1>1, <1>5, <1>7, OnRecordStays
  <2> QED
    BY <1>2, <2>2, <2>3 DEF Progress, EndStatus
<1>10. Decided(y)'
  <2>1. Decided(x)
    BY DEF IInv, Approval
  <2>2. \A n : Has("RecordApproval", n, "approval") => Has("RecordApproval", n, "approval")'
    BY <1>1, <1>7, OnRecordStays
  <2> QED
    BY <1>1, <1>2, <2>1, <2>2 DEF Decided
<1>11. Advance(x, y) /\ UNCHANGED attemptFrame
  BY DEF RecordEnd
<1> HIDE DEF y, e
<1> QED
  BY <1>1, <1>2, <1>3, <1>7, <1>9, <1>10, <1>11, ExecutionHolds

-----------------------------------------------------------------------------
(* The steps of the worker process and of the server: the table stays.     *)

\* What is said of the table alone does not change with a table that does not.
LEMMA SameReadings ==
  ASSUME UNCHANGED tableVars
  PROVE  /\ \A a, n, phase : Has(a, n, phase)' <=> Has(a, n, phase)
         /\ \A a, n, st : OnRecord(a, n, st)' <=> OnRecord(a, n, st)
         /\ \A x : Progress(x)' <=> Progress(x)
         /\ \A x : Decided(x)' <=> Decided(x)
         /\ UNCHANGED done => (ResultOnRecord' <=> ResultOnRecord)
         /\ UNCHANGED done => (ApprovalBeforePromotion' <=> ApprovalBeforePromotion)
<1> USE DEF tableVars
<1>1. \A a, n, phase : Has(a, n, phase)' <=> Has(a, n, phase)
  BY DEF Has, Written
<1>2. \A a, n, phase : Lost(a, n, phase)' <=> Lost(a, n, phase)
  BY DEF Lost
<1>3. \A a, n, st : OnRecord(a, n, st)' <=> OnRecord(a, n, st)
  BY DEF OnRecord, Lost, Written
<1>4. \A x : Progress(x)' <=> Progress(x)
  BY <1>1, <1>2, <1>3 DEF Progress, EndStatus
<1>5. \A x : Decided(x)' <=> Decided(x)
  BY <1>1 DEF Decided
<1>6. UNCHANGED done => (ResultOnRecord' <=> ResultOnRecord)
  BY DEF ResultOnRecord, Written
<1>7. UNCHANGED done => (ApprovalBeforePromotion' <=> ApprovalBeforePromotion)
  BY DEF ApprovalBeforePromotion
<1> QED
  BY <1>1, <1>3, <1>4, <1>5, <1>6, <1>7

\* A worker that starts or stops leaves the server and the table alone.
LEMMA ProcessHolds ==
  ASSUME IInv, StartWorker \/ Crash
  PROVE  IInv'
<1>1. /\ UNCHANGED tableVars /\ UNCHANGED serverVars
      /\ execs' \in {execs, {}}
      /\ (worker => store)' /\ (~worker => execs = {})'
      /\ worker' \in BOOLEAN /\ store' \in BOOLEAN
  BY DEF StartWorker, Crash, Open, tableVars, serverVars, IInv, Approval
<1>2. TypeOK'
  BY <1>1 DEF IInv, TypeOK, tableVars, serverVars
<1>3. Dispatching'
  BY <1>1 DEF IInv, Dispatching, Dispatched, tableVars, serverVars
<1>4. \A x \in execs' : Progress(x)' /\ Decided(x)'
  BY <1>1, SameReadings DEF IInv, Approval
<1>5. ResultOnRecord' /\ ApprovalBeforePromotion'
  BY <1>1, SameReadings DEF IInv, serverVars
<1> QED
  BY <1>1, <1>2, <1>3, <1>4, <1>5 DEF IInv, Approval

\* The attempt that is dispatched was not before: no execution has it and no row.
LEMMA DispatchHolds ==
  ASSUME IInv, Dispatch
  PROVE  IInv'
<1> DEFINE y == [act |-> step, attempt |-> attempt, at |-> "start", failed |-> FALSE]
<1>1. /\ UNCHANGED tableVars /\ UNCHANGED <<store, worker, step, attempt, done>>
      /\ worker /\ step \in Steps /\ queued /\ ~queued'
      /\ queued' \in BOOLEAN
      /\ execs' = execs \cup {y}
  BY DEF Dispatch
<1>2. y \in Execution /\ y.act = step /\ y.attempt = attempt /\ y.at = "start"
  BY <1>1 DEF IInv, TypeOK, Execution
<1> HIDE DEF y
<1>3. TypeOK'
  BY <1>1, <1>2 DEF IInv, TypeOK, tableVars
<1>4. attempt \in Nat /\ ~ Dispatched(step, attempt)
  BY <1>1, AuditAssumption DEF IInv, TypeOK, Attempts, Steps, Dispatched
<1>5. /\ \A x \in execs : ~ (x.act = step /\ x.attempt = attempt)
      /\ ~ Has(step, attempt, "end")
  BY <1>4 DEF IInv, Dispatching, Has, Written
<1>6. Dispatching'
  <2>1. \A a, n : Dispatched(a, n) => Dispatched(a, n)'
    BY <1>1 DEF Dispatched
  <2>2. ASSUME NEW a, NEW n, a = step, n = attempt
        PROVE  Dispatched(a, n)'
    BY <1>1, <2>2 DEF Dispatched
  <2>3. \A x \in execs' : Dispatched(x.act, x.attempt)'
    BY <1>1, <1>2, <2>1, <2>2 DEF IInv, Dispatching
  <2>4. \A x, z \in execs' : x.act = z.act /\ x.attempt = z.attempt => x = z
    BY <1>1, <1>2, <1>5 DEF IInv, Dispatching
  <2>5. \A i \in DOMAIN rows :
          rows[i].run = "this" => Dispatched(rows[i].act, rows[i].attempt)'
    BY <1>1, <2>1 DEF IInv, Dispatching, tableVars
  <2> QED
    BY <1>1, <2>3, <2>4, <2>5 DEF Dispatching, tableVars
<1>7. Progress(y) /\ Decided(y)
  BY <1>2, <1>5 DEF Progress, Decided
<1>8. \A x \in execs' : Progress(x)' /\ Decided(x)'
  BY <1>1, <1>7, SameReadings DEF IInv, Approval
<1>9. ResultOnRecord' /\ ApprovalBeforePromotion'
  BY <1>1, SameReadings DEF IInv
<1>10. (worker => store)' /\ (~worker => execs = {})'
  BY <1>1 DEF IInv, Approval
<1> QED
  BY <1>3, <1>6, <1>8, <1>9, <1>10 DEF IInv, Approval

\* What was dispatched has been, whatever the server waits for next.
LEMMA DispatchedStays ==
  ASSUME TypeOK, step \in Steps, FailAttempt \/ StepOver,
         NEW a \in Steps, NEW n \in Attempts, Dispatched(a, n)
  PROVE  Dispatched(a, n)'
<1>1. attempt \in Nat /\ n \in Nat
  BY AuditAssumption DEF TypeOK, Attempts
<1>2. CASE StepOver
  BY <1>2 DEF StepOver, Dispatched, Steps
<1>3. CASE attempt' = attempt + 1 /\ queued' = TRUE /\ UNCHANGED step
  BY <1>1, <1>3 DEF Dispatched
<1> QED
  BY <1>2, <1>3 DEF FailAttempt

\* The server gives the attempt up or takes it for done, and may forget an
\* execution.  What it holds for the result is left to be shown.
LEMMA ServerMoves ==
  ASSUME IInv, UNCHANGED tableVars, UNCHANGED <<store, worker>>, step \in Steps,
         FailAttempt \/ StepOver, execs' \subseteq execs,
         done' \in [Steps -> {0} \cup Attempts],
         ResultOnRecord', ApprovalBeforePromotion'
  PROVE  IInv'
<1>1. TypeOK'
  <2>1. attempt' \in Attempts /\ queued' \in BOOLEAN /\ step' \in Steps \cup {"closed"}
    <3>1. CASE StepOver
      BY <3>1, AuditAssumption DEF StepOver, Attempts, Steps
    <3>2. CASE attempt < MaximumAttempts /\ attempt' = attempt + 1 /\ queued' = TRUE
               /\ UNCHANGED step
      BY <3>2, AuditAssumption DEF IInv, TypeOK, Attempts
    <3> QED
      BY <3>1, <3>2 DEF FailAttempt
  <2> QED
    BY <2>1 DEF IInv, TypeOK, tableVars
<1>2. Dispatching'
  <2>1. \A x \in execs : x.act \in Steps /\ x.attempt \in Attempts
    BY DEF IInv, TypeOK, Execution
  <2>2. \A i \in DOMAIN rows : rows[i].act \in Steps /\ rows[i].attempt \in Attempts
    <3>1. \A i \in DOMAIN rows : rows[i] \in Entry
      BY DEF IInv, TypeOK
    <3> QED
      BY <3>1 DEF Entry
  <2>3. \A a \in Steps, n \in Attempts : Dispatched(a, n) => Dispatched(a, n)'
    BY DispatchedStays DEF IInv
  <2>4. \A x \in execs' : Dispatched(x.act, x.attempt)'
    BY <2>1, <2>3 DEF IInv, Dispatching
  <2>5. \A i \in DOMAIN rows :
          rows[i].run = "this" => Dispatched(rows[i].act, rows[i].attempt)'
    BY <2>2, <2>3 DEF IInv, Dispatching, tableVars
  <2>6. \A x, z \in execs' : x.act = z.act /\ x.attempt = z.attempt => x = z
    BY DEF IInv, Dispatching
  <2> QED
    BY <2>4, <2>5, <2>6 DEF Dispatching, tableVars
<1>3. \A x \in execs' : Progress(x)' /\ Decided(x)'
  BY SameReadings DEF IInv, Approval
<1>4. (worker => store)' /\ (~worker => execs = {})'
  BY DEF IInv, Approval
<1> QED
  BY <1>1, <1>2, <1>3, <1>4 DEF IInv, Approval

\* An attempt times out: nothing is taken for a result.
LEMMA TimeOutHolds ==
  ASSUME IInv, TimeOut
  PROVE  IInv'
<1>1. /\ UNCHANGED tableVars /\ UNCHANGED <<store, worker, done, execs>>
      /\ step \in Steps /\ FailAttempt
  BY DEF TimeOut
<1>2. ResultOnRecord' /\ ApprovalBeforePromotion'
  BY <1>1, SameReadings DEF IInv
<1>3. done' \in [Steps -> {0} \cup Attempts]
  BY <1>1 DEF IInv, TypeOK
<1> QED
  BY <1>1, <1>2, <1>3, ServerMoves

\* The result that is reported is on record, and when it is the decision's, no
\* row of the promotion is there yet.
LEMMA ReportHolds ==
  ASSUME IInv, NEW x \in execs, Report(x)
  PROVE  IInv'
<1>1. /\ UNCHANGED tableVars /\ UNCHANGED <<store, worker>>
      /\ execs' = execs \ {x} /\ x.at = "report"
      /\ x \in Execution
  BY DEF Report, IInv, TypeOK
<1>2. CASE UNCHANGED <<step, attempt, queued, done>>
  <2>1. TypeOK'
    BY <1>1, <1>2 DEF IInv, TypeOK, tableVars
  <2>2. Dispatching'
    BY <1>1, <1>2 DEF IInv, Dispatching, Dispatched, tableVars
  <2>3. \A z \in execs' : Progress(z)' /\ Decided(z)'
    BY <1>1, SameReadings DEF IInv, Approval
  <2>4. ResultOnRecord' /\ ApprovalBeforePromotion'
    BY <1>1, <1>2, SameReadings DEF IInv
  <2>5. (worker => store)' /\ (~worker => execs = {})'
    BY <1>1 DEF IInv, Approval
  <2> QED
    BY <2>1, <2>2, <2>3, <2>4, <2>5 DEF IInv, Approval
<1>3. CASE Awaited(x) /\ x.failed /\ FailAttempt /\ UNCHANGED done
  <2>1. step \in Steps
    BY <1>1, <1>3 DEF Awaited, Execution
  <2>2. ResultOnRecord' /\ ApprovalBeforePromotion'
    BY <1>1, <1>3, SameReadings DEF IInv
  <2>3. done' \in [Steps -> {0} \cup Attempts]
    BY <1>3 DEF IInv, TypeOK
  <2> QED
    BY <1>1, <1>3, <2>1, <2>2, <2>3, ServerMoves
<1>4. CASE Awaited(x) /\ ~x.failed /\ StepOver /\ done' = [done EXCEPT ![step] = attempt]
  <2>1. step \in Steps /\ x.act = step /\ x.attempt = attempt /\ attempt \in Attempts
    BY <1>1, <1>4 DEF Awaited, Execution
  <2>2. done \in [Steps -> {0} \cup Attempts] /\ done' \in [Steps -> {0} \cup Attempts]
    BY <1>4, <2>1 DEF IInv, TypeOK
  <2>3. ResultOnRecord'
    <3>1. OnRecord(step, attempt, "completed")
      BY <1>1, <1>4, <2>1 DEF IInv, Progress, EndStatus
    <3>2. \A a \in Steps : done[a] # 0 => OnRecord(a, done[a], "completed")
      BY DEF IInv, ResultOnRecord, OnRecord, Lost
    <3>3. \A a \in Steps : done'[a] = IF a = step THEN attempt ELSE done[a]
      BY <1>4, <2>1, <2>2
    <3>4. ASSUME NEW a \in Steps, NEW n, n = done'[a], n # 0
          PROVE  OnRecord(a, n, "completed")'
      BY <1>1, <3>1, <3>2, <3>3, <3>4, SameReadings
    <3> QED
      BY <3>4 DEF ResultOnRecord, OnRecord, Lost, Written
  <2>4. ApprovalBeforePromotion'
    <3>1. CASE step = "Promote"
      <4>1. done'["RecordApproval"] = done["RecordApproval"]
        BY <1>4, <2>2, <3>1 DEF Steps
      <4> QED
        BY <1>1, <4>1 DEF IInv, ApprovalBeforePromotion, tableVars
    <3>2. CASE step = "RecordApproval"
      <4>1. PICK n \in Attempts : Has("RecordApproval", n, "approval")
        BY <1>1, <1>4, <2>1, <3>2 DEF IInv, Approval, Decided
      <4>2. \A j \in DOMAIN rows : rows[j].run = "this" => rows[j].act # "Promote"
        BY <3>2 DEF IInv, Dispatching, Dispatched
      <4> QED
        BY <1>1, <4>1, <4>2 DEF ApprovalBeforePromotion, Has, Written, tableVars
    <3> QED
      BY <2>1, <3>1, <3>2 DEF Steps
  <2> QED
    BY <1>1, <1>4, <2>1, <2>2, <2>3, <2>4, ServerMoves
<1> QED
  BY <1>2, <1>3, <1>4 DEF Report

-----------------------------------------------------------------------------
(* The theorems.                                                           *)

\* The trail of an earlier run is a table of rows, and none of them is of this run.
LEMMA InitHolds == Init => IInv
<1> SUFFICES ASSUME Init
             PROVE  IInv
  OBVIOUS
<1>1. \A r \in Runs : \A a \in Steps : \A phase \in RowPhases :
        \A st \in {"started", "decided", "completed", "failed"} :
          Row(r, a, 1, phase, st) \in Entry /\ Row(r, a, 1, phase, st).run = r
  BY AuditAssumption DEF Row, Entry, Attempts
<1>2. rows \in Seq(Entry) /\ \A i \in DOMAIN rows : rows[i].run # "this"
  <2>1. CASE rows = <<>>
    BY <2>1
  <2>2. CASE rows = Trail("earlier")
    <3>1. /\ Row("earlier", "RecordApproval", 1, "start", "started") \in Entry
          /\ Row("earlier", "RecordApproval", 1, "approval", "decided") \in Entry
          /\ Row("earlier", "RecordApproval", 1, "end", "completed") \in Entry
          /\ Row("earlier", "Promote", 1, "start", "started") \in Entry
          /\ Row("earlier", "Promote", 1, "end", "completed") \in Entry
      BY <1>1 DEF Runs, Steps, RowPhases
    <3>2. rows \in Seq(Entry)
      BY <2>2, <3>1 DEF Trail
    <3>3. \A i \in DOMAIN rows : rows[i].run = "earlier"
      BY <2>2 DEF Trail, Row
    <3> QED
      BY <3>2, <3>3
  <2> QED
    BY <2>1, <2>2 DEF Init
<1>3. TypeOK
  <2>1. 1 \in Attempts
    BY AuditAssumption DEF Attempts
  <2>2. done \in [Steps -> {0} \cup Attempts] /\ done["RecordApproval"] = 0
    BY DEF Init, Steps
  <2> QED
    BY <1>2, <2>1, <2>2 DEF Init, TypeOK, Steps
<1>4. Dispatching
  BY <1>2 DEF Init, Dispatching
<1>5. ResultOnRecord /\ ApprovalBeforePromotion
  BY DEF Init, ResultOnRecord, ApprovalBeforePromotion, Steps
<1> QED
  BY <1>3, <1>4, <1>5 DEF Init, IInv, Approval

\* Every step preserves the invariant.
LEMMA StepHolds == IInv /\ [Next]_vars => IInv'
<1> SUFFICES ASSUME IInv, [Next]_vars
             PROVE  IInv'
  OBVIOUS
<1>1. CASE UNCHANGED vars
  <2>1. UNCHANGED tableVars /\ UNCHANGED serverVars /\ UNCHANGED <<store, worker, execs>>
    BY <1>1 DEF vars
  <2>2. TypeOK' /\ Dispatching'
    BY <2>1 DEF IInv, TypeOK, Dispatching, Dispatched, tableVars, serverVars
  <2>3. /\ \A x \in execs' : Progress(x)' /\ Decided(x)'
        /\ ResultOnRecord' /\ ApprovalBeforePromotion'
    BY <2>1, SameReadings DEF IInv, Approval, serverVars
  <2> QED
    BY <2>1, <2>2, <2>3 DEF IInv, Approval
<1> QED
  BY <1>1, ProcessHolds, DispatchHolds, RecordStartHolds, RecordApprovalHolds,
     PromoteHolds, RecordEndHolds, ReportHolds, TimeOutHolds DEF Next

\* The variables stay within their types: the server's attempt, for one, within
\* the retry policy.
THEOREM TypeCorrect == Spec => []TypeOK
<1>1. IInv => TypeOK
  BY DEF IInv
<1> QED
  BY <1>1, InitHolds, StepHolds, PTL DEF Spec

\* What the server took for the result of an activity is on record, unless one of
\* its two insertions failed (interceptor.go).
THEOREM ResultsAreOnRecord == Spec => []ResultOnRecord
<1>1. IInv => ResultOnRecord
  BY DEF IInv
<1> QED
  BY <1>1, InitHolds, StepHolds, PTL DEF Spec

\* A decision the server knows to be recorded is in the trail, in front of all that
\* the promotion left there (audit_activity.go).
THEOREM DecisionsComeFirst == Spec => []ApprovalBeforePromotion
<1>1. IInv => ApprovalBeforePromotion
  BY DEF IInv
<1> QED
  BY <1>1, InitHolds, StepHolds, PTL DEF Spec

\* The trail only grows, a row at a time, whoever writes, crashes and opens it
\* again (store.go).
THEOREM TrailOnlyGrows == Spec => AppendOnly
<1> DEFINE Adds == /\ Len(rows') \in {Len(rows), Len(rows) + 1}
                   /\ \A i \in DOMAIN rows : rows'[i] = rows[i]
<1>1. ASSUME IInv, Next
      PROVE  Adds
  <2>1. rows \in Seq(Entry)
    BY <1>1 DEF IInv, TypeOK
  <2>2. CASE rows' = rows
    BY <2>1, <2>2
  <2>3. CASE \E e \in Entry : rows' = Append(rows, e)
    BY <2>1, <2>3
  <2>4. ASSUME NEW e \in Entry, NEW ok \in BOOLEAN, Record(e, ok)
        PROVE  rows' \in {rows, Append(rows, e)}
    BY <2>1, <2>4, InsertEffect DEF Record
  <2>5. ASSUME NEW x \in execs, RecordStart(x) \/ RecordEnd(x) \/ RecordApproval(x)
        PROVE  rows' = rows \/ \E e \in Entry : rows' = Append(rows, e)
    <3>1. x \in Execution
      BY <1>1 DEF IInv, TypeOK
    <3>2. /\ RowOf(x, "start", "started") \in Entry
          /\ RowOf(x, "approval", "decided") \in Entry
          /\ RowOf(x, "end", EndStatus(x)) \in Entry
      BY <3>1, RowIsEntry DEF RowPhases, EndStatus
    <3>3. CASE RecordStart(x)
      BY <2>4, <3>2, <3>3 DEF RecordStart
    <3>4. CASE RecordEnd(x)
      BY <2>4, <3>2, <3>4 DEF RecordEnd
    <3>5. CASE RecordApproval(x)
      <4>1. PICK ok \in BOOLEAN : RecordDefault(RowOf(x, "approval", "decided"), ok)
        BY <3>5 DEF RecordApproval
      <4> QED
        BY <2>4, <3>2, <4>1 DEF RecordDefault, tableVars
    <3> QED
      BY <2>5, <3>3, <3>4, <3>5
  <2>6. rows' = rows \/ \E e \in Entry : rows' = Append(rows, e)
    BY <1>1, <2>5 DEF Next, StartWorker, Open, Crash, Dispatch, Promote, Report, TimeOut,
                      tableVars
  <2> QED
    BY <2>2, <2>3, <2>6
<1>2. IInv /\ [Next]_vars => [Adds]_vars
  BY <1>1
<1>3. Spec => [][Adds]_vars
  BY <1>2, InitHolds, StepHolds, PTL DEF Spec
<1> QED
  BY <1>3 DEF AppendOnly
=============================================================================
