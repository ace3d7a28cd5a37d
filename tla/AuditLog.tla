------------------------------ MODULE AuditLog ------------------------------
(***************************************************************************)
(* The audit trail of one workflow identifier: the SQLite store            *)
(* (audit/store.go), the worker interceptor that writes a row before and   *)
(* after every attempt of an activity (audit/interceptor.go), and the      *)
(* activity that writes the decision itself (RecordApproval).              *)
(*                                                                         *)
(* An execution (run) under the identifier records the decision to promote *)
(* and then promotes.  An earlier one may have left its rows: the activity *)
(* identifiers of the two are the same.  An attempt is executed by the     *)
(* worker step by step: start row, body, end row, report.  The server may  *)
(* give up an attempt that is still being executed, and the worker may     *)
(* crash at any point.                                                     *)
(***************************************************************************)
EXTENDS Naturals, Sequences, FiniteSets

CONSTANTS
  MaximumAttempts,  \* of the RetryPolicy of either activity (3 and 5 in the code)
  MaxExecs,         \* bound: attempts the worker executes at the same time
  MaxMissed         \* bound: insertions that fail

ASSUME AuditAssumption ==
  /\ MaximumAttempts \in Nat \ {0}
  /\ MaxExecs \in Nat
  /\ MaxMissed \in Nat

VARIABLES
  rows,      \* the table audit_log in the order of its id
  store,     \* whether the worker process has a default store
  worker,    \* whether the worker process runs
  step,      \* the activity the run awaits, or "closed"
  attempt,   \* the attempt of step the server waits for
  queued,    \* whether that attempt still has to be dispatched
  done,      \* done[a]: the attempt that completed activity a, 0 if none has
  execs,     \* the attempts the worker is executing
  missed     \* the keys whose insertion has failed

tableVars == <<rows, missed>>
serverVars == <<step, attempt, queued, done>>
vars == <<tableVars, store, worker, serverVars, execs>>

Runs == {"earlier", "this"}
Steps == {"RecordApproval", "Promote"}
Attempts == 1..MaximumAttempts
RowPhases == {"start", "approval", "end"}

Execution == [act : Steps, attempt : Attempts,
              at : {"start", "body", "end", "report"}, failed : BOOLEAN]

Entry == [run : Runs, act : Steps, attempt : Attempts, phase : RowPhases,
          status : {"started", "decided", "completed", "failed"}]

-----------------------------------------------------------------------------
(* The store.                                                              *)

\* Mutant: the key without the attempt, as ARCHITECTURE.md has it.
KeyWithoutAttempt(e) == <<e.run, e.act, e.phase>>

\* The columns of the index audit_idem.
Key(e) == <<e.run, e.act, e.attempt, e.phase>>

\* INSERT OR IGNORE.
Insert(table, e) ==
  IF \E i \in DOMAIN table : Key(table[i]) = Key(e) THEN table ELSE Append(table, e)

\* Mutant: opening starts an empty table.
OpenEmpty(table) == <<>>

\* CREATE TABLE IF NOT EXISTS.
Open(table) == table

\* Store.Record(e); ok is whether it returns nil.
Record(e, ok) ==
  \/ ok /\ rows' = Insert(rows, e) /\ UNCHANGED missed
  \/ ~ok /\ Cardinality(missed) < MaxMissed /\ missed' = missed \cup {Key(e)} /\ UNCHANGED rows

\* The package function: without a default store nothing is written.
RecordDefault(e, ok) ==
  IF store THEN Record(e, ok) ELSE ok /\ UNCHANGED tableVars

Row(r, a, n, phase, status) ==
  [run |-> r, act |-> a, attempt |-> n, phase |-> phase, status |-> status]

RowOf(x, phase, status) == Row("this", x.act, x.attempt, phase, status)

\* What a run without incident leaves behind.
Trail(r) == << Row(r, "RecordApproval", 1, "start", "started"),
               Row(r, "RecordApproval", 1, "approval", "decided"),
               Row(r, "RecordApproval", 1, "end", "completed"),
               Row(r, "Promote", 1, "start", "started"),
               Row(r, "Promote", 1, "end", "completed") >>

-----------------------------------------------------------------------------
TypeOK ==
  /\ rows \in Seq(Entry)
  /\ store \in BOOLEAN
  /\ worker \in BOOLEAN
  /\ step \in Steps \cup {"closed"}
  /\ attempt \in Attempts
  /\ queued \in BOOLEAN
  /\ done \in [Steps -> {0} \cup Attempts]
  /\ execs \subseteq Execution

Init ==
  /\ rows \in {<<>>, Trail("earlier")}
  /\ missed = {}
  /\ store = FALSE
  /\ worker = FALSE
  /\ step = "RecordApproval"
  /\ attempt = 1
  /\ queued = TRUE
  /\ done = [a \in Steps |-> 0]
  /\ execs = {}

(* The worker process.                                                     *)

\* Mutant: main opens the store and does not make it the default.
StartWithoutDefault ==
  /\ ~worker
  /\ worker' = TRUE
  /\ rows' = Open(rows)
  /\ UNCHANGED <<missed, store, serverVars, execs>>

\* main: the store is open and the default before the first poll.
StartWorker ==
  /\ ~worker
  /\ worker' = TRUE
  /\ rows' = Open(rows)
  /\ store' = TRUE
  /\ UNCHANGED <<missed, serverVars, execs>>

Crash ==
  /\ worker
  /\ worker' = FALSE
  /\ store' = FALSE
  /\ execs' = {}
  /\ UNCHANGED <<tableVars, serverVars>>

-----------------------------------------------------------------------------
(* An attempt: activityInbound.ExecuteActivity around the activity.        *)

Dispatch ==
  /\ worker /\ step \in Steps /\ queued
  /\ Cardinality(execs) < MaxExecs
  /\ queued' = FALSE
  /\ execs' = execs \cup {[act |-> step, attempt |-> attempt,
                           at |-> "start", failed |-> FALSE]}
  /\ UNCHANGED <<tableVars, store, worker, step, attempt, done>>

Advance(x, y) == execs' = (execs \ {x}) \cup {y}

attemptFrame == <<store, worker, serverVars>>

\* The result of the insertion is ignored, here and in RecordEnd.
RecordStart(x) ==
  /\ x.at = "start"
  /\ \E ok \in BOOLEAN : Record(RowOf(x, "start", "started"), ok)
  /\ Advance(x, [x EXCEPT !.at = "body"])
  /\ UNCHANGED attemptFrame

\* It returns the error of its insertion.
RecordApproval(x) ==
  /\ x.at = "body" /\ x.act = "RecordApproval"
  /\ \E ok \in BOOLEAN :
       /\ RecordDefault(RowOf(x, "approval", "decided"), ok)
       /\ Advance(x, [x EXCEPT !.at = "end", !.failed = ~ok])
  /\ UNCHANGED attemptFrame

\* Promote, of which the trail knows only whether it failed.
Promote(x) ==
  /\ x.at = "body" /\ x.act = "Promote"
  /\ \E f \in BOOLEAN : Advance(x, [x EXCEPT !.at = "end", !.failed = f])
  /\ UNCHANGED <<tableVars, attemptFrame>>

EndStatus(x) == IF x.failed THEN "failed" ELSE "completed"

RecordEnd(x) ==
  /\ x.at = "end"
  /\ \E ok \in BOOLEAN : Record(RowOf(x, "end", EndStatus(x)), ok)
  /\ Advance(x, [x EXCEPT !.at = "report"])
  /\ UNCHANGED attemptFrame

-----------------------------------------------------------------------------
(* The server.                                                             *)

\* recordApproval ignores its result: the promotion comes next either way.
StepOver ==
  /\ step' = IF step = "RecordApproval" THEN "Promote" ELSE "closed"
  /\ attempt' = 1
  /\ queued' = TRUE

\* Mutant: the limit counts retries.
FailAttemptOnceMore ==
  IF attempt <= MaximumAttempts
  THEN attempt' = attempt + 1 /\ queued' = TRUE /\ UNCHANGED step
  ELSE StepOver

FailAttempt ==
  IF attempt < MaximumAttempts
  THEN attempt' = attempt + 1 /\ queued' = TRUE /\ UNCHANGED step
  ELSE StepOver

\* Whether the server still waits for x.
Awaited(x) == x.act = step /\ x.attempt = attempt /\ ~queued

\* The server discards the report of an attempt it has given up.
Report(x) ==
  /\ x.at = "report"
  /\ execs' = execs \ {x}
  /\ IF ~Awaited(x)
     THEN UNCHANGED <<step, attempt, queued, done>>
     ELSE IF x.failed
          THEN FailAttempt /\ UNCHANGED done
          ELSE StepOver /\ done' = [done EXCEPT ![step] = attempt]
  /\ UNCHANGED <<tableVars, store, worker>>

\* StartToCloseTimeout.  What the worker executes goes on.
TimeOut ==
  /\ step \in Steps /\ ~queued
  /\ FailAttempt
  /\ UNCHANGED <<tableVars, store, worker, done, execs>>

Next ==
  \/ StartWorker
  \/ Crash
  \/ Dispatch
  \/ \E x \in execs : \/ RecordStart(x)
                      \/ RecordApproval(x)
                      \/ Promote(x)
                      \/ RecordEnd(x)
                      \/ Report(x)
  \/ TimeOut

Spec == Init /\ [][Next]_vars

-----------------------------------------------------------------------------
(* Properties.                                                             *)

Written(i, a, n, phase) ==
  /\ rows[i].run = "this" /\ rows[i].act = a /\ rows[i].attempt = n
  /\ rows[i].phase = phase

\* What the server took for the result of an activity is on record: the attempt
\* that completed it has its completed end row behind its start row, unless one
\* of the two insertions failed.  Attempts of one activity that overlap after a
\* timeout, crashes and a reused identifier do not hide it.
ResultOnRecord ==
  \A a \in Steps :
    LET n == done[a]
        lost(phase) == <<"this", a, n, phase>> \in missed
    IN  n # 0 =>
          \/ lost("start") \/ lost("end")
          \/ \E j \in DOMAIN rows : \E i \in 1..(j - 1) :
               /\ Written(i, a, n, "start")
               /\ Written(j, a, n, "end") /\ rows[j].status = "completed"

\* If the decision was recorded, as far as the server knows, its row is there
\* before the promotion shows in the trail in any way.
ApprovalBeforePromotion ==
  done["RecordApproval"] # 0 =>
    \E i \in DOMAIN rows :
      /\ rows[i].run = "this" /\ rows[i].phase = "approval"
      /\ \A j \in DOMAIN rows :
           rows[j].run = "this" /\ rows[j].act = "Promote" => i < j

\* Nothing that was recorded is changed or lost, not by a crash and the restart
\* that opens the database again, and rows are only added one at a time.
AppendOnly ==
  [][/\ Len(rows') \in {Len(rows), Len(rows) + 1}
     /\ \A i \in DOMAIN rows : rows'[i] = rows[i]]_vars

\* ARCHITECTURE.md has writes idempotent on (workflow, run, activity, phase), "so
\* replay after a crash does not duplicate rows": a run shows one decision once.
DecisionRecordedOnce ==
  \A i, j \in DOMAIN rows :
    /\ rows[i].phase = "approval" /\ rows[j].phase = "approval"
    /\ rows[i].run = rows[j].run
    => i = j
=============================================================================
