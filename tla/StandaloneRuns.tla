--------------------------- MODULE StandaloneRuns ---------------------------
(***************************************************************************)
(* The runs of one standalone runbook: rows that the administrator's       *)
(* trigger and the cron dispatcher insert, messages that ask a worker to   *)
(* execute them, the executions, and the administrator's cancel.           *)
(*                                                                         *)
(* task_acks_late keeps a message in the broker until its execution        *)
(* returns, so the run of a worker that dies is executed again from its    *)
(* first step, whatever its status.                                        *)
(***************************************************************************)
EXTENDS Integers, Sequences, FiniteSets

CONSTANTS
  Workers,        \* processes of the provision queue
  Ticks,          \* executions of check_cron_schedules that may overlap
  MaxRun,         \* bound: rows of standalone_runbook_runs
  MaxTroubles,    \* bound: cancels, crashes, failed dispatches, lost databases
  Steps,          \* [critical, always, script : BOOLEAN]
  SkipIfRunning   \* standalone_runbooks.skip_if_running

ASSUME RunsAssumption ==
  /\ MaxRun \in Nat
  /\ MaxTroubles \in Nat
  /\ Steps \in Seq([critical: BOOLEAN, always: BOOLEAN, script: BOOLEAN])
  /\ SkipIfRunning \in BOOLEAN

Runs == 1..MaxRun
Positions == DOMAIN Steps
Terminal == {"success", "failed", "cancelled"}
Active == {"pending", "running"}

VARIABLES
  lastRun,    \* the greatest id of standalone_runbook_runs
  status,     \* of each run
  scheduled,  \* runs whose trigger is 'scheduled'
  rows,       \* of each run, its standalone_runbook_run_steps in id order
  hasTask,    \* runs whose celery_task_id is saved
  queue,      \* number of messages that ask to execute each run
  revoked,    \* tasks the administrator revoked
  worker,     \* the execution a worker is in
  tick,       \* an execution of check_cron_schedules
  trigger,    \* the administrator's trigger request
  cancel,     \* the administrator's cancel request
  troubles,   \* number of them so far
  history     \* what the properties ask about the past

(* history.sent counts the messages sent for a run; reopened are the runs   *)
(* an execution began after their end; raced the scheduled runs inserted    *)
(* while another tick had made its checks already; lost the runs an         *)
(* execution of which could not tell the database how it ended.             *)

runVars == <<lastRun, scheduled, hasTask>>
adminVars == <<trigger, cancel>>
vars == <<runVars, adminVars, tick, status, rows, queue, revoked, worker,
          troubles, history>>

IdleWorker == [phase |-> "idle", run |-> 0, at |-> 0, row |-> 0,
               failed |-> FALSE, stopped |-> FALSE]
IdleTrigger == [phase |-> "idle", run |-> 0]
IdleCancel == [phase |-> "idle", run |-> 0, task |-> FALSE]

TypeOK ==
  /\ lastRun \in 0..MaxRun
  /\ status \in [Runs -> Active \cup Terminal \cup {"none"}]
  /\ \A r \in Runs : (status[r] = "none") <=> (r > lastRun)
  /\ scheduled \subseteq 1..lastRun
  /\ rows \in [Runs -> Seq([at: Positions,
               status: {"running", "success", "failed", "skipped", "cancelled"}])]
  /\ hasTask \subseteq 1..lastRun
  /\ queue \in [Runs -> Nat]
  /\ revoked \subseteq hasTask
  /\ worker \in [Workers ->
       [phase: {"idle", "loop", "inserted", "script", "verdict", "done"},
        run: 0..lastRun, at: 0..Len(Steps) + 1, row: Nat,
        failed: BOOLEAN, stopped: BOOLEAN]]
  /\ \A w \in Workers : worker[w].phase = "script" =>
       /\ worker[w].row \in DOMAIN rows[worker[w].run]
       /\ rows[worker[w].run][worker[w].row].at = worker[w].at
  /\ tick \in [Ticks -> {"idle", "checked", "inserted"}]
  /\ trigger \in [phase: {"idle", "inserted", "sent"}, run: 0..lastRun]
  /\ cancel \in [phase: {"idle", "read", "marked"}, run: 0..lastRun, task: BOOLEAN]
  /\ troubles \in 0..MaxTroubles
  /\ history \in [sent: [Runs -> Nat], reopened: SUBSET Runs,
                  raced: SUBSET Runs, lost: SUBSET Runs]

Init ==
  /\ lastRun = 0
  /\ status = [r \in Runs |-> "none"]
  /\ scheduled = {}
  /\ rows = [r \in Runs |-> <<>>]
  /\ hasTask = {}
  /\ queue = [r \in Runs |-> 0]
  /\ revoked = {}
  /\ worker = [w \in Workers |-> IdleWorker]
  /\ tick = [t \in Ticks |-> "idle"]
  /\ trigger = IdleTrigger
  /\ cancel = IdleCancel
  /\ troubles = 0
  /\ history = [sent |-> [r \in Runs |-> 0], reopened |-> {}, raced |-> {}, lost |-> {}]

Trouble == troubles < MaxTroubles /\ troubles' = troubles + 1

-----------------------------------------------------------------------------
(* Rows and messages.                                                       *)

InsertRun ==
  /\ lastRun < MaxRun
  /\ lastRun' = lastRun + 1
  /\ status' = [status EXCEPT ![lastRun + 1] = "pending"]

Send(r) ==
  /\ queue' = [queue EXCEPT ![r] = @ + 1]
  /\ history' = [history EXCEPT !.sent[r] = @ + 1]

-----------------------------------------------------------------------------
(* POST /{runbook}/trigger: insert and commit, send, save the task's id.    *)

TriggerInsert ==
  /\ trigger.phase = "idle"
  /\ InsertRun
  /\ trigger' = [phase |-> "inserted", run |-> lastRun + 1]
  /\ UNCHANGED <<scheduled, hasTask, cancel, tick, rows, queue,
                 revoked, worker, troubles, history>>

TriggerSend ==
  /\ trigger.phase = "inserted"
  /\ Send(trigger.run)
  /\ trigger' = [trigger EXCEPT !.phase = "sent"]
  /\ UNCHANGED <<runVars, cancel, tick, status, rows, revoked,
                 worker, troubles>>

TriggerSendFails ==
  /\ trigger.phase = "inserted"
  /\ Trouble
  /\ status' = [status EXCEPT ![trigger.run] = "failed"]
  /\ trigger' = IdleTrigger
  /\ UNCHANGED <<runVars, cancel, tick, rows, queue, revoked,
                 worker, history>>

TriggerSaveTask ==
  /\ trigger.phase = "sent"
  /\ hasTask' = hasTask \cup {trigger.run}
  /\ trigger' = IdleTrigger
  /\ UNCHANGED <<lastRun, scheduled, cancel, tick, status, rows,
                 queue, revoked, worker, troubles, history>>

-----------------------------------------------------------------------------
(* POST /{runbook}/runs/{run}/cancel: the status and the task are those of  *)
(* the row as read; the two updates have one commit; then revoke.           *)

CancelRead(r) ==
  /\ cancel.phase = "idle"
  /\ status[r] \in Active
  /\ Trouble
  /\ cancel' = [phase |-> "read", run |-> r, task |-> r \in hasTask]
  /\ UNCHANGED <<runVars, trigger, tick, status, rows, queue,
                 revoked, worker, history>>

CancelCommit ==
  /\ cancel.phase = "read"
  /\ status' = [status EXCEPT ![cancel.run] = "cancelled"]
  /\ rows' = [rows EXCEPT ![cancel.run] =
                [i \in DOMAIN @ |-> IF @[i].status = "running"
                                    THEN [@[i] EXCEPT !.status = "cancelled"]
                                    ELSE @[i]]]
  /\ cancel' = IF cancel.task THEN [cancel EXCEPT !.phase = "marked"] ELSE IdleCancel
  /\ UNCHANGED <<runVars, trigger, tick, queue, revoked, worker,
                 troubles, history>>

CancelRevoke ==
  /\ cancel.phase = "marked"
  /\ revoked' = revoked \cup {cancel.run}
  /\ cancel' = IdleCancel
  /\ UNCHANGED <<runVars, trigger, tick, status, rows, queue,
                 worker, troubles, history>>

-----------------------------------------------------------------------------
(* check_cron_schedules, for a minute in which the expression fires and no  *)
(* scheduled run was created yet: minutes pass at any time.                 *)

(* Mutant of CronCheck: only the running ones count.                        *)
CronCheckRunning(t) ==
  /\ tick[t] = "idle"
  /\ SkipIfRunning => \A r \in Runs : status[r] # "running"
  /\ tick' = [tick EXCEPT ![t] = "checked"]
  /\ UNCHANGED <<runVars, adminVars, status, rows, queue, revoked, worker,
                 troubles, history>>

CronCheck(t) ==
  /\ tick[t] = "idle"
  /\ SkipIfRunning => \A r \in Runs : status[r] \notin Active
  /\ tick' = [tick EXCEPT ![t] = "checked"]
  /\ UNCHANGED <<runVars, adminVars, status, rows, queue, revoked,
                 worker, troubles, history>>

CronInsert(t) ==
  /\ tick[t] = "checked"
  /\ InsertRun
  /\ scheduled' = scheduled \cup {lastRun + 1}
  /\ tick' = [tick EXCEPT ![t] = "inserted"]
  /\ history' = [history EXCEPT !.raced = @ \cup
       {r \in {lastRun + 1} : \E u \in Ticks \ {t} : tick[u] = "checked"}]
  /\ UNCHANGED <<hasTask, adminVars, rows, queue, revoked, worker, troubles>>

(* The run that is sent is the runbook's newest, whoever inserted it.       *)
CronDispatch(t) ==
  /\ tick[t] = "inserted"
  /\ Send(lastRun)
  /\ tick' = [tick EXCEPT ![t] = "idle"]
  /\ UNCHANGED <<runVars, adminVars, status, rows, revoked, worker, troubles>>

(* The dispatcher dies, or the broker refuses: what it inserted stays.      *)
CronFails(t) ==
  /\ tick[t] # "idle"
  /\ Trouble
  /\ tick' = [tick EXCEPT ![t] = "idle"]
  /\ UNCHANGED <<runVars, adminVars, status, rows, queue, revoked, worker, history>>

-----------------------------------------------------------------------------
(* The task run.                                                            *)

workerOnly == <<runVars, adminVars, tick, revoked>>

Take(r) == queue[r] > 0 /\ queue' = [queue EXCEPT ![r] = @ - 1]

At(w, phase) == worker[w].phase = phase

(* The loop over the steps, or after its end.                               *)
PhaseAt(p) == IF p > Len(Steps) THEN "verdict" ELSE "loop"

(* A revoked task is dropped when a worker receives it.                     *)
Discard(w, r) ==
  /\ At(w, "idle")
  /\ r \in revoked
  /\ Take(r)
  /\ UNCHANGED <<workerOnly, status, rows, worker, troubles, history>>

(* The unconditional 'running', whatever the status was.                    *)
Begin(w, r) ==
  /\ At(w, "idle")
  /\ r \notin revoked
  /\ Take(r)
  /\ status' = [status EXCEPT ![r] = "running"]
  /\ worker' = [worker EXCEPT ![w] = [IdleWorker EXCEPT
                  !.phase = PhaseAt(1), !.run = r, !.at = 1]]
  /\ history' = [history EXCEPT !.reopened = @ \cup
                  {x \in {r} : status[x] \in Terminal}]
  /\ UNCHANGED <<workerOnly, rows, troubles>>

(* Mutant of Conclude: the update without its condition.                    *)
ConcludeAnyway(r, s) == status' = [status EXCEPT ![r] = s]

(* The update of the exception handler, and that of the verdict.            *)
Conclude(r, s) ==
  status' = [status EXCEPT ![r] = IF @ \in Terminal THEN @ ELSE s]

(* A runbook that is switched off raises before anything is written.  The   *)
(* administrator may switch it at any time, so is_active is whatever each   *)
(* reader finds.                                                            *)
RefuseInactive(w, r) ==
  /\ At(w, "idle")
  /\ r \notin revoked
  /\ Take(r)
  /\ Conclude(r, "failed")
  /\ UNCHANGED <<workerOnly, rows, worker, troubles, history>>

Advance(w, failed, stopped) ==
  worker' = [worker EXCEPT ![w] = [IdleWorker EXCEPT
    !.phase = PhaseAt(worker[w].at + 1), !.run = worker[w].run, !.at = worker[w].at + 1,
    !.failed = failed, !.stopped = stopped]]

AddRow(w, s) ==
  rows' = [rows EXCEPT ![worker[w].run] = Append(@, [at |-> worker[w].at, status |-> s])]
CloseRow(w, s) ==
  rows' = [rows EXCEPT ![worker[w].run][worker[w].row].status = s]

Skipping(w) ==
  (worker[w].failed \/ worker[w].stopped) /\ ~Steps[worker[w].at].always

SkipStep(w) ==
  /\ At(w, "loop")
  /\ Skipping(w)
  /\ AddRow(w, "skipped")
  /\ Advance(w, worker[w].failed, worker[w].stopped)
  /\ UNCHANGED <<workerOnly, status, queue, troubles, history>>

InsertStep(w) ==
  /\ At(w, "loop")
  /\ ~Skipping(w)
  /\ AddRow(w, "running")
  /\ worker' = [worker EXCEPT ![w].phase = "inserted"]
  /\ UNCHANGED <<workerOnly, status, queue, troubles, history>>

(* Mutants of StepRow: any position of the run; the oldest row.             *)
NewestRow(w) == Len(rows[worker[w].run])
OldestRow(w) ==
  CHOOSE i \in DOMAIN rows[worker[w].run] :
    /\ rows[worker[w].run][i].at = worker[w].at
    /\ \A j \in DOMAIN rows[worker[w].run] :
         rows[worker[w].run][j].at = worker[w].at => i <= j

(* The row an execution finalises: the newest one of the run and position.  *)
StepRow(w) ==
  LET own == {i \in DOMAIN rows[worker[w].run] :
                rows[worker[w].run][i].at = worker[w].at}
  IN  CHOOSE i \in own : \A j \in own : j <= i

FindStep(w) ==
  /\ At(w, "inserted")
  /\ worker' = [worker EXCEPT ![w].phase = "script", ![w].row = StepRow(w)]
  /\ UNCHANGED <<workerOnly, status, rows, queue, troubles, history>>

FailStep(w) ==
  /\ CloseRow(w, "failed")
  /\ Advance(w, worker[w].failed \/ Steps[worker[w].at].critical, worker[w].stopped)

NoScript(w) ==
  /\ At(w, "script")
  /\ ~Steps[worker[w].at].script
  /\ FailStep(w)
  /\ UNCHANGED <<workerOnly, status, queue, troubles, history>>

ScriptSucceeds(w, stop) ==
  /\ At(w, "script")
  /\ Steps[worker[w].at].script
  /\ CloseRow(w, "success")
  /\ Advance(w, worker[w].failed, worker[w].stopped \/ stop)
  /\ UNCHANGED <<workerOnly, status, queue, troubles, history>>

(* None of the max(1, retry_count) attempts succeeds.                       *)
ScriptFails(w) ==
  /\ At(w, "script")
  /\ Steps[worker[w].at].script
  /\ FailStep(w)
  /\ UNCHANGED <<workerOnly, status, queue, troubles, history>>

Verdict(w) ==
  /\ At(w, "verdict")
  /\ Conclude(worker[w].run, IF worker[w].failed THEN "failed" ELSE "success")
  /\ worker' = [worker EXCEPT ![w].phase = "done"]
  /\ UNCHANGED <<workerOnly, rows, queue, troubles, history>>

(* The task returned: the message is acknowledged.                          *)
Acknowledge(w) ==
  /\ At(w, "done")
  /\ worker' = [worker EXCEPT ![w] = IdleWorker]
  /\ UNCHANGED <<workerOnly, status, rows, queue, troubles, history>>

Executing(w) == worker[w].phase \in {"loop", "inserted", "script", "verdict"}

(* An exception the steps do not catch, such as parameters that cannot be   *)
(* rendered.  The message is acknowledged.                                  *)
Raise(w) ==
  /\ Executing(w)
  /\ Trouble
  /\ Conclude(worker[w].run, "failed")
  /\ worker' = [worker EXCEPT ![w] = IdleWorker]
  /\ UNCHANGED <<workerOnly, rows, queue, history>>

(* The exception is the database's, and so the handler's update fails too.  *)
LoseDatabase(w) ==
  /\ Executing(w)
  /\ Trouble
  /\ worker' = [worker EXCEPT ![w] = IdleWorker]
  /\ history' = [history EXCEPT !.lost = @ \cup {worker[w].run}]
  /\ UNCHANGED <<workerOnly, status, rows, queue>>

(* The revoke's SIGTERM reaches the execution it was sent for.              *)
Terminate(w) ==
  /\ Executing(w)
  /\ worker[w].run \in revoked
  /\ worker' = [worker EXCEPT ![w] = IdleWorker]
  /\ UNCHANGED <<workerOnly, status, rows, queue, troubles, history>>

(* Mutant of Crash: the message was acknowledged when it was received.      *)
CrashEarlyAck(w) ==
  /\ ~At(w, "idle")
  /\ Trouble
  /\ worker' = [worker EXCEPT ![w] = IdleWorker]
  /\ UNCHANGED <<workerOnly, status, rows, queue, history>>

(* The worker process dies: its message was not acknowledged.               *)
Crash(w) ==
  /\ ~At(w, "idle")
  /\ Trouble
  /\ queue' = [queue EXCEPT ![worker[w].run] = @ + 1]
  /\ worker' = [worker EXCEPT ![w] = IdleWorker]
  /\ UNCHANGED <<workerOnly, status, rows, history>>

-----------------------------------------------------------------------------
Receive(w) == \E r \in Runs : Discard(w, r) \/ Begin(w, r) \/ RefuseInactive(w, r)

Execute(w) ==
  \/ SkipStep(w) \/ InsertStep(w) \/ FindStep(w) \/ NoScript(w)
  \/ \E stop \in BOOLEAN : ScriptSucceeds(w, stop)
  \/ ScriptFails(w) \/ Verdict(w) \/ Acknowledge(w)

Interrupt(w) == Raise(w) \/ LoseDatabase(w) \/ Terminate(w) \/ Crash(w)

Cron(t) == CronCheck(t) \/ CronInsert(t) \/ CronDispatch(t) \/ CronFails(t)

Admin ==
  \/ TriggerInsert \/ TriggerSend \/ TriggerSendFails \/ TriggerSaveTask
  \/ \E r \in Runs : CancelRead(r)
  \/ CancelCommit \/ CancelRevoke

Next ==
  \/ Admin
  \/ \E t \in Ticks : Cron(t)
  \/ \E w \in Workers : Receive(w) \/ Execute(w) \/ Interrupt(w)

Spec == Init /\ [][Next]_vars

(* Workers that are up receive what is queued and go on with what they      *)
(* began: a script ends, at the latest at its timeout_seconds.              *)
FairSpec == Spec /\ \A w \in Workers : WF_vars(Receive(w)) /\ WF_vars(Execute(w))

-----------------------------------------------------------------------------
(* skip_if_running: two scheduled runs are active together only if one of   *)
(* them was executed again after its end (a cancelled run whose message     *)
(* was still queued, a redelivered one) or two ticks checked before either  *)
(* inserted.  (check_cron_schedules)                                        *)
ScheduledRunsDontOverlap ==
  SkipIfRunning =>
    \A r, x \in scheduled \ (history.reopened \cup history.raced) :
      status[r] \in Active /\ status[x] \in Active => r = x

(* A run that was sent once and is reported as a success has, at every      *)
(* position, a newest row that is closed, and that did not fail if the step *)
(* is critical: whatever crashed, was executed again, or was cancelled      *)
(* meanwhile.  (_execute_run)                                               *)
SuccessIsBacked ==
  \A r \in Runs : status[r] = "success" /\ history.sent[r] = 1 =>
    \A p \in Positions :
      \E i \in DOMAIN rows[r] :
        /\ rows[r][i].at = p
        /\ \A j \in DOMAIN rows[r] : rows[r][j].at = p => j <= i
        /\ rows[r][i].status \in {"success", "skipped"} \cup
             (IF Steps[p].critical THEN {} ELSE {"failed"})

(* A run that has ended gets another status only from an execution that     *)
(* begins, from a cancel that read it earlier, or from the trigger whose    *)
(* dispatch failed: never from the verdict or the exception handler of an   *)
(* execution that was under way.  (standalone_runner.run, cancel_run)       *)
OnlyBeginReopens ==
  [][\A r \in Runs : status[r] \in Terminal /\ status'[r] # status[r] =>
       \/ status'[r] = "running" /\ r \in history'.reopened
       \/ status'[r] = "cancelled" /\ cancel.run = r
       \/ status'[r] = "failed" /\ trigger.run = r /\ trigger.phase = "inserted"]_vars

(* A run whose message is queued ends, unless its task was revoked (and the *)
(* message dropped, or the execution killed, after an execution had put the *)
(* row back to 'running') or an execution of it lost the database.          *)
(* (standalone_runner.run)                                                  *)
SentRunsEnd ==
  \A r \in Runs :
    queue[r] > 0 ~> status[r] \in Terminal \/ r \in revoked \cup history.lost
=============================================================================
