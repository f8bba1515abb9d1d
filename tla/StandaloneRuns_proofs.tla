----------------------- MODULE StandaloneRuns_proofs ------------------------
(***************************************************************************)
(* skip_if_running, the conditional updates of the run's status, the types *)
(* of every variable and what a success rests on, for any steps and every  *)
(* number of runs, workers, overlapping ticks and troubles.                *)
(***************************************************************************)
EXTENDS StandaloneRuns, SetInduction

Statuses == Active \cup Terminal \cup {"none"}

(* Every reference to a run is to one that was inserted.                    *)
Inserted ==
  /\ lastRun \in 0..MaxRun
  /\ status \in [Runs -> Statuses]
  /\ queue \in [Runs -> Nat]
  /\ scheduled \subseteq 1..lastRun
  /\ \A r \in Runs : (r > lastRun) <=> (status[r] = "none")
  /\ \A r \in Runs : r > lastRun => queue[r] = 0

Requested ==
  /\ trigger \in [phase: {"idle", "inserted", "sent"}, run: 0..lastRun]
  /\ trigger.phase # "idle" => trigger.run # 0
  /\ cancel \in [phase: {"idle", "read", "marked"}, run: 0..lastRun, task: BOOLEAN]
  /\ cancel.phase # "idle" => cancel.run # 0

Recorded ==
  /\ tick \in [Ticks -> {"idle", "checked", "inserted"}]
  /\ (\E t \in Ticks : tick[t] = "inserted") => lastRun # 0
  /\ history \in [sent: [Runs -> Nat], reopened: SUBSET Runs,
                  raced: SUBSET Runs, lost: SUBSET Runs]

Fields == {"phase", "run", "at", "row", "failed", "stopped"}

(* So is the one a worker executes.                                         *)
Executed ==
  /\ worker \in [Workers -> {worker[w] : w \in Workers}]
  /\ \A w \in Workers :
       /\ worker[w] = [f \in Fields |-> worker[w][f]]
       /\ worker[w].run \in 0..lastRun
       /\ worker[w].phase # "idle" => worker[w].run # 0

Excused == history.reopened \cup history.raced

(* Between its checks and its insert a tick may rely on what it checked, of *)
(* every run that has no excuse.                                            *)
StillClear ==
  SkipIfRunning =>
    \A t \in Ticks : tick[t] = "checked" =>
      \A r \in scheduled \ Excused : status[r] \notin Active

Inv == Inserted /\ Requested /\ Recorded /\ Executed /\ StillClear /\ ScheduledRunsDontOverlap

LEMMA Initially == Init => Inv
  BY RunsAssumption, SMTT(30) DEF Init, Inv, Inserted, Requested, Recorded, Executed, StillClear, ScheduledRunsDontOverlap,
     Runs, Statuses, Active, Terminal, IdleWorker, IdleTrigger, IdleCancel, Fields

(* A step that neither makes checks nor inserts a scheduled run, and that   *)
(* makes active only what was, or what it excuses.                          *)
LEMMA Calm ==
  ASSUME Inv,
         scheduled' = scheduled,
         Excused \subseteq Excused',
         \A r \in scheduled :
           status'[r] \in Active => status[r] \in Active \/ r \in Excused',
         \A t \in Ticks : tick'[t] = "checked" => tick[t] = "checked"
  PROVE  StillClear' /\ ScheduledRunsDontOverlap'
  BY DEF Inv, StillClear, ScheduledRunsDontOverlap, Excused

(* The references a step keeps when it inserts nothing and leaves workers,  *)
(* requests and ticks alone or as they were.                                *)
LEMMA Concluded ==
  ASSUME Inserted, NEW r \in Runs, NEW s \in Terminal, r <= lastRun, Conclude(r, s)
  PROVE  /\ status' \in [Runs -> Statuses]
         /\ \A x \in Runs : (x > lastRun) <=> (status'[x] = "none")
         /\ \A x \in Runs : status'[x] \in Active => status[x] \in Active
         /\ \A x \in Runs : status[x] \in Terminal => status'[x] = status[x]
  BY DEF Inserted, Conclude, Runs, Statuses, Active, Terminal

LEMMA WorkersKept ==
  ASSUME Executed, UNCHANGED <<worker, lastRun>>
  PROVE  Executed'
  BY DEF Executed

(* A message for a run that was inserted.                                   *)
LEMMA Sent ==
  ASSUME Inserted, Recorded, NEW r \in Runs, r <= lastRun, Send(r)
  PROVE  /\ queue' \in [Runs -> Nat]
         /\ \A x \in Runs : x > lastRun => queue'[x] = 0
         /\ history' \in [sent: [Runs -> Nat], reopened: SUBSET Runs,
                          raced: SUBSET Runs, lost: SUBSET Runs]
         /\ Excused' = Excused
  <1>1. /\ queue' \in [Runs -> Nat]
        /\ \A x \in Runs : x > lastRun => queue'[x] = 0
    BY RunsAssumption DEF Inserted, Send, Runs
  <1>2. history.sent[r] + 1 \in Nat
    BY DEF Recorded
  <1>3. [history.sent EXCEPT ![r] = @ + 1] \in [Runs -> Nat]
    BY <1>2 DEF Recorded
  <1>4. history' = [history EXCEPT !.sent = [history.sent EXCEPT ![r] = @ + 1]]
    BY DEF Send
  <1>5. history' \in [sent: [Runs -> Nat], reopened: SUBSET Runs,
                      raced: SUBSET Runs, lost: SUBSET Runs]
    BY <1>3, <1>4 DEF Recorded
  <1>6. Excused' = Excused
    BY <1>4 DEF Excused, Recorded
  <1> QED BY <1>1, <1>5, <1>6

LEMMA Advanced ==
  ASSUME Executed, NEW w \in Workers, NEW STATE f, NEW STATE s, Advance(w, f, s), lastRun' = lastRun,
         worker[w].run # 0
  PROVE  Executed'
  <1> DEFINE rec == [IdleWorker EXCEPT !.phase = PhaseAt(worker[w].at + 1),
                       !.run = worker[w].run, !.at = worker[w].at + 1,
                       !.failed = f, !.stopped = s]
  <1>1. worker' = [worker EXCEPT ![w] = rec]
    BY DEF Advance
  <1>2. rec.run = worker[w].run /\ rec = [x \in Fields |-> rec[x]]
    BY DEF IdleWorker, Fields
  <1>3. worker[w].run # 0
    OBVIOUS
  <1> HIDE DEF rec
  <1>4. \A x \in Workers : worker'[x] = IF x = w THEN rec ELSE worker[x]
    BY <1>1 DEF Executed
  <1>5. worker' \in [Workers -> {worker'[x] : x \in Workers}]
    BY <1>1 DEF Executed
  <1>6. rec.run # 0
    BY <1>2, <1>3
  <1> QED BY <1>2, <1>4, <1>5, <1>6 DEF Executed

LEMMA WorkerIdle ==
  ASSUME Executed, NEW w \in Workers, worker' = [worker EXCEPT ![w] = IdleWorker],
         lastRun' = lastRun, lastRun \in Nat
  PROVE  Executed'
  BY DEF Executed, IdleWorker, Fields

-----------------------------------------------------------------------------
LEMMA AdminStep ==
  ASSUME Inv, Admin
  PROVE  Inv'
  <1> USE RunsAssumption DEF Inv, Runs
  <1>1. CASE TriggerInsert
    <2> USE <1>1 DEF TriggerInsert, InsertRun
    <2>1. Inserted'
      BY DEF Inserted, Statuses, Active
    <2>2. Requested'
      BY DEF Inserted, Requested
    <2>3. Recorded'
      BY DEF Inserted, Recorded
    <2>4. Executed'
      BY DEF Inserted, Executed
    <2>5. \A r \in scheduled : status'[r] = status[r]
      BY DEF Inserted
    <2>6. StillClear' /\ ScheduledRunsDontOverlap'
      BY <2>5, Calm DEF Excused
    <2> QED BY <2>1, <2>2, <2>3, <2>4, <2>6
  <1>2. CASE TriggerSend
    <2> USE <1>2 DEF TriggerSend, runVars
    <2>1. trigger.run \in Runs /\ trigger.run <= lastRun
      BY DEF Inserted, Requested
    <2>2. Inserted' /\ Recorded' /\ Excused' = Excused
      BY <2>1, Sent DEF Inserted, Recorded
    <2>3. Requested'
      BY DEF Requested
    <2>4. Executed'
      BY WorkersKept
    <2>5. StillClear' /\ ScheduledRunsDontOverlap'
      BY <2>2, Calm
    <2> QED BY <2>2, <2>3, <2>4, <2>5
  <1>3. CASE TriggerSendFails
    <2> USE <1>3 DEF TriggerSendFails, runVars
    <2>1. trigger.run \in Runs /\ trigger.run <= lastRun
      BY DEF Inserted, Requested
    <2>2. Inserted'
      BY <2>1 DEF Inserted, Statuses, Terminal
    <2>3. Requested' /\ Recorded'
      BY DEF Inserted, Requested, Recorded, IdleTrigger
    <2>4. Executed'
      BY WorkersKept
    <2>5. \A r \in Runs : status'[r] \in Active => status[r] \in Active
      BY <2>1 DEF Inserted, Active
    <2>6. StillClear' /\ ScheduledRunsDontOverlap'
      BY <2>5, Calm DEF Excused, Inserted
    <2> QED BY <2>2, <2>3, <2>4, <2>6
  <1>4. CASE TriggerSaveTask
    <2> USE <1>4 DEF TriggerSaveTask
    <2>1. Inserted' /\ Recorded'
      BY DEF Inserted, Recorded
    <2>a. Requested'
      BY DEF Inserted, Requested, IdleTrigger
    <2>2. Executed'
      BY WorkersKept
    <2>3. StillClear' /\ ScheduledRunsDontOverlap'
      BY Calm DEF Excused
    <2> QED BY <2>1, <2>a, <2>2, <2>3
  <1>5. ASSUME NEW r \in Runs, CancelRead(r) PROVE Inv'
    <2> USE <1>5 DEF CancelRead, runVars
    <2>1. r \in 0..lastRun /\ r # 0
      BY DEF Inserted, Active
    <2>2. Requested'
      BY <2>1 DEF Requested
    <2>3. Inserted' /\ Recorded'
      BY DEF Inserted, Recorded
    <2>4. Executed'
      BY WorkersKept
    <2>5. StillClear' /\ ScheduledRunsDontOverlap'
      BY Calm DEF Excused
    <2> QED BY <2>2, <2>3, <2>4, <2>5
  <1>6. CASE CancelCommit
    <2> USE <1>6 DEF CancelCommit, runVars
    <2>1. cancel.run \in Runs /\ cancel.run <= lastRun
      BY DEF Inserted, Requested
    <2>2. Inserted'
      BY <2>1 DEF Inserted, Statuses, Terminal
    <2>3. Recorded'
      BY DEF Recorded
    <2>a. cancel' \in [phase: {"idle", "read", "marked"}, run: 0..lastRun, task: BOOLEAN]
          /\ (cancel'.phase # "idle" => cancel'.run # 0)
      <3>1. CASE cancel.task
        BY <3>1, <2>1 DEF Requested
      <3>2. CASE ~cancel.task
        BY <3>2 DEF Inserted, IdleCancel
      <3> QED BY <3>1, <3>2
    <2>b. Requested'
      BY <2>a DEF Requested
    <2>4. Executed'
      BY WorkersKept
    <2>5. \A r \in Runs : status'[r] \in Active => status[r] \in Active
      BY <2>1 DEF Inserted, Active
    <2>6. StillClear' /\ ScheduledRunsDontOverlap'
      BY <2>5, Calm DEF Excused, Inserted
    <2> QED BY <2>2, <2>3, <2>b, <2>4, <2>6
  <1>7. CASE CancelRevoke
    <2> USE <1>7 DEF CancelRevoke, runVars
    <2>1. Inserted' /\ Recorded'
      BY DEF Inserted, Recorded
    <2>a. Requested'
      BY DEF Inserted, Requested, IdleCancel
    <2>2. Executed'
      BY WorkersKept
    <2>3. StillClear' /\ ScheduledRunsDontOverlap'
      BY Calm DEF Excused
    <2> QED BY <2>1, <2>a, <2>2, <2>3
  <1> QED BY <1>1, <1>2, <1>3, <1>4, <1>5, <1>6, <1>7 DEF Admin

LEMMA CronStep ==
  ASSUME Inv, NEW t \in Ticks, Cron(t)
  PROVE  Inv'
  <1> USE RunsAssumption DEF Inv, Runs
  <1>1. CASE CronCheck(t)
    <2> USE <1>1 DEF CronCheck, runVars, adminVars
    <2>1. Inserted' /\ Requested' /\ Recorded'
      BY DEF Inserted, Requested, Recorded
    <2>2. Executed'
      BY WorkersKept
    <2>3. ScheduledRunsDontOverlap'
      BY DEF ScheduledRunsDontOverlap
    <2>4. StillClear'
      BY DEF Inserted, StillClear, Excused
    <2> QED BY <2>1, <2>2, <2>3, <2>4
  <1>2. CASE CronInsert(t)
    <2> USE <1>2 DEF CronInsert, InsertRun, adminVars
    <2>1. Inserted'
      BY DEF Inserted, Statuses, Active
    <2>2. Requested'
      BY DEF Inserted, Requested
    <2>3. Recorded'
      <3>1. tick' \in [Ticks -> {"idle", "checked", "inserted"}] /\ lastRun' # 0
        BY DEF Inserted, Recorded
      <3>2. {r \in {lastRun + 1} : \E u \in Ticks \ {t} : tick[u] = "checked"} \subseteq Runs
        BY DEF Inserted
      <3>3. history' \in [sent: [Runs -> Nat], reopened: SUBSET Runs,
                          raced: SUBSET Runs, lost: SUBSET Runs]
        BY <3>2 DEF Recorded
      <3> QED BY <3>1, <3>3 DEF Recorded
    <2>4. Executed'
      BY DEF Inserted, Executed
    <2> DEFINE new == lastRun + 1
    <2>5. /\ new \in Runs /\ new \notin scheduled
          /\ scheduled' = scheduled \cup {new}
          /\ \A r \in scheduled : status'[r] = status[r]
      BY DEF Inserted
    <2>6. /\ Excused \subseteq Excused'
          /\ Excused' \subseteq Excused \cup {new}
          /\ (\E u \in Ticks \ {t} : tick[u] = "checked") => new \in Excused'
      BY DEF Recorded, Excused
    <2>7. \A u \in Ticks : tick'[u] = "checked" => u # t /\ tick[u] = "checked"
      BY DEF Recorded
    <2>8. StillClear'
      BY <2>5, <2>6, <2>7 DEF StillClear
    <2>9. SkipIfRunning => \A r \in scheduled \ Excused : status[r] \notin Active
      BY DEF StillClear
    <2>10. ScheduledRunsDontOverlap'
      BY <2>5, <2>6, <2>9 DEF ScheduledRunsDontOverlap, Excused
    <2> QED BY <2>1, <2>2, <2>3, <2>4, <2>8, <2>10
  <1>3. CASE CronDispatch(t)
    <2> USE <1>3 DEF CronDispatch, runVars, adminVars
    <2>1. lastRun \in Runs /\ lastRun <= lastRun
      BY DEF Inserted, Recorded
    <2>a. /\ queue' \in [Runs -> Nat]
          /\ \A x \in Runs : x > lastRun => queue'[x] = 0
          /\ history' \in [sent: [Runs -> Nat], reopened: SUBSET Runs,
                           raced: SUBSET Runs, lost: SUBSET Runs]
          /\ Excused' = Excused
      <3> HIDE DEF Runs
      <3> QED BY <2>1, Sent
    <2>2. Inserted' /\ Excused' = Excused
      BY <2>a DEF Inserted
    <2>3. Recorded'
      BY <2>a DEF Inserted, Recorded
    <2>4. Requested'
      BY DEF Requested
    <2>5. Executed'
      BY WorkersKept
    <2>6. \A u \in Ticks : tick'[u] = "checked" => tick[u] = "checked"
      BY DEF Recorded
    <2>7. StillClear' /\ ScheduledRunsDontOverlap'
      BY <2>2, <2>6, Calm
    <2> QED BY <2>2, <2>3, <2>4, <2>5, <2>7
  <1>4. CASE CronFails(t)
    <2> USE <1>4 DEF CronFails, runVars, adminVars
    <2>1. Inserted' /\ Requested' /\ Recorded'
      BY DEF Inserted, Requested, Recorded
    <2>2. Executed'
      BY WorkersKept
    <2>3. \A u \in Ticks : tick'[u] = "checked" => tick[u] = "checked"
      BY DEF Recorded
    <2>4. StillClear' /\ ScheduledRunsDontOverlap'
      BY <2>3, Calm DEF Excused
    <2> QED BY <2>1, <2>2, <2>4
  <1> QED BY <1>1, <1>2, <1>3, <1>4 DEF Cron

-----------------------------------------------------------------------------
LEMMA Taken ==
  ASSUME Inserted, NEW r \in Runs, Take(r)
  PROVE  /\ r <= lastRun
         /\ queue' \in [Runs -> Nat]
         /\ \A x \in Runs : x > lastRun => queue'[x] = 0
  BY RunsAssumption DEF Inserted, Take, Runs

(* What is left to show of a step of a worker.                              *)
LEMMA Ran ==
  ASSUME Inv, UNCHANGED workerOnly, Executed',
         status' \in [Runs -> Statuses],
         queue' \in [Runs -> Nat],
         \A x \in Runs : (x > lastRun) <=> (status'[x] = "none"),
         \A x \in Runs : x > lastRun => queue'[x] = 0,
         history' \in [sent: [Runs -> Nat], reopened: SUBSET Runs,
                      raced: SUBSET Runs, lost: SUBSET Runs],
         Excused \subseteq Excused',
         \A x \in Runs : status'[x] \in Active => status[x] \in Active \/ x \in Excused'
  PROVE  Inv'
  <1> USE DEF Inv, workerOnly, runVars, adminVars
  <1>1. Inserted' /\ Requested' /\ Recorded'
    BY DEF Inserted, Requested, Recorded
  <1>2. scheduled \subseteq Runs
    BY RunsAssumption DEF Inserted, Runs
  <1>3. StillClear'
    BY <1>2 DEF StillClear
  <1>4. ScheduledRunsDontOverlap'
    BY <1>2 DEF ScheduledRunsDontOverlap, Excused
  <1> QED BY <1>1, <1>3, <1>4

LEMMA ReceiveStep ==
  ASSUME Inv, NEW w \in Workers, NEW r \in Runs,
         Discard(w, r) \/ Begin(w, r) \/ RefuseInactive(w, r)
  PROVE  Inv'
  <1>1. /\ Inserted /\ Recorded /\ Executed
        /\ lastRun \in Nat /\ lastRun' = lastRun
        /\ UNCHANGED workerOnly /\ Take(r)
    BY RunsAssumption DEF Inv, Inserted, Discard, Begin, RefuseInactive, workerOnly, runVars
  <1>2. /\ r <= lastRun /\ r # 0
        /\ queue' \in [Runs -> Nat]
        /\ \A x \in Runs : x > lastRun => queue'[x] = 0
    BY <1>1, Taken DEF Runs
  <1>3. CASE Discard(w, r)
    <2>1. Executed'
      BY <1>1, <1>3, WorkersKept DEF Discard
    <2>2. UNCHANGED <<status, history>> /\ Excused' = Excused
      BY <1>3 DEF Discard, Excused
    <2> QED BY <1>1, <1>2, <2>1, <2>2, Ran DEF Inserted, Recorded
  <1>4. CASE Begin(w, r)
    <2> DEFINE rec == [IdleWorker EXCEPT !.phase = PhaseAt(1), !.run = r, !.at = 1]
    <2>1. worker' = [worker EXCEPT ![w] = rec]
      BY <1>4 DEF Begin
    <2>2. rec.run = r /\ rec = [x \in Fields |-> rec[x]]
      BY DEF IdleWorker, Fields
    <2> HIDE DEF rec
    <2>3. Executed'
      BY <1>1, <1>2, <2>1, <2>2 DEF Executed, Runs
    <2>4. /\ status' \in [Runs -> Statuses]
          /\ \A x \in Runs : (x > lastRun) <=> (status'[x] = "none")
      BY <1>1, <1>2, <1>4 DEF Begin, Inserted, Statuses, Active, Runs
    <2>5. history' = [history EXCEPT !.reopened =
                        @ \cup {x \in {r} : status[x] \in Terminal}]
      BY <1>4 DEF Begin
    <2>6. /\ history' \in [sent: [Runs -> Nat], reopened: SUBSET Runs,
                           raced: SUBSET Runs, lost: SUBSET Runs]
          /\ Excused \subseteq Excused'
          /\ status[r] \in Terminal => r \in Excused'
      BY <1>1, <2>5 DEF Recorded, Excused
    <2>7. \A x \in Runs : status'[x] \in Active => status[x] \in Active \/ x \in Excused'
      <3>1. \A x \in Runs : x # r => status'[x] = status[x]
        BY <1>1, <1>4 DEF Begin, Inserted
      <3>2. status[r] \in Active \cup Terminal
        BY <1>1, <1>2 DEF Inserted, Statuses, Runs
      <3> QED BY <2>6, <3>1, <3>2
    <2> QED BY <1>1, <1>2, <2>3, <2>4, <2>6, <2>7, Ran
  <1>5. CASE RefuseInactive(w, r)
    <2>1. Executed'
      BY <1>1, <1>5, WorkersKept DEF RefuseInactive
    <2>2. UNCHANGED history /\ Excused' = Excused /\ Conclude(r, "failed")
      BY <1>5 DEF RefuseInactive, Excused
    <2>3. /\ status' \in [Runs -> Statuses]
          /\ \A x \in Runs : (x > lastRun) <=> (status'[x] = "none")
          /\ \A x \in Runs : status'[x] \in Active => status[x] \in Active
      BY <1>1, <1>2, <2>2, Concluded DEF Terminal
    <2> QED BY <1>1, <1>2, <2>1, <2>2, <2>3, Ran DEF Recorded
  <1> QED BY <1>3, <1>4, <1>5

(* The worker goes on with its run.                                         *)
LEMMA Moved ==
  ASSUME Executed, NEW w \in Workers, NEW STATE rec,
         ~At(w, "idle"), worker' = [worker EXCEPT ![w] = rec],
         rec = [x \in Fields |-> rec[x]], rec.run = worker[w].run,
         UNCHANGED workerOnly
  PROVE  Executed'
  <1>1. \A x \in Workers : worker'[x] = IF x = w THEN rec ELSE worker[x]
    BY DEF Executed
  <1>2. worker' \in [Workers -> {worker'[x] : x \in Workers}]
    BY DEF Executed
  <1>3. rec.run \in 0..lastRun /\ rec.run # 0 /\ lastRun' = lastRun
    BY DEF Executed, At, workerOnly, runVars
  <1> QED BY <1>1, <1>2, <1>3 DEF Executed

LEMMA RunOf ==
  ASSUME Inserted, Executed, NEW w \in Workers, ~At(w, "idle")
  PROVE  worker[w].run \in Runs /\ worker[w].run <= lastRun /\ lastRun \in Nat
  <1>1. lastRun \in 0..MaxRun /\ MaxRun \in Nat
    BY RunsAssumption DEF Inserted
  <1>2. worker[w].run \in 0..lastRun /\ worker[w].run # 0
    BY DEF Executed, At
  <1> QED BY <1>1, <1>2 DEF Runs

(* A step that changes the worker and the rows of the run's steps only.     *)
LEMMA Quiet ==
  ASSUME Inv, UNCHANGED <<workerOnly, status, queue, history>>, Executed'
  PROVE  Inv'
  <1>1. Excused' = Excused
    BY DEF Excused
  <1> QED BY <1>1, Ran DEF Inv, Inserted, Recorded

(* A step that ends the run of the execution.                               *)
LEMMA Ended ==
  ASSUME Inv, NEW w \in Workers, ~At(w, "idle"), NEW STATE s, s \in Terminal,
         Conclude(worker[w].run, s), UNCHANGED <<workerOnly, queue, history>>, Executed'
  PROVE  Inv'
  <1>1. worker[w].run \in Runs /\ worker[w].run <= lastRun
    BY RunOf DEF Inv
  <1>2. Excused' = Excused
    BY DEF Excused
  <1>3. /\ status' \in [Runs -> Statuses]
        /\ \A x \in Runs : (x > lastRun) <=> (status'[x] = "none")
        /\ \A x \in Runs : status'[x] \in Active => status[x] \in Active
    BY <1>1, Concluded DEF Inv
  <1> QED BY <1>2, <1>3, Ran DEF Inv, Inserted, Recorded

LEMMA ExecuteStep ==
  ASSUME Inv, NEW w \in Workers, Execute(w)
  PROVE  Inv'
  <1>1. Executed /\ lastRun \in Nat
    BY RunsAssumption DEF Inv, Inserted
  <1>2. ~At(w, "idle")
    BY DEF Execute, At, SkipStep, InsertStep, FindStep, NoScript, ScriptSucceeds,
           ScriptFails, Verdict, Acknowledge
  <1>3. worker[w].run # 0
    BY <1>1, <1>2 DEF Executed, At
  <1>4. ASSUME NEW STATE f, NEW STATE s, Advance(w, f, s),
               UNCHANGED <<workerOnly, status, queue, history>>
        PROVE  Inv'
    <2>1. Executed'
      BY <1>1, <1>3, <1>4, Advanced DEF workerOnly, runVars
    <2> QED BY <1>4, <2>1, Quiet
  <1>5. CASE SkipStep(w)
    BY <1>4, <1>5 DEF SkipStep
  <1>6. CASE InsertStep(w)
    <2> DEFINE rec == [worker[w] EXCEPT !.phase = "inserted"]
    <2>1. rec = [x \in Fields |-> rec[x]] /\ rec.run = worker[w].run
      BY <1>1 DEF Executed, Fields
    <2>2. worker' = [worker EXCEPT ![w] = rec] /\ UNCHANGED workerOnly
      BY <1>6 DEF InsertStep
    <2> HIDE DEF rec
    <2>3. Executed'
      BY <1>1, <1>2, <2>1, <2>2, Moved
    <2> QED BY <1>6, <2>3, Quiet DEF InsertStep
  <1>7. CASE FindStep(w)
    <2> DEFINE rec == [worker[w] EXCEPT !.phase = "script", !.row = StepRow(w)]
    <2>1. rec = [x \in Fields |-> rec[x]] /\ rec.run = worker[w].run
      BY <1>1 DEF Executed, Fields
    <2>2. worker' = [worker EXCEPT ![w] = rec] /\ UNCHANGED workerOnly
      BY <1>7 DEF FindStep
    <2> HIDE DEF rec
    <2>3. Executed'
      BY <1>1, <1>2, <2>1, <2>2, Moved
    <2> QED BY <1>7, <2>3, Quiet DEF FindStep
  <1>8. CASE NoScript(w) \/ ScriptFails(w)
    BY <1>4, <1>8 DEF NoScript, ScriptFails, FailStep
  <1>9. ASSUME NEW stop \in BOOLEAN, ScriptSucceeds(w, stop) PROVE Inv'
    BY <1>4, <1>9 DEF ScriptSucceeds
  <1>10. CASE Verdict(w)
    <2> DEFINE rec == [worker[w] EXCEPT !.phase = "done"]
               verdict == IF worker[w].failed THEN "failed" ELSE "success"
    <2>1. rec = [x \in Fields |-> rec[x]] /\ rec.run = worker[w].run
      BY <1>1 DEF Executed, Fields
    <2>2. worker' = [worker EXCEPT ![w] = rec] /\ UNCHANGED <<workerOnly, queue, history>>
      BY <1>10 DEF Verdict
    <2>3. Conclude(worker[w].run, verdict) /\ verdict \in Terminal
      BY <1>10 DEF Verdict, Terminal
    <2> HIDE DEF rec, verdict
    <2>4. Executed'
      BY <1>1, <1>2, <2>1, <2>2, Moved
    <2> QED BY <1>2, <2>2, <2>3, <2>4, Ended
  <1>11. CASE Acknowledge(w)
    <2>1. Executed'
      BY <1>1, <1>11, WorkerIdle DEF Acknowledge, workerOnly, runVars
    <2> QED BY <1>11, <2>1, Quiet DEF Acknowledge
  <1> QED BY <1>5, <1>6, <1>7, <1>8, <1>9, <1>10, <1>11 DEF Execute

LEMMA InterruptStep ==
  ASSUME Inv, NEW w \in Workers, Interrupt(w)
  PROVE  Inv'
  <1>1. /\ ~At(w, "idle")
        /\ worker' = [worker EXCEPT ![w] = IdleWorker]
        /\ UNCHANGED workerOnly
    BY DEF Interrupt, Raise, LoseDatabase, Terminate, Crash, Executing, At
  <1>2. worker[w].run \in Runs /\ worker[w].run <= lastRun /\ lastRun \in Nat
    BY <1>1, RunOf DEF Inv
  <1>3. Executed /\ Executed'
    BY <1>1, <1>2, WorkerIdle DEF Inv, workerOnly, runVars
  <1>4. CASE Raise(w)
    <2>1. Conclude(worker[w].run, "failed") /\ "failed" \in Terminal
          /\ UNCHANGED <<queue, history>>
      BY <1>4 DEF Raise, Terminal
    <2> QED BY <1>1, <1>3, <2>1, Ended
  <1>5. CASE LoseDatabase(w)
    <2>1. /\ history' \in [sent: [Runs -> Nat], reopened: SUBSET Runs,
                           raced: SUBSET Runs, lost: SUBSET Runs]
          /\ Excused' = Excused
      BY <1>2, <1>5 DEF LoseDatabase, Inv, Recorded, Excused
    <2> QED BY <1>1, <1>3, <1>5, <2>1, Ran DEF LoseDatabase, Inv, Inserted
  <1>6. CASE Terminate(w)
    BY <1>1, <1>3, <1>6, Quiet DEF Terminate
  <1>7. CASE Crash(w)
    <2>1. /\ queue' \in [Runs -> Nat]
          /\ \A x \in Runs : x > lastRun => queue'[x] = 0
      BY <1>2, <1>7, RunsAssumption DEF Crash, Inv, Inserted, Runs
    <2>2. Excused' = Excused /\ UNCHANGED <<status, history>>
      BY <1>7 DEF Crash, Excused
    <2> QED BY <1>1, <1>3, <2>1, <2>2, Ran DEF Inv, Inserted, Recorded
  <1> QED BY <1>4, <1>5, <1>6, <1>7 DEF Interrupt

-----------------------------------------------------------------------------
LEMMA Step == Inv /\ [Next]_vars => Inv'
  <1> SUFFICES ASSUME Inv, [Next]_vars PROVE Inv'
    OBVIOUS
  <1>1. CASE UNCHANGED vars
    <2>1. Executed' /\ UNCHANGED <<workerOnly, status, queue, history>>
      BY <1>1, WorkersKept DEF Inv, vars, workerOnly, runVars
    <2> QED BY <2>1, Quiet
  <1>2. CASE Admin
    BY <1>2, AdminStep
  <1>3. ASSUME NEW t \in Ticks, Cron(t) PROVE Inv'
    BY <1>3, CronStep
  <1>4. ASSUME NEW w \in Workers, Receive(w) \/ Execute(w) \/ Interrupt(w) PROVE Inv'
    BY <1>4, ReceiveStep, ExecuteStep, InterruptStep DEF Receive
  <1> QED BY <1>1, <1>2, <1>3, <1>4 DEF Next

LEMMA Invariant == Spec => []Inv
  BY Initially, Step, PTL DEF Spec

(* skip_if_running keeps two scheduled runs from being active together,     *)
(* but for runs executed again after their end and ticks that overlap.      *)
(* (check_cron_schedules)                                                   *)
THEOREM ScheduledCorrect == Spec => []ScheduledRunsDontOverlap
  BY Invariant, PTL DEF Inv

(* A run that has ended keeps its status through what the property allows,  *)
(* whatever the execution under way, its verdict and its exceptions do.     *)
LEMMA ReopenStep ==
  ASSUME Inv, [Next]_vars, NEW r \in Runs, status[r] \in Terminal, status'[r] # status[r]
  PROVE  \/ status'[r] = "running" /\ r \in history'.reopened
         \/ status'[r] = "cancelled" /\ cancel.run = r
         \/ status'[r] = "failed" /\ trigger.run = r /\ trigger.phase = "inserted"
  <1>1. Inserted /\ Executed /\ Recorded /\ lastRun \in Nat /\ lastRun < MaxRun + 1
    BY RunsAssumption DEF Inv, Inserted
  <1>2. r <= lastRun
    BY <1>1 DEF Inserted, Terminal, Runs
  <1>3. ASSUME NEW x \in Runs, NEW s, Conclude(x, s) PROVE FALSE
    BY <1>1, <1>3 DEF Conclude, Inserted
  <1>4. ASSUME InsertRun PROVE FALSE
    BY <1>1, <1>2, <1>4 DEF InsertRun, Inserted, Runs
  <1>5. CASE Admin
    <2>1. TriggerSendFails \/ CancelCommit
      BY <1>4, <1>5 DEF Admin, TriggerInsert, TriggerSend, TriggerSaveTask, CancelRead, CancelRevoke
    <2> QED BY <1>1, <2>1 DEF TriggerSendFails, CancelCommit, Inserted
  <1>6. ASSUME NEW t \in Ticks, Cron(t) PROVE FALSE
    BY <1>4, <1>6 DEF Cron, CronCheck, CronInsert, CronDispatch, CronFails
  <1>7. ASSUME NEW w \in Workers, NEW x \in Runs, Begin(w, x)
        PROVE  status'[r] = "running" /\ r \in history'.reopened
    BY <1>1, <1>7 DEF Begin, Inserted, Recorded
  <1>8. ASSUME NEW w \in Workers, NEW x \in Runs, Discard(w, x) \/ RefuseInactive(w, x)
        PROVE  FALSE
    BY <1>3, <1>8 DEF Discard, RefuseInactive
  <1>9. ASSUME NEW w \in Workers, Execute(w) \/ Interrupt(w) PROVE FALSE
    <2>1. Verdict(w) \/ Raise(w)
      BY <1>9 DEF Execute, Interrupt, SkipStep, InsertStep, FindStep, NoScript, ScriptSucceeds,
                  ScriptFails, Acknowledge, LoseDatabase, Terminate, Crash
    <2>2. worker[w].run \in Runs
      BY <1>1, <2>1, RunOf DEF Verdict, Raise, Executing, At
    <2>3. \E s : Conclude(worker[w].run, s)
      BY <2>1 DEF Verdict, Raise
    <2> QED BY <1>3, <2>2, <2>3
  <1>10. CASE UNCHANGED vars
    BY <1>10 DEF vars
  <1> QED BY <1>5, <1>6, <1>7, <1>8, <1>9, <1>10 DEF Next, Receive

(* A run that has ended gets another status only from an execution that     *)
(* begins, a cancel that read it earlier, or its failed dispatch.           *)
(* (standalone_runner.run, cancel_run)                                      *)
THEOREM ReopenCorrect == Spec => OnlyBeginReopens
  <1>1. Inv /\ [Next]_vars =>
          [\A r \in Runs : status[r] \in Terminal /\ status'[r] # status[r] =>
             \/ status'[r] = "running" /\ r \in history'.reopened
             \/ status'[r] = "cancelled" /\ cancel.run = r
             \/ status'[r] = "failed" /\ trigger.run = r /\ trigger.phase = "inserted"]_vars
    BY ReopenStep
  <1> QED BY <1>1, Invariant, PTL DEF Spec, OnlyBeginReopens

-----------------------------------------------------------------------------
(* The rows of a run's steps.  They are appended and their status changes;  *)
(* the position of a row does not, so a row that was found stays the row of *)
(* the position it was found for.                                           *)

RowStatuses == {"running", "success", "failed", "skipped", "cancelled"}
RowType == [at: Positions, status: RowStatuses]
RowsTyped == rows \in [Runs -> Seq(RowType)]

RowsGrow ==
  \A r \in Runs : \A i \in DOMAIN rows[r] :
    i \in DOMAIN rows'[r] /\ rows'[r][i].at = rows[r][i].at

Adds(r, p, s) == rows' = [rows EXCEPT ![r] = Append(@, [at |-> p, status |-> s])]

Closes(r, k, s) == rows' = [rows EXCEPT ![r][k].status = s]

Cancels(r) ==
  rows' = [rows EXCEPT ![r] =
            [i \in DOMAIN @ |-> IF @[i].status = "running"
                                THEN [@[i] EXCEPT !.status = "cancelled"]
                                ELSE @[i]]]

Phases == {"idle", "loop", "inserted", "script", "verdict", "done"}

WorkerTyped(w) ==
  worker[w] \in [phase: Phases, run: 0..lastRun, at: 0..Len(Steps) + 1, row: Nat,
                 failed: BOOLEAN, stopped: BOOLEAN]

Placed(w) ==
  LET e == worker[w] IN
  /\ At(w, "loop") => e.at \in Positions
  /\ At(w, "inserted") \/ At(w, "script") =>
       e.at \in Positions /\ \E i \in DOMAIN rows[e.run] : rows[e.run][i].at = e.at
  /\ At(w, "script") => e.row \in DOMAIN rows[e.run] /\ rows[e.run][e.row].at = e.at

TasksTyped ==
  /\ hasTask \subseteq 1..lastRun /\ revoked \subseteq hasTask
  /\ cancel.task => cancel.run \in hasTask
  /\ cancel.phase = "marked" => cancel.task
  /\ troubles \in 0..MaxTroubles

Typed == RowsTyped /\ TasksTyped /\ \A w \in Workers : WorkerTyped(w) /\ Placed(w)

LEMMA StepsTyped ==
  /\ Len(Steps) \in Nat /\ Positions = 1..Len(Steps)
  /\ \A p \in Positions : Steps[p] \in [critical: BOOLEAN, always: BOOLEAN, script: BOOLEAN]
<1> DEFINE T == [critical: BOOLEAN, always: BOOLEAN, script: BOOLEAN]
<1>1. Steps \in Seq(T)
  BY RunsAssumption
<1> HIDE DEF T
<1>2. Len(Steps) \in Nat /\ DOMAIN Steps = 1..Len(Steps) /\ \A p \in DOMAIN Steps : Steps[p] \in T
  BY <1>1
<1> QED
  BY <1>2 DEF Positions, T

LEMMA TypedInit == Init => Typed
<1> SUFFICES ASSUME Init PROVE Typed
  OBVIOUS
<1>1. RowsTyped
  BY DEF Init, RowsTyped
<1>2. TasksTyped
  BY RunsAssumption DEF Init, TasksTyped, IdleCancel
<1>3. \A w \in Workers : WorkerTyped(w)
  BY StepsTyped DEF Init, WorkerTyped, IdleWorker, Phases
<1>4. \A w \in Workers : Placed(w)
  BY DEF Init, Placed, IdleWorker, At
<1> QED
  BY <1>1, <1>2, <1>3, <1>4 DEF Typed

LEMMA RowAdded ==
  ASSUME RowsTyped, NEW r \in Runs, NEW p \in Positions, NEW s \in RowStatuses,
         Adds(r, p, s)
  PROVE  /\ RowsTyped' /\ RowsGrow
         /\ \A q \in Runs : q # r => rows'[q] = rows[q]
         /\ Len(rows[r]) \in Nat /\ DOMAIN rows[r] = 1..Len(rows[r])
         /\ DOMAIN rows'[r] = 1..Len(rows[r]) + 1
         /\ rows'[r][Len(rows[r]) + 1].at = p /\ rows'[r][Len(rows[r]) + 1].status = s
         /\ \A i \in DOMAIN rows[r] : rows'[r][i] = rows[r][i]
<1>1. PICK old \in Seq(RowType) : old = rows[r]
  BY DEF RowsTyped
<1>2. [at |-> p, status |-> s] \in RowType
  BY DEF RowType
<1> DEFINE rec == [at |-> p, status |-> s]
<1>3. rec.at = p /\ rec.status = s
  OBVIOUS
<1> HIDE DEF rec, RowType
<1>4. /\ Append(old, rec) \in Seq(RowType)
      /\ Len(old) \in Nat /\ DOMAIN old = 1..Len(old)
      /\ DOMAIN Append(old, rec) = 1..Len(old) + 1
      /\ Append(old, rec)[Len(old) + 1] = rec
      /\ \A i \in DOMAIN old : Append(old, rec)[i] = old[i]
  BY <1>2 DEF rec
<1>5. rows'[r] = Append(old, rec) /\ \A q \in Runs : q # r => rows'[q] = rows[q]
  BY <1>1 DEF RowsTyped, rec, Adds
<1>6. RowsTyped'
  BY <1>1, <1>4 DEF RowsTyped, rec, Adds
<1>7. RowsGrow
  BY <1>1, <1>4, <1>5 DEF RowsGrow
<1> QED
  BY <1>1, <1>3, <1>4, <1>5, <1>6, <1>7

LEMMA RowClosed ==
  ASSUME RowsTyped, NEW r \in Runs, NEW k \in DOMAIN rows[r], NEW s \in RowStatuses,
         Closes(r, k, s)
  PROVE  /\ RowsTyped' /\ RowsGrow
         /\ \A q \in Runs : q # r => rows'[q] = rows[q]
         /\ DOMAIN rows'[r] = DOMAIN rows[r]
         /\ rows'[r][k].status = s
         /\ \A i \in DOMAIN rows[r] : i # k => rows'[r][i] = rows[r][i]
<1>1. PICK old \in Seq(RowType) : old = rows[r]
  BY DEF RowsTyped
<1> DEFINE new == [old EXCEPT ![k] = [old[k] EXCEPT !.status = s]]
<1>2. new[k].at = old[k].at /\ new[k].status = s /\ new[k] \in RowType
  <2>1. k \in DOMAIN old /\ old[k] \in RowType
    BY <1>1
  <2> QED
    BY <2>1 DEF RowType
<1>3. new \in Seq(RowType) /\ DOMAIN new = DOMAIN old
  BY <1>1, <1>2
<1>4. \A i \in DOMAIN old : i # k => new[i] = old[i]
  OBVIOUS
<1>5. rows' = [rows EXCEPT ![r] = new]
  BY <1>1 DEF Closes
<1> HIDE DEF new
<1>6. rows'[r] = new /\ \A q \in Runs : q # r => rows'[q] = rows[q]
  BY <1>5 DEF RowsTyped
<1>7. RowsTyped'
  BY <1>3, <1>5 DEF RowsTyped
<1>8. RowsGrow
  BY <1>1, <1>2, <1>3, <1>4, <1>6 DEF RowsGrow
<1> QED
  BY <1>1, <1>2, <1>3, <1>4, <1>6, <1>7, <1>8

(* The administrator's cancel closes the rows that are open.                *)
LEMMA RowsCancelled ==
  ASSUME RowsTyped, NEW r \in Runs,
         Cancels(r)
  PROVE  /\ RowsTyped' /\ RowsGrow
         /\ \A q \in Runs : q # r => rows'[q] = rows[q]
         /\ DOMAIN rows'[r] = DOMAIN rows[r]
         /\ \A i \in DOMAIN rows[r] :
              /\ rows'[r][i].at = rows[r][i].at
              /\ rows[r][i].status # "running" => rows'[r][i].status = rows[r][i].status
<1>1. PICK old \in Seq(RowType) : old = rows[r]
  BY DEF RowsTyped
<1> DEFINE new == [i \in DOMAIN old |->
                    IF old[i].status = "running" THEN [old[i] EXCEPT !.status = "cancelled"]
                    ELSE old[i]]
<1>2. \A i \in DOMAIN old :
        /\ new[i].at = old[i].at /\ new[i] \in RowType
        /\ old[i].status # "running" => new[i].status = old[i].status
  <2> TAKE i \in DOMAIN old
  <2>1. old[i] \in RowType
    BY <1>1
  <2> QED
    BY <2>1 DEF RowType, RowStatuses
<1>3. new \in Seq(RowType) /\ DOMAIN new = DOMAIN old
  <2>1. DOMAIN old = 1..Len(old) /\ Len(old) \in Nat
    BY <1>1
  <2>2. new = [i \in 1..Len(old) |-> new[i]] /\ \A i \in 1..Len(old) : new[i] \in RowType
    BY <1>2, <2>1
  <2> HIDE DEF new
  <2> QED
    BY <2>1, <2>2
<1>4. rows' = [rows EXCEPT ![r] = new]
  BY <1>1 DEF Cancels
<1> HIDE DEF new
<1>5. rows'[r] = new /\ \A q \in Runs : q # r => rows'[q] = rows[q]
  BY <1>4 DEF RowsTyped
<1>6. RowsTyped'
  BY <1>3, <1>4 DEF RowsTyped
<1> QED
  BY <1>1, <1>2, <1>3, <1>5, <1>6 DEF RowsGrow

(* A worker that does nothing, and one that becomes idle.                   *)
LEMMA WorkerStays ==
  ASSUME Inv, NEW w \in Workers, WorkerTyped(w), Placed(w), RowsGrow,
         lastRun' \in Nat, lastRun <= lastRun', worker'[w] = worker[w]
  PROVE  WorkerTyped(w)' /\ Placed(w)'
<1>1. WorkerTyped(w)'
  <2>1. lastRun \in Nat /\ 0..lastRun \subseteq 0..lastRun'
    BY RunsAssumption DEF Inv, Inserted
  <2> QED
    BY <2>1 DEF WorkerTyped
<1>2. Placed(w)'
  <2>1. ~At(w, "idle") => worker[w].run \in Runs
    BY RunOf DEF Inv
  <2> QED
    BY <2>1 DEF Placed, RowsGrow, At
<1> QED
  BY <1>1, <1>2

LEMMA IdleTyped ==
  ASSUME NEW w \in Workers, worker'[w] = IdleWorker, lastRun' \in Nat
  PROVE  WorkerTyped(w)' /\ Placed(w)'
<1>1. WorkerTyped(w)'
  BY StepsTyped DEF WorkerTyped, IdleWorker, Phases
<1>2. Placed(w)'
  BY DEF Placed, IdleWorker, At
<1> QED
  BY <1>1, <1>2

(* The worker goes on to the next position, or to the verdict.              *)
LEMMA AdvancedTyped ==
  ASSUME Inv, NEW w \in Workers, WorkerTyped(w), worker[w].at \in Positions,
         NEW STATE f, NEW STATE s, f \in BOOLEAN, s \in BOOLEAN, Advance(w, f, s),
         lastRun' = lastRun
  PROVE  WorkerTyped(w)' /\ Placed(w)'
<1> DEFINE next == worker[w].at + 1
<1>1. next \in 1..Len(Steps) + 1 /\ PhaseAt(next) \in {"loop", "verdict"}
      /\ (PhaseAt(next) = "loop" => next \in Positions)
  BY StepsTyped DEF PhaseAt
<1> HIDE DEF next
<1>2. worker'[w] = [phase |-> PhaseAt(next), run |-> worker[w].run, at |-> next, row |-> 0,
                    failed |-> f, stopped |-> s]
  BY DEF Advance, IdleWorker, Inv, Executed, next
<1>3. WorkerTyped(w)'
  <2>1. worker[w].run \in 0..lastRun
    BY DEF WorkerTyped
  <2>2. next \in 0..Len(Steps) + 1
    BY <1>1, StepsTyped
  <2> QED
    BY <1>1, <1>2, <2>1, <2>2 DEF WorkerTyped, Phases
<1>4. Placed(w)'
  BY <1>1, <1>2 DEF Placed, At
<1> QED
  BY <1>3, <1>4

(* All the workers, when one of them moves.                                 *)
LEMMA OneWorkerMoves ==
  ASSUME Inv, Typed, NEW w \in Workers, RowsGrow,
         \A x \in Workers : x # w => worker'[x] = worker[x],
         lastRun' \in Nat, lastRun <= lastRun',
         WorkerTyped(w)', Placed(w)'
  PROVE  \A x \in Workers : WorkerTyped(x)' /\ Placed(x)'
<1> TAKE x \in Workers
<1>1. CASE x = w
  BY <1>1
<1>2. CASE x # w
  BY <1>2, WorkerStays DEF Typed
<1> QED
  BY <1>1, <1>2

LEMMA RowsStay ==
  ASSUME RowsTyped, rows' = rows
  PROVE  RowsTyped' /\ RowsGrow
BY DEF RowsTyped, RowsGrow

(* A request or a dispatcher: it leaves the workers alone.                  *)
LEMMA WorkersStay ==
  ASSUME Inv, Typed, RowsGrow, worker' = worker, lastRun' \in Nat, lastRun <= lastRun'
  PROVE  \A w \in Workers : WorkerTyped(w)' /\ Placed(w)'
BY WorkerStays DEF Typed

LEMMA TypedAdmin ==
  ASSUME Inv, Inv', Typed, Admin \/ \E t \in Ticks : Cron(t)
  PROVE  Typed'
<1>1. /\ lastRun \in Nat /\ lastRun' \in Nat /\ worker' = worker
      /\ (lastRun' = lastRun \/ lastRun' = lastRun + 1)
  <2>1. lastRun \in Nat /\ lastRun' \in Nat
    BY RunsAssumption DEF Inv, Inserted
  <2> QED
    BY <2>1 DEF Admin, Cron, TriggerInsert, TriggerSend, TriggerSendFails, TriggerSaveTask,
       CancelRead, CancelCommit, CancelRevoke, CronCheck, CronInsert, CronDispatch, CronFails,
       InsertRun, Send, runVars
<1>2. RowsTyped' /\ RowsGrow
  <2>1. CASE rows' = rows
    BY <2>1, RowsStay DEF Typed
  <2>2. CASE CancelCommit
    <3>1. cancel.run \in Runs
      BY <2>2, RunsAssumption DEF CancelCommit, Inv, Requested, Inserted, Runs
    <3> QED
      BY <2>2, <3>1, RowsCancelled DEF CancelCommit, Cancels, Typed
  <2> QED
    BY <2>1, <2>2
       DEF Admin, Cron, TriggerInsert, TriggerSend, TriggerSendFails, TriggerSaveTask,
       CancelRead, CancelRevoke, CronCheck, CronInsert, CronDispatch, CronFails
<1>3. TasksTyped'
  <2> USE DEF TasksTyped, Typed
  <2>1. CASE TriggerInsert
    BY <1>1, <2>1 DEF TriggerInsert
  <2>2. CASE TriggerSend
    BY <2>2 DEF TriggerSend, runVars
  <2>3. CASE TriggerSendFails
    BY <2>3, RunsAssumption DEF TriggerSendFails, runVars, Trouble
  <2>4. CASE TriggerSaveTask
    <3>1. trigger.run \in 1..lastRun
      BY <1>1, <2>4 DEF TriggerSaveTask, Inv, Requested
    <3> QED
      BY <2>4, <3>1 DEF TriggerSaveTask
  <2>5. ASSUME NEW r \in Runs, CancelRead(r) PROVE TasksTyped'
    <3>1. cancel' = [phase |-> "read", run |-> r, task |-> r \in hasTask]
      BY <2>5 DEF CancelRead
    <3>2. cancel'.phase = "read" /\ (cancel'.task => cancel'.run \in hasTask)
      BY <3>1, Zenon
    <3>3. UNCHANGED <<runVars, revoked>> /\ Trouble
      BY <2>5 DEF CancelRead
    <3>4. troubles' \in 0..MaxTroubles /\ UNCHANGED <<lastRun, hasTask, revoked>>
      BY <3>3, RunsAssumption DEF runVars, Trouble
    <3> QED
      BY <3>2, <3>4, Zenon
  <2>6. CASE CancelCommit
    <3>1. /\ UNCHANGED <<runVars, revoked, troubles>>
          /\ cancel' = IdleCancel \/ (cancel.task /\ cancel' = [cancel EXCEPT !.phase = "marked"])
      BY <2>6 DEF CancelCommit
    <3>2. cancel \in [phase: {"idle", "read", "marked"}, run: 0..lastRun, task: BOOLEAN]
      BY DEF Inv, Requested
    <3>3. /\ cancel'.task => cancel.task /\ cancel'.run = cancel.run
          /\ cancel'.phase = "marked" => cancel'.task
      <4>1. CASE cancel' = IdleCancel
        BY <4>1 DEF IdleCancel
      <4>2. CASE cancel' = [cancel EXCEPT !.phase = "marked"] /\ cancel.task
        <5>1. cancel'.task = cancel.task /\ cancel'.run = cancel.run
          BY <3>2, <4>2
        <5> QED
          BY <4>2, <5>1
      <4> QED
        BY <3>1, <4>1, <4>2
    <3> QED
      BY <3>1, <3>3 DEF runVars
  <2>7. CASE CancelRevoke
    <3>1. cancel.task
      BY <2>7 DEF CancelRevoke
    <3> QED
      BY <2>7, <3>1 DEF CancelRevoke, runVars, IdleCancel
  <2>8. ASSUME NEW t \in Ticks, CronCheck(t) \/ CronDispatch(t) PROVE TasksTyped'
    BY <2>8 DEF CronCheck, CronDispatch, runVars, adminVars
  <2>9. ASSUME NEW t \in Ticks, CronInsert(t) PROVE TasksTyped'
    BY <1>1, <2>9 DEF CronInsert, adminVars
  <2>10. ASSUME NEW t \in Ticks, CronFails(t) PROVE TasksTyped'
    BY <2>10, RunsAssumption DEF CronFails, runVars, adminVars, Trouble
  <2> QED
    BY <2>1, <2>2, <2>3, <2>4, <2>5, <2>6, <2>7, <2>8, <2>9, <2>10 DEF Admin, Cron
<1>4. \A w \in Workers : WorkerTyped(w)' /\ Placed(w)'
  BY <1>1, <1>2, WorkersStay
<1> QED
  BY <1>2, <1>3, <1>4 DEF Typed

(* The row an execution finds is the newest of its position.                *)
LEMMA StepRowFound ==
  ASSUME RowsTyped, NEW w \in Workers, worker[w].run \in Runs,
         \E i \in DOMAIN rows[worker[w].run] : rows[worker[w].run][i].at = worker[w].at
  PROVE  /\ StepRow(w) \in DOMAIN rows[worker[w].run]
         /\ rows[worker[w].run][StepRow(w)].at = worker[w].at
         /\ \A j \in DOMAIN rows[worker[w].run] :
              rows[worker[w].run][j].at = worker[w].at => j <= StepRow(w)
         /\ StepRow(w) \in Nat
<1> DEFINE own == {i \in DOMAIN rows[worker[w].run] :
                     rows[worker[w].run][i].at = worker[w].at}
<1>1. PICK old \in Seq(RowType) : old = rows[worker[w].run]
  BY DEF RowsTyped
<1>2. DOMAIN old = 1..Len(old) /\ Len(old) \in Nat
  BY <1>1
<1>3. own \in SUBSET Nat /\ own # {} /\ \A i \in own : i <= Len(old)
  BY <1>1, <1>2
<1>4. \E i \in own : \A j \in own : j <= i
  <2> HIDE DEF own
  <2> QED
    BY <1>2, <1>3, NatGreatest
<1>5. StepRow(w) = CHOOSE i \in own : \A j \in own : j <= i
  BY DEF StepRow
<1>6. StepRow(w) \in own /\ \A j \in own : j <= StepRow(w)
  <2> HIDE DEF own
  <2> QED
    BY <1>4, <1>5
<1> QED
  BY <1>3, <1>6

LEMMA TypedTake ==
  ASSUME Inv, Inv', Typed, NEW w \in Workers, Receive(w)
  PROVE  Typed'
<1>1. PICK r \in Runs : Discard(w, r) \/ Begin(w, r) \/ RefuseInactive(w, r)
  BY DEF Receive
<1>2. /\ UNCHANGED <<workerOnly, rows, troubles>> /\ lastRun \in Nat
      /\ lastRun' = lastRun /\ r <= lastRun
  BY <1>1, Taken, RunsAssumption DEF Discard, Begin, RefuseInactive, workerOnly, runVars, Inv, Inserted
<1>3. RowsTyped' /\ RowsGrow
  BY <1>2, RowsStay DEF Typed
<1>4. TasksTyped'
  BY <1>2 DEF Typed, TasksTyped, workerOnly, runVars, adminVars
<1>5. CASE worker' = worker
  BY <1>2, <1>3, <1>4, <1>5, WorkersStay DEF Typed
<1>6. CASE Begin(w, r)
  <2>1. worker' = [worker EXCEPT ![w] = [IdleWorker EXCEPT
                     !.phase = PhaseAt(1), !.run = r, !.at = 1]]
    BY <1>6 DEF Begin
  <2>2. /\ worker'[w] = [phase |-> PhaseAt(1), run |-> r, at |-> 1, row |-> 0,
                         failed |-> FALSE, stopped |-> FALSE]
        /\ \A x \in Workers : x # w => worker'[x] = worker[x]
    BY <2>1 DEF IdleWorker, Inv, Executed
  <2>3. PhaseAt(1) \in {"loop", "verdict"} /\ (PhaseAt(1) = "loop" => 1 \in Positions)
    BY StepsTyped DEF PhaseAt
  <2>4. WorkerTyped(w)'
    <3>1. r \in 0..lastRun' /\ 1 \in 0..Len(Steps) + 1
      BY <1>2, StepsTyped, RunsAssumption DEF Runs
    <3> QED
      BY <2>2, <2>3, <3>1 DEF WorkerTyped, Phases
  <2>5. Placed(w)'
    BY <2>2, <2>3 DEF Placed, At
  <2> QED
    BY <1>2, <1>3, <1>4, <2>2, <2>4, <2>5, OneWorkerMoves DEF Typed
<1> QED
  BY <1>1, <1>5, <1>6 DEF Discard, RefuseInactive

LEMMA TypedExecute ==
  ASSUME Inv, Inv', Typed, NEW w \in Workers, Execute(w) \/ Interrupt(w)
  PROVE  Typed'
<1>1. /\ UNCHANGED workerOnly /\ lastRun \in Nat /\ lastRun' = lastRun
      /\ ~At(w, "idle") /\ worker[w].run \in Runs /\ WorkerTyped(w) /\ Placed(w)
      /\ RowsTyped /\ TasksTyped
  <2>1. UNCHANGED workerOnly /\ ~At(w, "idle")
    BY DEF Execute, Interrupt, At, SkipStep, InsertStep, FindStep, NoScript, ScriptSucceeds,
       ScriptFails, Verdict, Acknowledge, Raise, LoseDatabase, Terminate, Crash, Executing
  <2> QED
    BY <2>1, RunOf DEF Inv, Typed, workerOnly, runVars
<1>2. TasksTyped'
  <2>1. troubles' = troubles \/ Trouble
    BY DEF Execute, Interrupt, SkipStep, InsertStep, FindStep, NoScript, ScriptSucceeds,
       ScriptFails, Verdict, Acknowledge, Raise, LoseDatabase, Terminate, Crash
  <2>2. troubles' \in 0..MaxTroubles
    BY <1>1, <2>1, RunsAssumption DEF TasksTyped, Trouble
  <2> QED
    BY <1>1, <2>2 DEF TasksTyped, workerOnly, runVars, adminVars
<1>3. \A x \in Workers : x # w => worker'[x] = worker[x]
  BY DEF Execute, Interrupt, SkipStep, InsertStep, FindStep, NoScript, ScriptSucceeds, FailStep,
     ScriptFails, Verdict, Acknowledge, Raise, LoseDatabase, Terminate, Crash, Advance, Inv, Executed
<1>4. ASSUME RowsTyped', RowsGrow, WorkerTyped(w)', Placed(w)' PROVE Typed'
  BY <1>1, <1>2, <1>3, <1>4, OneWorkerMoves DEF Typed
<1>5. worker[w].failed \in BOOLEAN /\ worker[w].stopped \in BOOLEAN
  BY <1>1 DEF WorkerTyped
<1>6. CASE SkipStep(w)
  <2>1. worker[w].at \in Positions
    BY <1>1, <1>6 DEF SkipStep, Placed
  <2>2. RowsTyped' /\ RowsGrow
    BY <1>1, <1>6, <2>1, RowAdded DEF SkipStep, AddRow, Adds, RowStatuses
  <2>3. WorkerTyped(w)' /\ Placed(w)'
    BY <1>1, <1>5, <1>6, <2>1, AdvancedTyped DEF SkipStep
  <2> QED
    BY <1>4, <2>2, <2>3
<1>7. CASE InsertStep(w)
  <2>1. worker[w].at \in Positions
    BY <1>1, <1>7 DEF InsertStep, Placed
  <2>2. Adds(worker[w].run, worker[w].at, "running")
    BY <1>7 DEF InsertStep, AddRow, Adds
  <2>3. /\ RowsTyped' /\ RowsGrow
        /\ \E i \in DOMAIN rows'[worker[w].run] : rows'[worker[w].run][i].at = worker[w].at
    <3>1. /\ RowsTyped' /\ RowsGrow
          /\ Len(rows[worker[w].run]) \in Nat
          /\ DOMAIN rows'[worker[w].run] = 1..Len(rows[worker[w].run]) + 1
          /\ rows'[worker[w].run][Len(rows[worker[w].run]) + 1].at = worker[w].at
      BY <1>1, <2>1, <2>2, RowAdded DEF RowStatuses
    <3> QED
      BY <3>1
  <2>4. /\ worker'[w] = [worker[w] EXCEPT !.phase = "inserted"]
    BY <1>7 DEF InsertStep, Inv, Executed
  <2>5. WorkerTyped(w)'
    BY <1>1, <2>4 DEF WorkerTyped, Phases
  <2>6. /\ worker'[w].phase = "inserted" /\ worker'[w].at = worker[w].at
        /\ worker'[w].run = worker[w].run
    BY <1>1, <2>4 DEF WorkerTyped
  <2>7. Placed(w)'
    BY <2>1, <2>3, <2>6 DEF Placed, At
  <2> QED
    BY <1>4, <2>3, <2>5, <2>7
<1>8. CASE FindStep(w)
  <2>1. /\ worker[w].at \in Positions /\ StepRow(w) \in DOMAIN rows[worker[w].run]
        /\ rows[worker[w].run][StepRow(w)].at = worker[w].at /\ StepRow(w) \in Nat
        /\ rows' = rows
    BY <1>1, <1>8, StepRowFound DEF FindStep, Placed
  <2>2. worker'[w] = [worker[w] EXCEPT !.phase = "script", !.row = StepRow(w)]
    BY <1>8 DEF FindStep, Inv, Executed
  <2>3. WorkerTyped(w)'
    BY <1>1, <2>1, <2>2 DEF WorkerTyped, Phases
  <2>4. /\ worker'[w].phase = "script" /\ worker'[w].at = worker[w].at
        /\ worker'[w].run = worker[w].run /\ worker'[w].row = StepRow(w)
    BY <1>1, <2>2 DEF WorkerTyped
  <2>5. Placed(w)'
    BY <2>1, <2>4 DEF Placed, At
  <2> QED
    BY <1>1, <1>4, <2>1, <2>3, <2>5, RowsStay
<1>9. ASSUME At(w, "script"), NEW s \in {"success", "failed"}, CloseRow(w, s),
             NEW f \in BOOLEAN, NEW t \in BOOLEAN, Advance(w, f, t)
      PROVE  Typed'
  <2>1. worker[w].at \in Positions /\ worker[w].row \in DOMAIN rows[worker[w].run]
    BY <1>1, <1>9 DEF Placed
  <2>2. RowsTyped' /\ RowsGrow
    BY <1>1, <1>9, <2>1, RowClosed DEF CloseRow, Closes, RowStatuses
  <2>3. WorkerTyped(w)' /\ Placed(w)'
    BY <1>1, <1>9, <2>1, AdvancedTyped
  <2> QED
    BY <1>4, <2>2, <2>3
<1>10. CASE NoScript(w) \/ ScriptFails(w)
  <2>1. /\ At(w, "script") /\ CloseRow(w, "failed")
        /\ Advance(w, worker[w].failed \/ Steps[worker[w].at].critical, worker[w].stopped)
    BY <1>10 DEF NoScript, ScriptFails, FailStep
  <2>2. (worker[w].failed \/ Steps[worker[w].at].critical) \in BOOLEAN
    OBVIOUS
  <2> QED
    BY <1>5, <1>9, <2>1, <2>2
<1>11. ASSUME NEW stop \in BOOLEAN, ScriptSucceeds(w, stop) PROVE Typed'
  <2>1. /\ At(w, "script") /\ CloseRow(w, "success")
        /\ Advance(w, worker[w].failed, worker[w].stopped \/ stop)
    BY <1>11 DEF ScriptSucceeds
  <2>2. (worker[w].stopped \/ stop) \in BOOLEAN
    OBVIOUS
  <2> QED
    BY <1>5, <1>9, <2>1, <2>2
<1>12. CASE Verdict(w)
  <2>1. rows' = rows /\ worker'[w] = [worker[w] EXCEPT !.phase = "done"]
    BY <1>12 DEF Verdict, Inv, Executed
  <2>2. WorkerTyped(w)'
    BY <1>1, <2>1 DEF WorkerTyped, Phases
  <2>3. worker'[w].phase = "done"
    BY <1>1, <2>1 DEF WorkerTyped
  <2>4. Placed(w)'
    BY <2>3 DEF Placed, At
  <2> QED
    BY <1>1, <1>4, <2>1, <2>2, <2>4, RowsStay
<1>13. CASE Acknowledge(w) \/ Interrupt(w)
  <2>1. rows' = rows /\ worker' = [worker EXCEPT ![w] = IdleWorker]
    BY <1>13 DEF Acknowledge, Interrupt, Raise, LoseDatabase, Terminate, Crash
  <2>2. WorkerTyped(w)' /\ Placed(w)'
    BY <1>1, <2>1, IdleTyped DEF Inv, Executed
  <2> QED
    BY <1>1, <1>4, <2>1, <2>2, RowsStay
<1> QED
  BY <1>6, <1>7, <1>8, <1>10, <1>11, <1>12, <1>13 DEF Execute

LEMMA TypedStep == Inv /\ Inv' /\ Typed /\ [Next]_vars => Typed'
<1> SUFFICES ASSUME Inv, Inv', Typed, [Next]_vars PROVE Typed'
  OBVIOUS
<1>1. CASE UNCHANGED vars
  <2>1. RowsTyped' /\ RowsGrow
    BY <1>1, RowsStay DEF Typed, vars
  <2>2. TasksTyped'
    BY <1>1 DEF Typed, TasksTyped, vars, runVars, adminVars
  <2>3. worker' = worker /\ lastRun' = lastRun /\ lastRun \in Nat
    BY <1>1, RunsAssumption DEF vars, runVars, Inv, Inserted
  <2> QED
    BY <2>1, <2>2, <2>3, WorkersStay DEF Typed
<1>2. CASE Next
  BY <1>2, TypedAdmin, TypedTake, TypedExecute DEF Next
<1> QED
  BY <1>1, <1>2

(* Every variable keeps its type, for any steps and any number of runs,     *)
(* workers and ticks; in particular the row an execution is about to close  *)
(* exists and is one of the position it is at.                              *)
THEOREM StandaloneTyped == Spec => []TypeOK
<1>1. Inv /\ Typed => TypeOK
  <2> SUFFICES ASSUME Inv, Typed PROVE TypeOK
    OBVIOUS
  <2>1. worker = [w \in Workers |-> worker[w]]
    BY DEF Inv, Executed
  <2>2. worker \in [Workers ->
          [phase: {"idle", "loop", "inserted", "script", "verdict", "done"},
           run: 0..lastRun, at: 0..Len(Steps) + 1, row: Nat,
           failed: BOOLEAN, stopped: BOOLEAN]]
    BY <2>1 DEF Typed, WorkerTyped, Phases
  <2>3. \A w \in Workers : worker[w].phase = "script" =>
          /\ worker[w].row \in DOMAIN rows[worker[w].run]
          /\ rows[worker[w].run][worker[w].row].at = worker[w].at
    BY DEF Typed, Placed, At
  <2>4. /\ lastRun \in 0..MaxRun /\ status \in [Runs -> Active \cup Terminal \cup {"none"}]
        /\ \A r \in Runs : (status[r] = "none") <=> (r > lastRun)
        /\ scheduled \subseteq 1..lastRun /\ queue \in [Runs -> Nat]
    BY DEF Inv, Inserted, Statuses
  <2>5. rows \in [Runs -> Seq([at: Positions,
               status: {"running", "success", "failed", "skipped", "cancelled"}])]
    BY DEF Typed, RowsTyped, RowType, RowStatuses
  <2> QED
    BY <2>2, <2>3, <2>4, <2>5 DEF TypeOK, Typed, TasksTyped, Inv, Requested, Recorded
<1> QED
  BY <1>1, Initially, TypedInit, Step, TypedStep, PTL DEF Spec

-----------------------------------------------------------------------------
(* What a success rests on.  A run that was sent once has one task: its     *)
(* message or the execution that took it, which comes back as a message if  *)
(* the worker dies.                                                         *)

Newest(r, p, i) ==
  /\ i \in DOMAIN rows[r] /\ rows[r][i].at = p
  /\ \A j \in DOMAIN rows[r] : rows[r][j].at = p => j <= i

Good(p) == {"success", "skipped"} \cup (IF Steps[p].critical THEN {} ELSE {"failed"})

Closed(r, p) == \E i \in DOMAIN rows[r] : Newest(r, p, i) /\ rows[r][i].status \in Good(p)

Executes(w, r) == ~At(w, "idle") /\ worker[w].run = r

OneTask(r) ==
  /\ queue[r] <= history.sent[r]
  /\ \A w \in Workers : Executes(w, r) => history.sent[r] > 0 /\ queue[r] = 0
  /\ \A w, x \in Workers : Executes(w, r) /\ Executes(x, r) => w = x

SoFar(w, r) ==
  LET e == worker[w] IN
  /\ status[r] # "success"
  /\ At(w, "script") => Newest(r, e.at, e.row)
  /\ At(w, "verdict") => e.at = Len(Steps) + 1
  /\ ~e.failed => \A p \in Positions : p < e.at => Closed(r, p)

Backed(r) ==
  /\ status[r] = "success" => \A p \in Positions : Closed(r, p)
  /\ \A w \in Workers : Executes(w, r) /\ Executing(w) => SoFar(w, r)

Once(r) == history.sent[r] <= 1 => OneTask(r) /\ Backed(r)

OnceInv == \A r \in Runs : Once(r)

LEMMA OnceInit == Init => OnceInv
<1> SUFFICES ASSUME Init, NEW r \in Runs PROVE OneTask(r) /\ Backed(r)
  BY DEF OnceInv, Once
<1>1. \A w \in Workers : ~Executes(w, r)
  BY DEF Init, Executes, At, IdleWorker
<1>2. queue[r] = 0 /\ history.sent[r] = 0 /\ status[r] = "none"
  BY DEF Init
<1> QED
  BY <1>1, <1>2 DEF OneTask, Backed

LEMMA CountsTyped ==
  ASSUME Inv, NEW r \in Runs
  PROVE  queue[r] \in Nat /\ history.sent[r] \in Nat
BY DEF Inv, Inserted, Recorded

(* The rows of a run that a step leaves alone.                              *)
LEMMA SameRows ==
  ASSUME NEW r \in Runs, rows'[r] = rows[r]
  PROVE  /\ \A p : Closed(r, p) => Closed(r, p)'
         /\ \A p, i : Newest(r, p, i) => Newest(r, p, i)'
BY DEF Closed, Newest, Good

LEMMA AddedCloses ==
  ASSUME RowsTyped, NEW r \in Runs, NEW p \in Positions, NEW s \in RowStatuses,
         Adds(r, p, s)
  PROVE  /\ \A q : q # p /\ Closed(r, q) => Closed(r, q)'
         /\ s \in Good(p) => Closed(r, p)'
         /\ \A q \in Runs : q # r => rows'[q] = rows[q]
<1>1. PICK n \in Nat :
        /\ DOMAIN rows[r] = 1..n /\ DOMAIN rows'[r] = 1..n + 1
        /\ rows'[r][n + 1].at = p /\ rows'[r][n + 1].status = s
        /\ \A i \in 1..n : rows'[r][i] = rows[r][i]
        /\ \A q \in Runs : q # r => rows'[q] = rows[q]
  <2> DEFINE len == Len(rows[r])
  <2>1. /\ len \in Nat /\ DOMAIN rows[r] = 1..len /\ DOMAIN rows'[r] = 1..len + 1
        /\ rows'[r][len + 1].at = p /\ rows'[r][len + 1].status = s
        /\ \A i \in DOMAIN rows[r] : rows'[r][i] = rows[r][i]
        /\ \A q \in Runs : q # r => rows'[q] = rows[q]
    BY RowAdded
  <2> HIDE DEF len
  <2> QED
    BY <2>1
<1>2. ASSUME NEW q, q # p, Closed(r, q) PROVE Closed(r, q)'
  <2>1. PICK i \in 1..n : Newest(r, q, i) /\ rows[r][i].status \in Good(q)
    BY <1>1, <1>2 DEF Closed
  <2>2. Newest(r, q, i)'
    BY <1>1, <1>2, <2>1 DEF Newest
  <2>3. rows'[r][i].status \in Good(q) /\ i \in DOMAIN rows'[r]
    BY <1>1, <2>1
  <2> QED
    BY <2>2, <2>3 DEF Closed, Good
<1>3. ASSUME s \in Good(p) PROVE Closed(r, p)'
  <2>1. Newest(r, p, n + 1)'
    BY <1>1 DEF Newest
  <2>2. n + 1 \in DOMAIN rows'[r] /\ rows'[r][n + 1].status \in Good(p)
    BY <1>1, <1>3
  <2> QED
    BY <2>1, <2>2 DEF Closed, Good
<1> QED
  BY <1>1, <1>2, <1>3

LEMMA ClosedCloses ==
  ASSUME RowsTyped, NEW r \in Runs, NEW p \in Positions, NEW k \in DOMAIN rows[r],
         Newest(r, p, k), NEW s \in RowStatuses, Closes(r, k, s)
  PROVE  /\ \A q : q # p /\ Closed(r, q) => Closed(r, q)'
         /\ s \in Good(p) => Closed(r, p)'
         /\ \A q \in Runs : q # r => rows'[q] = rows[q]
<1>1. k \in DOMAIN rows[r]
  OBVIOUS
<1>2. /\ RowsGrow /\ DOMAIN rows'[r] = DOMAIN rows[r] /\ rows'[r][k].status = s
      /\ \A q \in Runs : q # r => rows'[q] = rows[q]
      /\ \A i \in DOMAIN rows[r] : i # k => rows'[r][i] = rows[r][i]
  BY RowClosed
<1>3. \A i \in DOMAIN rows[r] : rows'[r][i].at = rows[r][i].at
  BY <1>2 DEF RowsGrow
<1>4. \A q, i : Newest(r, q, i) => Newest(r, q, i)'
  BY <1>2, <1>3 DEF Newest
<1>5. ASSUME NEW q, q # p, Closed(r, q) PROVE Closed(r, q)'
  <2>1. PICK i \in DOMAIN rows[r] : Newest(r, q, i) /\ rows[r][i].status \in Good(q)
    BY <1>5 DEF Closed
  <2>2. i # k
    BY <1>5, <2>1 DEF Newest
  <2> QED
    BY <1>2, <1>4, <2>1, <2>2 DEF Closed, Good
<1>6. s \in Good(p) => Closed(r, p)'
  BY <1>1, <1>2, <1>4 DEF Closed, Good
<1> QED
  BY <1>2, <1>5, <1>6

LEMMA CancelledCloses ==
  ASSUME RowsTyped, NEW r \in Runs,
         Cancels(r)
  PROVE  /\ \A p : Closed(r, p) => Closed(r, p)'
         /\ \A p, i : Newest(r, p, i) => Newest(r, p, i)'
         /\ \A q \in Runs : q # r => rows'[q] = rows[q]
<1>1. /\ DOMAIN rows'[r] = DOMAIN rows[r]
      /\ \A q \in Runs : q # r => rows'[q] = rows[q]
      /\ \A i \in DOMAIN rows[r] :
           /\ rows'[r][i].at = rows[r][i].at
           /\ rows[r][i].status # "running" => rows'[r][i].status = rows[r][i].status
  BY RowsCancelled
<1>2. \A p, i : Newest(r, p, i) => Newest(r, p, i)'
  BY <1>1 DEF Newest
<1>3. ASSUME NEW p, Closed(r, p) PROVE Closed(r, p)'
  <2>1. PICK i \in DOMAIN rows[r] : Newest(r, p, i) /\ rows[r][i].status \in Good(p)
    BY <1>3 DEF Closed
  <2>2. rows[r][i].status # "running"
    BY <2>1 DEF Good
  <2> QED
    BY <1>1, <1>2, <2>1, <2>2 DEF Closed, Good
<1> QED
  BY <1>1, <1>2, <1>3

(* A step that begins nothing for the run and leaves its executions alone,  *)
(* but for those it ends.                                                   *)
LEMMA OnceKept ==
  ASSUME Inv, Inv', NEW r \in Runs, Once(r), history'.sent[r] = history.sent[r],
         queue'[r] <= queue[r],
         \A p : Closed(r, p) => Closed(r, p)',
         \A p, i : Newest(r, p, i) => Newest(r, p, i)',
         status'[r] = "success" => status[r] = "success",
         \A w \in Workers : Executes(w, r)' => worker'[w] = worker[w]
  PROVE  Once(r)'
<1> SUFFICES ASSUME history.sent[r] <= 1 PROVE OneTask(r)' /\ Backed(r)'
  BY DEF Once
<1>1. OneTask(r) /\ Backed(r)
  BY DEF Once
<1>2. /\ queue[r] \in Nat /\ history.sent[r] \in Nat
      /\ queue'[r] \in Nat /\ history'.sent[r] \in Nat
  BY DEF Inv, Inserted, Recorded
<1>3. \A w \in Workers : Executes(w, r)' =>
        /\ worker'[w] = worker[w] /\ Executes(w, r)
        /\ \A phase : At(w, phase)' <=> At(w, phase)
        /\ Executing(w)' => Executing(w)
  BY DEF Executes, At, Executing
<1>4. OneTask(r)'
  BY <1>1, <1>2, <1>3 DEF OneTask
<1>5. ASSUME NEW w \in Workers, Executes(w, r)', Executing(w)' PROVE SoFar(w, r)'
  <2>1. SoFar(w, r) /\ worker'[w] = worker[w]
    BY <1>1, <1>3, <1>5 DEF Backed
  <2>2. \A phase : At(w, phase)' <=> At(w, phase)
    BY <1>3, <1>5
  <2> QED
    BY <2>1, <2>2 DEF SoFar
<1>6. Backed(r)'
  BY <1>1, <1>5 DEF Backed
<1> QED
  BY <1>4, <1>6

(* A message is sent: the first one finds no task of the run.               *)
LEMMA OnceSent ==
  ASSUME Inv, Inv', OnceInv, NEW q \in Runs, Send(q), UNCHANGED <<rows, status, worker>>
  PROVE  OnceInv'
<1> SUFFICES ASSUME NEW r \in Runs PROVE Once(r)'
  BY DEF OnceInv
<1>1. /\ queue[r] \in Nat /\ history.sent[r] \in Nat /\ Once(r)
      /\ \A p : Closed(r, p) => Closed(r, p)'
      /\ \A p, i : Newest(r, p, i) => Newest(r, p, i)'
  BY CountsTyped, SameRows DEF OnceInv
<1>2. /\ queue' = [queue EXCEPT ![q] = @ + 1]
      /\ queue'[r] = IF r = q THEN queue[r] + 1 ELSE queue[r]
      /\ history'.sent[r] = IF r = q THEN history.sent[r] + 1 ELSE history.sent[r]
  BY DEF Send, Inv, Inserted, Recorded
<1>3. CASE r # q
  BY <1>1, <1>2, <1>3, OnceKept
<1>4. CASE r = q
  <2> SUFFICES ASSUME history'.sent[r] <= 1 PROVE OneTask(r)' /\ Backed(r)'
    BY DEF Once
  <2>1. history.sent[r] = 0 /\ OneTask(r) /\ Backed(r)
    BY <1>1, <1>2, <1>4 DEF Once
  <2>2. queue[r] = 0 /\ \A w \in Workers : ~Executes(w, r)
    BY <1>1, <2>1 DEF OneTask
  <2>3. \A w \in Workers : ~Executes(w, r)'
    BY <2>2 DEF Executes, At
  <2>4. OneTask(r)'
    BY <1>2, <1>4, <2>1, <2>2, <2>3 DEF OneTask
  <2>5. Backed(r)'
    BY <1>1, <2>1, <2>3 DEF Backed
  <2> QED
    BY <2>4, <2>5
<1> QED
  BY <1>3, <1>4

LEMMA OnceAdmin ==
  ASSUME Inv, Inv', Typed, OnceInv, Admin \/ \E t \in Ticks : Cron(t)
  PROVE  OnceInv'
<1> USE RunsAssumption
<1>1. lastRun \in Nat /\ lastRun <= MaxRun /\ worker' = worker
  BY DEF Inv, Inserted, Admin, Cron, TriggerInsert, TriggerSend, TriggerSendFails,
     TriggerSaveTask, CancelRead, CancelCommit, CancelRevoke, CronCheck, CronInsert,
     CronDispatch, CronFails
<1>2. CASE TriggerSend
  <2>1. trigger.run \in Runs
    BY <1>1, <1>2 DEF TriggerSend, Inv, Requested, Runs
  <2> QED
    BY <1>2, <2>1, OnceSent DEF TriggerSend
<1>3. ASSUME NEW t \in Ticks, CronDispatch(t) PROVE OnceInv'
  <2>1. lastRun \in Runs
    BY <1>1, <1>3 DEF CronDispatch, Inv, Recorded, Runs
  <2> QED
    BY <1>3, <2>1, OnceSent DEF CronDispatch
<1>4. ASSUME UNCHANGED queue, history'.sent = history.sent, rows' = rows \/ CancelCommit,
             \A r \in Runs : status'[r] = "success" => status[r] = "success"
      PROVE  OnceInv'
  <2> SUFFICES ASSUME NEW r \in Runs PROVE Once(r)'
    BY DEF OnceInv
  <2>1. /\ \A p : Closed(r, p) => Closed(r, p)'
        /\ \A p, i : Newest(r, p, i) => Newest(r, p, i)'
    <3>1. CASE rows'[r] = rows[r]
      BY <3>1, SameRows
    <3>2. CASE CancelCommit
      <4>1. cancel.run \in Runs
        BY <1>1, <3>2 DEF CancelCommit, Inv, Requested, Runs
      <4>2. Cancels(cancel.run)
        BY <3>2 DEF CancelCommit, Cancels
      <4>3. CASE r = cancel.run
        BY <4>2, <4>3, CancelledCloses DEF Typed
      <4>4. CASE r # cancel.run
        <5>1. rows'[r] = rows[r]
          BY <4>1, <4>2, <4>4, CancelledCloses DEF Typed
        <5> QED
          BY <5>1, SameRows
      <4> QED
        BY <4>3, <4>4
    <3> QED
      BY <1>4, <3>1, <3>2
  <2>2. queue'[r] <= queue[r] /\ Once(r)
    BY <1>4, CountsTyped DEF OnceInv
  <2> QED
    BY <1>1, <1>4, <2>1, <2>2, OnceKept
<1>5. ASSUME NEW r \in Runs, NEW s, s # "success", status' = [status EXCEPT ![r] = s]
      PROVE  \A q \in Runs : status'[q] = "success" => status[q] = "success"
  BY <1>5 DEF Inv, Inserted
<1>6. CASE TriggerInsert
  <2>1. lastRun + 1 \in Runs
    BY <1>1, <1>6 DEF TriggerInsert, InsertRun, Runs
  <2> QED
    BY <1>4, <1>5, <1>6, <2>1 DEF TriggerInsert, InsertRun
<1>7. CASE TriggerSendFails
  <2>1. trigger.run \in Runs
    BY <1>1, <1>7 DEF TriggerSendFails, Inv, Requested, Runs
  <2> QED
    BY <1>4, <1>5, <1>7, <2>1 DEF TriggerSendFails
<1>8. CASE CancelCommit
  <2>1. cancel.run \in Runs
    BY <1>1, <1>8 DEF CancelCommit, Inv, Requested, Runs
  <2> QED
    BY <1>4, <1>5, <1>8, <2>1 DEF CancelCommit
<1>9. ASSUME NEW t \in Ticks, CronInsert(t) PROVE OnceInv'
  <2>1. lastRun + 1 \in Runs
    BY <1>1, <1>9 DEF CronInsert, InsertRun, Runs
  <2>2. history'.sent = history.sent
    BY <1>9 DEF CronInsert, Inv, Recorded
  <2> QED
    BY <1>4, <1>5, <1>9, <2>1, <2>2 DEF CronInsert, InsertRun
<1>10. CASE TriggerSaveTask \/ CancelRevoke \/ \E r \in Runs : CancelRead(r)
  BY <1>4, <1>10 DEF TriggerSaveTask, CancelRevoke, CancelRead
<1>11. ASSUME NEW t \in Ticks, CronCheck(t) \/ CronFails(t) PROVE OnceInv'
  BY <1>4, <1>11 DEF CronCheck, CronFails
<1> QED
  BY <1>2, <1>3, <1>6, <1>7, <1>8, <1>9, <1>10, <1>11 DEF Admin, Cron

LEMMA ConcludeFails ==
  ASSUME Inv, NEW q \in Runs, Conclude(q, "failed"), NEW r \in Runs
  PROVE  status'[r] = "success" => status[r] = "success"
BY DEF Conclude, Inv, Inserted, Terminal

LEMMA OnceTake ==
  ASSUME Inv, Inv', Typed, OnceInv, NEW w \in Workers, Receive(w)
  PROVE  OnceInv'
<1>1. PICK q \in Runs : Discard(w, q) \/ Begin(w, q) \/ RefuseInactive(w, q)
  BY DEF Receive
<1> SUFFICES ASSUME NEW r \in Runs PROVE Once(r)'
  BY DEF OnceInv
<1>2. /\ queue[r] \in Nat /\ history.sent[r] \in Nat /\ Once(r)
      /\ rows' = rows /\ Take(q) /\ history'.sent = history.sent
      /\ \A p : Closed(r, p) => Closed(r, p)'
      /\ \A p, i : Newest(r, p, i) => Newest(r, p, i)'
  <2>1. rows' = rows /\ Take(q) /\ history'.sent = history.sent
    BY <1>1 DEF Discard, Begin, RefuseInactive, Inv, Recorded
  <2> QED
    BY <2>1, CountsTyped, SameRows DEF OnceInv
<1>3. /\ queue'[r] = IF r = q THEN queue[r] - 1 ELSE queue[r]
      /\ queue'[r] <= queue[r] /\ queue[q] > 0
  BY <1>2 DEF Take, Inv, Inserted
<1>4. CASE Discard(w, q) \/ RefuseInactive(w, q)
  <2>1. status'[r] = "success" => status[r] = "success"
    BY <1>4, ConcludeFails DEF Discard, RefuseInactive
  <2>2. worker' = worker
    BY <1>4 DEF Discard, RefuseInactive
  <2> QED
    BY <1>2, <1>3, <2>1, <2>2, OnceKept
<1>5. CASE Begin(w, q)
  <2>1. worker' = [worker EXCEPT ![w] = [IdleWorker EXCEPT
                     !.phase = PhaseAt(1), !.run = q, !.at = 1]]
    BY <1>5 DEF Begin
  <2>2. /\ worker'[w] = [phase |-> PhaseAt(1), run |-> q, at |-> 1, row |-> 0,
                         failed |-> FALSE, stopped |-> FALSE]
        /\ \A x \in Workers : x # w => worker'[x] = worker[x]
    BY <2>1 DEF IdleWorker, Inv, Executed
  <2>3. /\ status'[r] = IF r = q THEN "running" ELSE status[r]
    BY <1>5 DEF Begin, Inv, Inserted
  <2>4. \A x \in Workers : Executes(x, r)' =>
          (x # w /\ worker'[x] = worker[x] /\ Executes(x, r)) \/ (x = w /\ r = q)
    BY <2>2 DEF Executes, At
  <2>5. CASE r # q
    <3>1. \A x \in Workers : Executes(x, r)' => worker'[x] = worker[x]
      BY <2>4, <2>5
    <3> QED
      BY <1>2, <1>3, <2>3, <2>5, <3>1, OnceKept
  <2>6. CASE r = q
    <3> SUFFICES ASSUME history'.sent[r] <= 1 PROVE OneTask(r)' /\ Backed(r)'
      BY DEF Once
    <3>1. OneTask(r)
      BY <1>2 DEF Once
    <3>2. queue[r] = 1 /\ history.sent[r] = 1 /\ \A x \in Workers : ~Executes(x, r)
      BY <1>2, <1>3, <2>6, <3>1 DEF OneTask
    <3>3. \A x \in Workers : Executes(x, r)' => x = w
      BY <2>4, <3>2
    <3>4. OneTask(r)'
      BY <1>2, <1>3, <2>6, <3>2, <3>3 DEF OneTask
    <3>5. SoFar(w, r)'
      <4>1. PhaseAt(1) \in {"loop", "verdict"} /\ (PhaseAt(1) = "verdict" => 1 = Len(Steps) + 1)
        BY StepsTyped DEF PhaseAt
      <4>2. ~At(w, "script")' /\ (At(w, "verdict")' => worker'[w].at = Len(Steps) + 1)
        BY <2>2, <4>1 DEF At
      <4>3. \A p \in Positions : ~(p < 1)
        BY StepsTyped
      <4> QED
        BY <2>2, <2>3, <2>6, <4>2, <4>3 DEF SoFar
    <3> QED
      BY <2>3, <2>6, <3>3, <3>4, <3>5 DEF Backed
  <2> QED
    BY <2>5, <2>6
<1> QED
  BY <1>1, <1>4, <1>5

(* An execution moves: the other runs are as they were, and nobody else     *)
(* executes its own.                                                        *)
Moves(w, r) ==
  /\ worker[w].run = r /\ ~At(w, "idle") /\ worker'[w].run = r /\ ~At(w, "idle")'
  /\ \A x \in Workers : x # w => worker'[x] = worker[x]
  /\ UNCHANGED <<queue, history>>
  /\ \A q \in Runs : q # r => rows'[q] = rows[q] /\ status'[q] = status[q]

LEMMA OnceMove ==
  ASSUME Inv, Inv', OnceInv, NEW w \in Workers, NEW r \in Runs, Moves(w, r),
         ASSUME history.sent[r] <= 1, Backed(r)
         PROVE  /\ status'[r] = "success" => \A p \in Positions : Closed(r, p)'
                /\ Executing(w)' => SoFar(w, r)'
  PROVE  OnceInv'
<1> SUFFICES ASSUME NEW q \in Runs PROVE Once(q)'
  BY DEF OnceInv
<1>1. /\ queue[q] \in Nat /\ Once(q) /\ UNCHANGED <<queue, history>>
      /\ \A x \in Workers : x # w => worker'[x] = worker[x]
  BY CountsTyped DEF OnceInv, Moves
<1>2. CASE q # r
  <2>1. rows'[q] = rows[q] /\ status'[q] = status[q] /\ ~Executes(w, q)'
    BY <1>2 DEF Moves, Executes
  <2>2. /\ \A p : Closed(q, p) => Closed(q, p)'
        /\ \A p, i : Newest(q, p, i) => Newest(q, p, i)'
    BY <2>1, SameRows
  <2>3. \A x \in Workers : Executes(x, q)' => worker'[x] = worker[x]
    BY <1>1, <2>1
  <2> QED
    BY <1>1, <2>1, <2>2, <2>3, OnceKept
<1>3. CASE q = r
  <2> SUFFICES ASSUME history.sent[r] <= 1 PROVE OneTask(r)' /\ Backed(r)'
    BY <1>1, <1>3 DEF Once
  <2>1. OneTask(r) /\ Backed(r) /\ Executes(w, r)
    BY <1>1, <1>3 DEF Once, Moves, Executes
  <2>2. \A x \in Workers : Executes(x, r)' => Executes(x, r)
    BY <1>1, <2>1 DEF Executes, At
  <2>3. \A x \in Workers : Executes(x, r)' => x = w
    BY <2>1, <2>2 DEF OneTask
  <2>4. OneTask(r)'
    BY <1>1, <2>1, <2>2, <2>3 DEF OneTask
  <2>5. /\ status'[r] = "success" => \A p \in Positions : Closed(r, p)'
        /\ Executing(w)' => SoFar(w, r)'
    BY <2>1
  <2>6. Backed(r)'
    BY <2>3, <2>5 DEF Backed
  <2> QED
    BY <2>4, <2>6
<1> QED
  BY <1>2, <1>3

(* The execution goes past a position: if it has not failed, that position  *)
(* is closed.                                                               *)
LEMMA SoFarAdvanced ==
  ASSUME Inv, NEW w \in Workers, WorkerTyped(w), NEW r \in Runs,
         NEW pos \in Positions, worker[w].at = pos, SoFar(w, r),
         status'[r] = status[r], NEW f \in BOOLEAN, NEW t, Advance(w, f, t),
         f \/ (~worker[w].failed /\ Closed(r, pos)'),
         \A p : p # pos /\ Closed(r, p) => Closed(r, p)'
  PROVE  SoFar(w, r)'
<1> DEFINE next == pos + 1
<1>1. next \in 1..Len(Steps) + 1 /\ PhaseAt(next) \in {"loop", "verdict"}
      /\ (PhaseAt(next) = "verdict" => next = Len(Steps) + 1)
      /\ \A p \in Positions : p < next => p < pos \/ p = pos
  BY StepsTyped DEF PhaseAt
<1> HIDE DEF next
<1>3. worker'[w] = [phase |-> PhaseAt(next), run |-> worker[w].run, at |-> next, row |-> 0,
                    failed |-> f, stopped |-> t]
  BY DEF Advance, IdleWorker, Inv, Executed, next
<1>4. ~At(w, "script")' /\ (At(w, "verdict")' => worker'[w].at = Len(Steps) + 1)
  BY <1>1, <1>3 DEF At
<1>5. ASSUME ~f, NEW p \in Positions, p < next PROVE Closed(r, p)'
  <2>1. CASE p = pos
    BY <1>5, <2>1
  <2>2. CASE p # pos
    <3>1. p < pos
      BY <1>1, <1>5, <2>2
    <3> QED
      BY <1>5, <2>2, <3>1 DEF SoFar
  <2> QED
    BY <2>1, <2>2
<1>6. worker'[w].failed = f /\ worker'[w].at = next
  BY <1>3
<1> QED
  BY <1>4, <1>5, <1>6 DEF SoFar

LEMMA OnceExecute ==
  ASSUME Inv, Inv', Typed, OnceInv, NEW w \in Workers, Execute(w)
  PROVE  OnceInv'
<1>0. PICK r, pos : r = worker[w].run /\ pos = worker[w].at
  OBVIOUS
<1> USE <1>0
<1>1. /\ ~At(w, "idle") /\ r \in Runs /\ WorkerTyped(w) /\ Placed(w) /\ RowsTyped
      /\ Executed
  <2>1. ~At(w, "idle")
    BY DEF Execute, At, SkipStep, InsertStep, FindStep, NoScript, ScriptSucceeds,
       ScriptFails, Verdict, Acknowledge
  <2> QED
    BY <2>1, RunOf DEF Inv, Typed
<1>2. worker[w].failed \in BOOLEAN /\ Executes(w, r)
  BY <1>1 DEF WorkerTyped, Executes
<1>3. UNCHANGED history /\ UNCHANGED queue
  BY DEF Execute, SkipStep, InsertStep, FindStep, NoScript, ScriptSucceeds, ScriptFails,
     Verdict, Acknowledge
(* Rows of the run change, the status does not.                             *)
<1>4. ASSUME NEW rec, worker' = [worker EXCEPT ![w] = rec], rec.run = r, rec.phase # "idle",
             UNCHANGED status, \A q \in Runs : q # r => rows'[q] = rows[q],
             Executing(w),
             ASSUME SoFar(w, r) PROVE SoFar(w, r)'
      PROVE  OnceInv'
  <2>1. worker'[w] = rec /\ \A x \in Workers : x # w => worker'[x] = worker[x]
    BY <1>1, <1>4 DEF Executed
  <2>2. Moves(w, r)
    BY <1>1, <1>3, <1>4, <2>1 DEF Moves, At
  <2>3. ASSUME Backed(r) PROVE status'[r] # "success" /\ SoFar(w, r)'
    <3>1. SoFar(w, r)
      BY <1>2, <1>4, <2>3 DEF Backed
    <3> QED
      BY <1>4, <3>1 DEF SoFar
  <2> QED
    BY <1>1, <2>2, <2>3, OnceMove
<1>5. ASSUME NEW f \in BOOLEAN, NEW t, Advance(w, f, t), UNCHANGED status, Executing(w),
             pos \in Positions, \A q \in Runs : q # r => rows'[q] = rows[q],
             ASSUME SoFar(w, r)
             PROVE  /\ f \/ (~worker[w].failed /\ Closed(r, pos)')
                    /\ \A p : p # pos /\ Closed(r, p) => Closed(r, p)'
      PROVE  OnceInv'
  <2>1. PICK rec : rec = [IdleWorker EXCEPT !.phase = PhaseAt(pos + 1), !.run = r,
                            !.at = pos + 1, !.failed = f, !.stopped = t]
    OBVIOUS
  <2>2. worker' = [worker EXCEPT ![w] = rec]
    BY <1>5, <2>1 DEF Advance
  <2>3. rec.run = r /\ rec.phase # "idle"
    BY <2>1 DEF IdleWorker, PhaseAt
  <2>4. ASSUME SoFar(w, r) PROVE SoFar(w, r)'
    BY <1>1, <1>5, <2>4, SoFarAdvanced
  <2> QED
    BY <1>4, <1>5, <2>2, <2>3, <2>4
<1>6. CASE SkipStep(w)
  <2>1. pos \in Positions /\ Executing(w)
    BY <1>1, <1>6 DEF SkipStep, Placed, Executing, At
  <2>2. Adds(r, pos, "skipped") /\ UNCHANGED status /\ Advance(w, worker[w].failed, worker[w].stopped)
    BY <1>6 DEF SkipStep, AddRow, Adds
  <2>3. /\ Closed(r, pos)' /\ \A p : p # pos /\ Closed(r, p) => Closed(r, p)'
        /\ \A q \in Runs : q # r => rows'[q] = rows[q]
    BY <1>1, <2>1, <2>2, AddedCloses DEF RowStatuses, Good
  <2> QED
    BY <1>2, <1>5, <2>1, <2>2, <2>3
<1>7. CASE InsertStep(w)
  <2>1. pos \in Positions /\ Executing(w)
    BY <1>1, <1>7 DEF InsertStep, Placed, Executing, At
  <2>2. Adds(r, pos, "running") /\ UNCHANGED status
    BY <1>7 DEF InsertStep, AddRow, Adds
  <2>3. /\ \A p : p # pos /\ Closed(r, p) => Closed(r, p)'
        /\ \A q \in Runs : q # r => rows'[q] = rows[q]
    BY <1>1, <2>1, <2>2, AddedCloses DEF RowStatuses
  <2>4. PICK rec : rec = [worker[w] EXCEPT !.phase = "inserted"]
    OBVIOUS
  <2>5. worker' = [worker EXCEPT ![w] = rec]
    BY <1>7, <2>4 DEF InsertStep
  <2>6. rec.phase = "inserted" /\ rec.run = r /\ rec.at = pos /\ rec.failed = worker[w].failed
    BY <1>1, <2>4 DEF WorkerTyped
  <2>7. ASSUME SoFar(w, r) PROVE SoFar(w, r)'
    <3>1. worker'[w] = rec
      BY <1>1, <2>5 DEF Executed
    <3>2. \A p \in Positions : p < pos => p # pos
      BY StepsTyped, <2>1
    <3>3. ~At(w, "script")' /\ ~At(w, "verdict")' /\ worker'[w].at = pos
          /\ worker'[w].failed = worker[w].failed
      BY <2>6, <3>1 DEF At
    <3>4. ~worker[w].failed => \A p \in Positions : p < pos => Closed(r, p)'
      BY <2>3, <2>7, <3>2 DEF SoFar
    <3>5. status'[r] # "success"
      BY <2>2, <2>7 DEF SoFar
    <3> QED
      BY <3>3, <3>4, <3>5 DEF SoFar
  <2> QED
    BY <1>4, <2>1, <2>2, <2>3, <2>5, <2>6, <2>7
<1>8. CASE FindStep(w)
  <2>0. PICK k : k = StepRow(w)
    OBVIOUS
  <2>1. /\ pos \in Positions /\ Executing(w) /\ UNCHANGED <<rows, status>>
        /\ Newest(r, pos, k)
    <3>1. pos \in Positions /\ Executing(w) /\ UNCHANGED <<rows, status>>
      BY <1>1, <1>8 DEF FindStep, Placed, Executing, At
    <3>2. \E i \in DOMAIN rows[r] : rows[r][i].at = pos
      BY <1>1, <1>8 DEF FindStep, Placed
    <3> QED
      BY <1>1, <2>0, <3>1, <3>2, StepRowFound DEF Newest
  <2>2. PICK rec : rec = [worker[w] EXCEPT !.phase = "script", !.row = k]
    OBVIOUS
  <2>3. worker' = [worker EXCEPT ![w] = rec]
    BY <1>8, <2>0, <2>2 DEF FindStep
  <2>4. /\ rec.phase = "script" /\ rec.run = r /\ rec.at = pos /\ rec.row = k
        /\ rec.failed = worker[w].failed
    BY <1>1, <2>2 DEF WorkerTyped
  <2>5. ASSUME SoFar(w, r) PROVE SoFar(w, r)'
    <3>1. worker'[w] = rec
      BY <1>1, <2>3 DEF Executed
    <3>2. /\ \A p : Closed(r, p) => Closed(r, p)'
          /\ Newest(r, pos, k)'
      BY <1>1, <2>1, SameRows
    <3>3. /\ ~At(w, "verdict")' /\ worker'[w].at = pos /\ worker'[w].row = k
          /\ worker'[w].failed = worker[w].failed
      BY <2>4, <3>1 DEF At
    <3>5. status'[r] # "success" /\
          (~worker[w].failed => \A p \in Positions : p < pos => Closed(r, p)')
      BY <2>1, <2>5, <3>2 DEF SoFar
    <3> QED
      BY <2>4, <3>2, <3>3, <3>5 DEF SoFar, Newest
  <2> QED
    BY <1>4, <2>1, <2>3, <2>4, <2>5
<1>9. ASSUME At(w, "script"), NEW s \in {"success", "failed"}, CloseRow(w, s), UNCHANGED status,
             NEW f \in BOOLEAN, NEW t, Advance(w, f, t), f \/ (~worker[w].failed /\ s \in Good(pos))
      PROVE  OnceInv'
  <2>1. pos \in Positions /\ worker[w].row \in DOMAIN rows[r] /\ Executing(w)
    BY <1>1, <1>9 DEF Placed, Executing, At
  <2>2. Closes(r, worker[w].row, s) /\ s \in RowStatuses
    BY <1>9 DEF CloseRow, Closes, RowStatuses
  <2>3. \A q \in Runs : q # r => rows'[q] = rows[q]
    BY <1>1, <2>1, <2>2, RowClosed
  <2>4. ASSUME SoFar(w, r)
        PROVE  /\ f \/ (~worker[w].failed /\ Closed(r, pos)')
               /\ \A p : p # pos /\ Closed(r, p) => Closed(r, p)'
    <3>1. Newest(r, pos, worker[w].row)
      BY <1>9, <2>4 DEF SoFar
    <3>2. /\ \A p : p # pos /\ Closed(r, p) => Closed(r, p)'
          /\ s \in Good(pos) => Closed(r, pos)'
      BY <1>1, <2>1, <2>2, <3>1, ClosedCloses
    <3> QED
      BY <1>9, <3>2
  <2> QED
    BY <1>5, <1>9, <2>1, <2>3, <2>4
<1>10. CASE NoScript(w) \/ ScriptFails(w)
  <2>1. /\ At(w, "script") /\ CloseRow(w, "failed") /\ UNCHANGED status
        /\ Advance(w, worker[w].failed \/ Steps[pos].critical, worker[w].stopped)
    BY <1>10 DEF NoScript, ScriptFails, FailStep
  <2>2. (worker[w].failed \/ Steps[pos].critical) \in BOOLEAN
    OBVIOUS
  <2>3. \/ worker[w].failed \/ Steps[pos].critical
        \/ ~worker[w].failed /\ "failed" \in Good(pos)
    BY <1>2 DEF Good
  <2> QED
    BY <1>9, <2>1, <2>2, <2>3
<1>11. ASSUME NEW stop \in BOOLEAN, ScriptSucceeds(w, stop) PROVE OnceInv'
  <2>1. /\ At(w, "script") /\ CloseRow(w, "success") /\ UNCHANGED status
        /\ Advance(w, worker[w].failed, worker[w].stopped \/ stop)
    BY <1>11 DEF ScriptSucceeds
  <2>2. worker[w].failed \/ (~worker[w].failed /\ "success" \in Good(pos))
    BY DEF Good
  <2> QED
    BY <1>2, <1>9, <2>1, <2>2
<1>12. CASE Verdict(w)
  <2>1. /\ rows' = rows /\ worker'[w] = [worker[w] EXCEPT !.phase = "done"]
        /\ \A x \in Workers : x # w => worker'[x] = worker[x]
        /\ Conclude(r, IF worker[w].failed THEN "failed" ELSE "success")
        /\ At(w, "verdict") /\ Executing(w)
    BY <1>1, <1>12 DEF Verdict, Executed, Executing, At
  <2>2. worker'[w].phase = "done" /\ worker'[w].run = r
    BY <1>1, <2>1 DEF WorkerTyped
  <2>3. /\ \A q \in Runs : q # r => status'[q] = status[q]
        /\ worker[w].failed => status'[r] \in {status[r], "failed"}
    BY <1>1, <2>1 DEF Conclude, Inv, Inserted
  <2>4. Moves(w, r)
    BY <1>1, <1>3, <2>1, <2>2, <2>3 DEF Moves, At
  <2>5. ASSUME Backed(r), status'[r] = "success", NEW p \in Positions PROVE Closed(r, p)'
    <3>1. SoFar(w, r)
      BY <1>2, <2>1, <2>5 DEF Backed
    <3>2. ~worker[w].failed
      BY <2>3, <2>5, <3>1 DEF SoFar
    <3>3. pos = Len(Steps) + 1 /\ p < Len(Steps) + 1
      BY <2>1, <2>5, <3>1, StepsTyped DEF SoFar
    <3>4. Closed(r, p)
      BY <3>1, <3>2, <3>3 DEF SoFar
    <3> QED
      BY <1>1, <2>1, <3>4, SameRows
  <2>6. ~Executing(w)'
    BY <2>2 DEF Executing
  <2> QED
    BY <1>1, <2>4, <2>5, <2>6, OnceMove
<1>13. CASE Acknowledge(w)
  <2> SUFFICES ASSUME NEW q \in Runs PROVE Once(q)'
    BY DEF OnceInv
  <2>1. /\ UNCHANGED <<rows, status>> /\ worker'[w] = IdleWorker
        /\ \A x \in Workers : x # w => worker'[x] = worker[x]
    BY <1>1, <1>13 DEF Acknowledge, Executed
  <2>2. \A x \in Workers : Executes(x, q)' => worker'[x] = worker[x]
    BY <2>1 DEF Executes, At, IdleWorker
  <2>3. Once(q) /\ queue'[q] <= queue[q]
    BY <1>3, CountsTyped DEF OnceInv
  <2>4. /\ \A p : Closed(q, p) => Closed(q, p)'
        /\ \A p, i : Newest(q, p, i) => Newest(q, p, i)'
    BY <2>1, SameRows
  <2> QED
    BY <1>3, <2>1, <2>2, <2>3, <2>4, OnceKept
<1> QED
  BY <1>6, <1>7, <1>8, <1>10, <1>11, <1>12, <1>13 DEF Execute

LEMMA OnceInterrupt ==
  ASSUME Inv, Inv', Typed, OnceInv, NEW w \in Workers, Interrupt(w)
  PROVE  OnceInv'
<1>0. PICK r : r = worker[w].run
  OBVIOUS
<1> USE <1>0
<1> SUFFICES ASSUME NEW q \in Runs PROVE Once(q)'
  BY DEF OnceInv
<1>1. /\ ~At(w, "idle") /\ rows' = rows /\ worker' = [worker EXCEPT ![w] = IdleWorker]
  BY DEF Interrupt, Raise, LoseDatabase, Terminate, Crash, Executing, At
<1>2. /\ r \in Runs /\ worker'[w] = IdleWorker
      /\ \A x \in Workers : x # w => worker'[x] = worker[x]
  BY <1>1, RunOf DEF Inv, Executed
<1>3. /\ \A x \in Workers : Executes(x, q)' =>
           x # w /\ worker'[x] = worker[x] /\ Executes(x, q)
  BY <1>2 DEF Executes, At, IdleWorker
<1>4. /\ Once(q) /\ queue[q] \in Nat /\ history.sent[q] \in Nat
      /\ \A p : Closed(q, p) => Closed(q, p)'
      /\ \A p, i : Newest(q, p, i) => Newest(q, p, i)'
  BY <1>1, CountsTyped, SameRows DEF OnceInv
<1>5. history'.sent = history.sent
  BY DEF Interrupt, Raise, LoseDatabase, Terminate, Crash, Inv, Recorded
<1>6. status'[q] = "success" => status[q] = "success"
  BY <1>2, ConcludeFails DEF Interrupt, Raise, LoseDatabase, Terminate, Crash
<1>7. CASE queue'[q] = queue[q]
  BY <1>3, <1>4, <1>5, <1>6, <1>7, OnceKept
<1>8. CASE Crash(w)
  <2>1. queue'[q] = IF q = r THEN queue[q] + 1 ELSE queue[q]
    BY <1>8 DEF Crash, Inv, Inserted
  <2>2. CASE q = r
    <3> SUFFICES ASSUME history'.sent[q] <= 1 PROVE OneTask(q)' /\ Backed(q)'
      BY DEF Once
    <3>1. OneTask(q) /\ Backed(q) /\ Executes(w, q)
      BY <1>1, <1>4, <1>5, <2>2 DEF Once, Executes
    <3>2. queue[q] = 0 /\ history.sent[q] > 0 /\ \A x \in Workers : ~Executes(x, q)'
      BY <1>3, <3>1 DEF OneTask
    <3>3. OneTask(q)'
      BY <1>4, <1>5, <2>1, <2>2, <3>2 DEF OneTask
    <3>4. Backed(q)'
      BY <1>4, <1>6, <3>1, <3>2 DEF Backed
    <3> QED
      BY <3>3, <3>4
  <2> QED
    BY <1>7, <2>1, <2>2
<1> QED
  BY <1>7, <1>8 DEF Interrupt, Raise, LoseDatabase, Terminate

LEMMA OnceStep == Inv /\ Inv' /\ Typed /\ OnceInv /\ [Next]_vars => OnceInv'
<1> SUFFICES ASSUME Inv, Inv', Typed, OnceInv, [Next]_vars PROVE OnceInv'
  OBVIOUS
<1>1. CASE UNCHANGED vars
  <2> SUFFICES ASSUME NEW r \in Runs PROVE Once(r)'
    BY DEF OnceInv
  <2>1. UNCHANGED <<status, rows, queue, worker, history>>
    BY <1>1 DEF vars
  <2>2. /\ \A p : Closed(r, p) => Closed(r, p)'
        /\ \A p, i : Newest(r, p, i) => Newest(r, p, i)'
    BY <2>1, SameRows
  <2>3. Once(r) /\ queue'[r] <= queue[r]
    BY <2>1, CountsTyped DEF OnceInv
  <2> QED
    BY <2>1, <2>2, <2>3, OnceKept
<1>2. CASE Next
  BY <1>2, OnceAdmin, OnceTake, OnceExecute, OnceInterrupt DEF Next
<1> QED
  BY <1>1, <1>2

(* A success rests on a closed row of every position, for any steps and any *)
(* number of workers, crashes and cancels: an execution that did not fail   *)
(* closed the newest row of every position it went past, and no other one   *)
(* can add a row meanwhile, because a run that was sent once has one task.  *)
THEOREM SuccessCorrect == Spec => []SuccessIsBacked
<1>1. OnceInv => SuccessIsBacked
  <2> SUFFICES ASSUME OnceInv, NEW r \in Runs, status[r] = "success", history.sent[r] = 1,
                      NEW p \in Positions
               PROVE  \E i \in DOMAIN rows[r] :
                        /\ rows[r][i].at = p
                        /\ \A j \in DOMAIN rows[r] : rows[r][j].at = p => j <= i
                        /\ rows[r][i].status \in {"success", "skipped"} \cup
                             (IF Steps[p].critical THEN {} ELSE {"failed"})
    BY DEF SuccessIsBacked
  <2>1. Closed(r, p)
    BY DEF OnceInv, Once, Backed
  <2> QED
    BY <2>1 DEF Closed, Newest, Good
<1> QED
  BY <1>1, Initially, TypedInit, OnceInit, Step, TypedStep, OnceStep, PTL DEF Spec

=============================================================================
