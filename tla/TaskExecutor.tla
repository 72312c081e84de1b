----------------------------- MODULE TaskExecutor -----------------------------
(***************************************************************************)
(* The task executor of the phone client, mobile/src/client.ts: the intake *)
(* of task, control, deployment and remote-session commands around the one *)
(* execution slot.  Node runs one callback at a time, so an action is the  *)
(* code between two awaits; every await is a point where another handler   *)
(* may run.  A "run" is one ActiveTask object; it outlives the slot here,  *)
(* because handlers and the AutoJS engine keep referring to it.            *)
(***************************************************************************)
EXTENDS TaskQueue

CONSTANTS
  NoTask,         \* isStartingTask = false
  Publishing,     \* tasks that cross a commit boundary (TikTok publish)
  QueueLimit,     \* config.tasks.queueLimit
  DeployModes,    \* activation modes of the deployments that may arrive
  LateStart,      \* may a script start after its run has been stopped?
  LateFailure,    \* may "am start" fail after that, or with a script started?
  MaxRuns, MaxDeliveries, MaxCancels, MaxDeploys, MaxSessions, MaxCrashes

ASSUME TaskExecutorAssumption ==
  /\ NoTask \notin Tasks
  /\ Publishing \subseteq Tasks
  /\ QueueLimit \in Nat \ {0}
  /\ DeployModes \subseteq {"GRACEFUL", "FORCE"}
  /\ LateStart \in BOOLEAN /\ LateFailure \in BOOLEAN
  /\ MaxRuns \in Nat /\ MaxDeliveries \in Nat /\ MaxCancels \in Nat
  /\ MaxDeploys \in Nat /\ MaxSessions \in Nat /\ MaxCrashes \in Nat

Runs == 1..MaxRuns
NoRun == 0

VARIABLES
  queue,      \* taskQueue
  nextSeq,    \* queueSequence
  queuedIds,  \* queuedTaskIds
  starting,   \* startingTask / isStartingTask
  active,     \* activeTask: a run or NoRun
  run,        \* the ActiveTask objects created so far
  nRuns,      \* how many of them there are
  stops,      \* terminations in progress: who, on which run, at which await
  wake,       \* a setTimeout(processNextTask, 100) is pending
  deploy,     \* where deploymentManager.handle stands
  remote,     \* remoteSessionPeer.active; a closing session is active, too
  results,    \* history: every result published, with the run it is about
  owed,       \* history: tasks accepted and not answered since
  exiting,    \* process.exit(1) is scheduled
  budget      \* how many external events are left

vars == <<queue, nextSeq, queuedIds, starting, active, run, nRuns, stops,
          wake, deploy, remote, results, owed, exiting, budget>>

Handlers == {"timer", "intake", "launch", "control", "deploy"}
Codes == {"DONE", "SETTLED", "DRAINING", "QUEUE_FULL", "EVICTED",
          "OPERATOR_CANCELLED", "UNKNOWN", "PREEMPTED", "TIMEOUT",
          "FORCED", "LAUNCH_FAILED"}
RunState ==
  [task : Tasks \cup {NoTask},
   launched : BOOLEAN,                          \* launched
   committed : BOOLEAN,                         \* sideEffectCommitted
   timer : BOOLEAN,                             \* timeoutTimer is set
   cleaning : BOOLEAN,                          \* cleanupPromise is set
   failed : BOOLEAN,                            \*   and settled by its catch
   launch : {"none", "pending", "started",      \* the "am start" command:
             "returned"},                       \*   started, not yet returned
   engine : {"off", "on"},                      \* the AutoJS script engine
   checkpoint : {"none", "written", "acked"},   \* COMMITTING and its ack file
   output : BOOLEAN]                            \* the result file exists

NewRun(t) ==
  [task |-> t, launched |-> FALSE, committed |-> FALSE, timer |-> TRUE,
   cleaning |-> FALSE, failed |-> FALSE, launch |-> "pending",
   engine |-> "off", checkpoint |-> "none", output |-> FALSE]

NoRunYet == [NewRun(NoTask) EXCEPT !.timer = FALSE, !.launch = "none"]

Stop == [by : Handlers, run : Runs, pc : {"engine", "package", "cleanup"}]
Phases == {"none", "staging", "stopping", "forcing", "draining",
           "activating", "failing"}
Remotes == {"none", "open", "closing"}

TypeOK ==
  /\ queue \in Seq(Entry)
  /\ nextSeq \in Nat
  /\ queuedIds \subseteq Tasks
  /\ starting \in Tasks \cup {NoTask}
  /\ active \in Runs \cup {NoRun}
  /\ run \in [Runs -> RunState]
  /\ nRuns \in 0..MaxRuns
  /\ active <= nRuns
  /\ \A r \in 1..nRuns : run[r].task \in Tasks
  /\ stops \subseteq Stop
  /\ wake \in BOOLEAN
  /\ deploy \in [phase : Phases, mode : {"GRACEFUL", "FORCE"}]
  /\ remote \in Remotes
  /\ results \subseteq [task : Tasks, run : Runs \cup {NoRun}, code : Codes]
  /\ owed \subseteq Tasks
  /\ exiting \in BOOLEAN
  /\ budget \in [{"deliver", "cancel", "deploy", "session", "crash"} -> Nat]

NoDeploy == [phase |-> "none", mode |-> "GRACEFUL"]
Blocked == deploy.phase # "none"                    \* deploymentBlockId
Busy(handler) == \E s \in stops : s.by = handler

Init ==
  /\ queue = <<>> /\ nextSeq = 0 /\ queuedIds = {}
  /\ starting = NoTask /\ active = NoRun
  /\ run = [r \in Runs |-> NoRunYet] /\ nRuns = 0
  /\ stops = {} /\ wake = FALSE
  /\ deploy = NoDeploy /\ remote = "none"
  /\ results = {} /\ owed = {} /\ exiting = FALSE
  /\ budget = [deliver |-> MaxDeliveries, cancel |-> MaxCancels,
               deploy |-> MaxDeploys, session |-> MaxSessions,
               crash |-> MaxCrashes]

Spend(kind) == budget[kind] > 0 /\ budget' = [budget EXCEPT ![kind] = @ - 1]

\* The index of task t in q, 0 if it does not wait there.
Position(q, t) == SelectInSeq(q, LAMBDA e : e.task = t)

Result(t, r, c) == [task |-> t, run |-> r, code |-> c]

\* publishTaskResult for each result of S.
Publish(S) ==
  /\ results' = results \cup S
  /\ owed' = owed \ {x.task : x \in S}

Unpublished == UNCHANGED <<results, owed>>

-----------------------------------------------------------------------------
(* processNextTask, called with the state its caller has just produced.    *)

CanStart(act, st, blocked, session) ==
  act = NoRun /\ st = NoTask /\ ~blocked /\ session = "none"

ProcessNextTask(q, act, st, blocked, session) ==
  IF q # <<>> /\ CanStart(act, st, blocked, session)
  THEN starting' = Head(q).task /\ queue' = Tail(q)
  ELSE starting' = st /\ queue' = q

Wake ==
  /\ wake
  /\ wake' = FALSE
  /\ ProcessNextTask(queue, active, starting, Blocked, remote)
  /\ UNCHANGED <<nextSeq, queuedIds, active, run, nRuns, stops, deploy,
                 remote, results, owed, exiting, budget>>

-----------------------------------------------------------------------------
(* Pieces of the handlers that stop a run.                                 *)

\* What preemptActiveTask checks before it awaits terminateActiveTask.
Preemptible(r, incoming) ==
  /\ run[r].launched
  /\ ~run[r].cleaning
  /\ CanPreemptRunning(incoming, run[r].task, run[r].committed)

\* The timer is cleared and terminateActiveTask entered, by handler h.
BeginStop(h, r) ==
  /\ stops' = stops \cup {[by |-> h, run |-> r, pc |-> "engine"]}
  /\ run' = [run EXCEPT ![r].timer = FALSE]

\* cleanupActiveTask up to its first await, for the runs of act (none or one).
BeginCleanup(f, act) ==
  [r \in Runs |-> IF r = act
                  THEN [f[r] EXCEPT !.cleaning = TRUE, !.timer = FALSE]
                  ELSE f[r]]

CanUsePackageFallback(allowed, r) == allowed /\ active = r /\ ~run[r].cleaning

\* Seeded defect: the commit boundary is forgotten in the verdict.
VerdictIgnoringCommit(h, committed) ==
  CASE h \in {"intake", "launch"} -> "PREEMPTED"
    [] h = "timer"                -> "TIMEOUT"
    [] h = "control"              -> "OPERATOR_CANCELLED"
    [] h = "deploy"               -> "FORCED"

\* The result a handler publishes for the run it has stopped.
Verdict(h, committed) ==
  IF h \in {"intake", "launch"} THEN "PREEMPTED"
  ELSE IF committed THEN "UNKNOWN"
  ELSE CASE h = "timer"   -> "TIMEOUT"
         [] h = "control" -> "OPERATOR_CANCELLED"
         [] h = "deploy"  -> "FORCED"

\* What a handler does once its termination is over: enqueueTask goes on to
\* processNextTask, the deployment proceeds or fails, the others return.
Resume(h, ok) ==
  /\ IF h = "intake"
     THEN ProcessNextTask(queue, active, starting, Blocked, remote)
     ELSE UNCHANGED <<queue, starting>>
  /\ deploy' = IF h = "deploy"
               THEN [deploy EXCEPT !.phase = IF ok THEN "activating"
                                             ELSE "failing"]
               ELSE deploy

-----------------------------------------------------------------------------
(* Intake of tasks: enqueueTask, one at a time (taskIntakeChain).          *)

RefuseDraining(t) ==
  /\ Blocked
  /\ Publish({Result(t, NoRun, "DRAINING")})
  /\ UNCHANGED <<queue, queuedIds, nextSeq, starting, run, stops>>

IgnoreDuplicate(t) ==
  /\ ~Blocked
  /\ t \in queuedIds
  /\ Unpublished
  /\ UNCHANGED <<queue, queuedIds, nextSeq, starting, run, stops>>

RefuseFull(t) ==
  /\ ~Blocked
  /\ t \notin queuedIds
  /\ Len(queue) >= QueueLimit
  /\ EvictionIndex(queue, t) = 0
  /\ Publish({Result(t, NoRun, "QUEUE_FULL")})
  /\ UNCHANGED <<queue, queuedIds, nextSeq, starting, run, stops>>

\* The task enters queue q, from which it may have evicted some tasks.
Enter(t, q, evicted) ==
  /\ nextSeq' = nextSeq + 1
  /\ queuedIds' = (queuedIds \ evicted) \cup {t}
  /\ results' = results \cup {Result(e, NoRun, "EVICTED") : e \in evicted}
  /\ owed' = (owed \ evicted) \cup {t}
  /\ LET q2 == InsertQueuedTask(q, [task |-> t, seq |-> nextSeq])
     IN  ProcessNextTask(q2, active, starting, Blocked, remote)
  /\ IF active # NoRun /\ Preemptible(active, t)
     THEN BeginStop("intake", active)
     ELSE UNCHANGED <<run, stops>>

Accept(t) ==
  /\ ~Blocked
  /\ t \notin queuedIds
  /\ Len(queue) < QueueLimit
  /\ Enter(t, queue, {})

AcceptEvicting(t) ==
  /\ ~Blocked
  /\ t \notin queuedIds
  /\ Len(queue) >= QueueLimit
  /\ EvictionIndex(queue, t) # 0
  /\ LET k == EvictionIndex(queue, t)
     IN  Enter(t, RemoveAt(queue, k), {queue[k].task})

\* A task command arrives; the broker may deliver one more than once.
EnqueueTask(t) ==
  /\ Spend("deliver")
  /\ ~Busy("intake")
  /\ RefuseDraining(t) \/ IgnoreDuplicate(t) \/ RefuseFull(t)
     \/ Accept(t) \/ AcceptEvicting(t)
  /\ UNCHANGED <<active, nRuns, wake, deploy, remote, exiting>>

-----------------------------------------------------------------------------
(* executeTask: preparation, launch, polling.                              *)

\* Seeded defect: an early end forgets to schedule the next task.
SettleStartingWithoutWake ==
  /\ starting # NoTask
  /\ Publish({Result(starting, NoRun, "SETTLED")})
  /\ queuedIds' = queuedIds \ {starting}
  /\ starting' = NoTask
  /\ UNCHANGED <<queue, nextSeq, active, run, nRuns, stops, deploy, remote,
                 wake, exiting, budget>>

\* The task ends before it reaches AutoJS: rejected, expired, blocked by the
\* network policy, answered from the ledger, or executed by the client itself.
\* When the input method cannot be restored the client exits instead of going
\* on with the queue.
SettleStarting ==
  /\ starting # NoTask
  /\ Publish({Result(starting, NoRun, "SETTLED")})
  /\ queuedIds' = queuedIds \ {starting}
  /\ starting' = NoTask
  /\ \/ wake' = TRUE /\ UNCHANGED <<exiting, budget>>
     \/ exiting' = TRUE /\ Spend("crash") /\ UNCHANGED wake
  /\ UNCHANGED <<queue, nextSeq, active, run, nRuns, stops, deploy, remote>>

\* Seeded defect: preparation goes on after the task has been settled.
ActivateRunUnguarded ==
  /\ nRuns < MaxRuns
  /\ nRuns' = nRuns + 1
  /\ run' = [run EXCEPT ![nRuns + 1] = NewRun(starting)]
  /\ active' = nRuns + 1
  /\ starting' = NoTask
  /\ UNCHANGED <<queue, nextSeq, queuedIds, stops, wake, deploy, remote,
                 results, owed, exiting, budget>>

\* The script is written; the run takes the slot and "am start" is issued.
ActivateRun ==
  /\ starting # NoTask
  /\ nRuns < MaxRuns
  /\ nRuns' = nRuns + 1
  /\ run' = [run EXCEPT ![nRuns + 1] = NewRun(starting)]
  /\ active' = nRuns + 1
  /\ starting' = NoTask
  /\ UNCHANGED <<queue, nextSeq, queuedIds, stops, wake, deploy, remote,
                 results, owed, exiting, budget>>

Current(r) == active = r /\ ~run[r].cleaning

\* AutoJS receives the intent and the script begins.
EngineStarts(r) ==
  /\ run[r].launch = "pending"
  /\ Current(r) \/ LateStart
  /\ run' = [run EXCEPT ![r].launch = "started", ![r].engine = "on"]
  /\ UNCHANGED <<queue, nextSeq, queuedIds, starting, active, nRuns, stops,
                 wake, deploy, remote, results, owed, exiting, budget>>

\* taskQueue.find((queued) => canPreemptRunning(queued.request, request))
PreemptorWaits(r) ==
  \E t \in Waiting(queue) : CanPreemptRunning(t, run[r].task, FALSE)

\* "am start" has succeeded: the run becomes preemptible, and is preempted at
\* once when a waiting task asks for it.
LaunchReturns(r) ==
  /\ run[r].launch = "started"
  /\ LET preempted == Current(r) /\ PreemptorWaits(r) /\ ~run[r].committed
     IN  /\ run' = [run EXCEPT ![r].launch = "returned",
                               ![r].launched = Current(r) \/ @,
                               ![r].timer = @ /\ ~preempted]
         /\ stops' = IF preempted
                     THEN stops \cup {[by |-> "launch", run |-> r,
                                       pc |-> "engine"]}
                     ELSE stops
  /\ UNCHANGED <<queue, nextSeq, queuedIds, starting, active, nRuns, wake,
                 deploy, remote, results, owed, exiting, budget>>

\* "am start" has failed, or its outcome was not seen.  The handler does not
\* ask whether its run is still the active one: it cleans up whatever is.
LaunchFails(r) ==
  /\ \/ run[r].launch = "pending" /\ Current(r)
     \/ run[r].launch \in {"pending", "started"} /\ LateFailure
  /\ run' = BeginCleanup([run EXCEPT ![r].launch = "returned"], active)
  /\ Publish({Result(run[r].task, r, "LAUNCH_FAILED")})
  /\ UNCHANGED <<queue, nextSeq, queuedIds, starting, active, nRuns, stops,
                 wake, deploy, remote, exiting, budget>>

\* The poll reads the COMMITTING checkpoint, before anything else it reads.
PollCheckpoint(r) ==
  /\ Current(r)
  /\ run[r].checkpoint = "written"
  /\ ~run[r].committed
  /\ run' = [run EXCEPT ![r].committed = TRUE]
  /\ UNCHANGED <<queue, nextSeq, queuedIds, starting, active, nRuns, stops,
                 wake, deploy, remote, results, owed, exiting, budget>>

\* The review accepts: the script is told to go ahead.  (A review that
\* rejects leaves the checkpoint unacknowledged.)
AckCheckpoint(r) ==
  /\ Current(r)
  /\ run[r].checkpoint = "written"
  /\ run[r].committed
  /\ run' = [run EXCEPT ![r].checkpoint = "acked"]
  /\ UNCHANGED <<queue, nextSeq, queuedIds, starting, active, nRuns, stops,
                 wake, deploy, remote, results, owed, exiting, budget>>

\* The poll reads the result file, well formed or not.
PollResult(r) ==
  /\ Current(r)
  /\ run[r].output
  /\ run[r].checkpoint = "none" \/ run[r].committed
  /\ Publish({Result(run[r].task, r, "DONE")})
  /\ run' = BeginCleanup(run, r)
  /\ UNCHANGED <<queue, nextSeq, queuedIds, starting, active, nRuns, stops,
                 wake, deploy, remote, exiting, budget>>

\* The script in AutoJS: it asks to commit, writes its result, and ends (an
\* engine killed by Android ends without a result).
WriteCheckpoint(r) ==
  /\ run[r].engine = "on" /\ ~run[r].output
  /\ run[r].task \in Publishing
  /\ run[r].checkpoint = "none"
  /\ run' = [run EXCEPT ![r].checkpoint = "written"]

WriteResult(r) ==
  /\ run[r].engine = "on" /\ ~run[r].output
  /\ run' = [run EXCEPT ![r].output = TRUE]

EngineExits(r) ==
  /\ run[r].engine = "on"
  /\ run' = [run EXCEPT ![r].engine = "off"]

ScriptStep(r) ==
  /\ WriteCheckpoint(r) \/ WriteResult(r) \/ EngineExits(r)
  /\ UNCHANGED <<queue, nextSeq, queuedIds, starting, active, nRuns, stops,
                 wake, deploy, remote, results, owed, exiting, budget>>

-----------------------------------------------------------------------------
(* cleanupActiveTask after its first await.                                *)

\* Seeded defect: the finished task stays in the duplicate filter.
CleanupDoneKeepsId ==
  /\ active # NoRun
  /\ run[active].cleaning /\ ~run[active].failed
  /\ active' = NoRun
  /\ wake' = TRUE
  /\ UNCHANGED <<queue, nextSeq, queuedIds, starting, run, nRuns, stops,
                 deploy, remote, results, owed, exiting, budget>>

CleanupDone ==
  /\ active # NoRun
  /\ run[active].cleaning /\ ~run[active].failed
  /\ queuedIds' = queuedIds \ {run[active].task}
  /\ active' = NoRun
  /\ wake' = TRUE
  /\ UNCHANGED <<queue, nextSeq, starting, run, nRuns, stops, deploy,
                 remote, results, owed, exiting, budget>>

\* The input method cannot be restored: the client exits, the slot stays taken.
CleanupFails ==
  /\ active # NoRun
  /\ run[active].cleaning /\ ~run[active].failed
  /\ Spend("crash")
  /\ exiting' = TRUE
  /\ run' = [run EXCEPT ![active].failed = TRUE]
  /\ UNCHANGED <<queue, nextSeq, queuedIds, starting, active, nRuns, stops,
                 wake, deploy, remote, results, owed>>

-----------------------------------------------------------------------------
(* Terminations: timeoutActiveTask, preemptActiveTask, handleTaskControl   *)
(* and forceStopActiveTaskForDeployment around terminateActiveTask.        *)

\* timeoutActiveTask is entered; a timer of a run that has left does nothing.
TimerFires(r) ==
  /\ run[r].timer
  /\ IF active = r
     THEN BeginStop("timer", r)
     ELSE /\ run' = [run EXCEPT ![r].timer = FALSE]
          /\ UNCHANGED stops
  /\ UNCHANGED <<queue, nextSeq, queuedIds, starting, active, nRuns, wake,
                 deploy, remote, results, owed, exiting, budget>>

\* terminateActiveTask returned true to the handler of s; f is run after it.
Stopped(s, f) ==
  IF active = s.run
  THEN /\ Publish({Result(run[s.run].task, s.run,
                          Verdict(s.by, run[s.run].committed))})
       /\ run' = BeginCleanup(f, s.run)
       /\ stops' = (stops \ {s}) \cup
            (IF s.by \in {"timer", "launch"} THEN {}
             ELSE {[s EXCEPT !.pc = "cleanup"]})
       /\ UNCHANGED <<queue, starting, deploy>>
  ELSE /\ run' = f
       /\ stops' = stops \ {s}
       /\ Resume(s.by, active = NoRun)
       /\ Unpublished

\* Seeded defect: a stop that failed does not arm the timer again.
NotStoppedNotRearmed(s, f) ==
  /\ run' = f
  /\ stops' = stops \ {s}
  /\ Resume(s.by, FALSE)
  /\ Unpublished

\* terminateActiveTask returned false: the timer is armed again, except by a
\* deployment.
NotStopped(s, f) ==
  /\ run' = IF s.by = "timer" \/ (s.by # "deploy" /\ active = s.run)
            THEN [f EXCEPT ![s.run].timer = TRUE] ELSE f
  /\ stops' = stops \ {s}
  /\ Resume(s.by, FALSE)
  /\ Unpublished

StopUnchanged ==
  UNCHANGED <<nextSeq, queuedIds, active, nRuns, wake, remote, exiting, budget>>

\* stopActiveTaskEngine found exactly the one engine and stopped it.
EngineStopSucceeds(s) ==
  /\ s.pc = "engine"
  /\ run[s.run].engine = "on"
  /\ Stopped(s, [run EXCEPT ![s.run].engine = "off"])
  /\ StopUnchanged

\* Seeded defect: the verdict of the stop script is not looked at.
EngineStopAssumed(s) ==
  /\ s.pc = "engine"
  /\ \E e \in {run[s.run].engine, "off"} :
       Stopped(s, [run EXCEPT ![s.run].engine = e])
  /\ UNCHANGED <<nextSeq, queuedIds, active, nRuns, wake, remote, exiting,
                 budget>>

\* It did not, or did too late; the whole package may be stopped instead.
EngineStopFails(s) ==
  /\ s.pc = "engine"
  /\ \E e \in {run[s.run].engine, "off"} :
       LET f == [run EXCEPT ![s.run].engine = e]
       IN  IF CanUsePackageFallback(s.by # "control", s.run)
           THEN /\ run' = f
                /\ stops' = (stops \ {s}) \cup {[s EXCEPT !.pc = "package"]}
                /\ Unpublished
                /\ UNCHANGED <<queue, starting, deploy>>
           ELSE NotStopped(s, f)
  /\ StopUnchanged

\* am force-stop ends every script AutoJS is running.
AllEnginesOff == [r \in Runs |-> [run[r] EXCEPT !.engine = "off"]]

PackageStopSucceeds(s) ==
  /\ s.pc = "package"
  /\ Stopped(s, AllEnginesOff)
  /\ StopUnchanged

\* The stop fails, or the accessibility service cannot be restored after it.
PackageStopFails(s) ==
  /\ s.pc = "package"
  /\ NotStopped(s, run) \/ NotStopped(s, AllEnginesOff)
  /\ StopUnchanged

\* The handler has awaited the cleanup of the run it stopped.
CleanupAwaited(s) ==
  /\ s.pc = "cleanup"
  /\ active # s.run \/ run[s.run].failed
  /\ stops' = stops \ {s}
  /\ \E recovered \in BOOLEAN : Resume(s.by, active = NoRun /\ recovered)
  /\ UNCHANGED run
  /\ Unpublished
  /\ StopUnchanged

-----------------------------------------------------------------------------
(* handleTaskControl, one command at a time.                               *)

\* Seeded defect: a cancelled waiting task gets no result.
CancelQueuedSilently(t) ==
  LET k == Position(queue, t)
  IN  /\ ~Busy("control")
      /\ k # 0
      /\ Spend("cancel")
      /\ queue' = RemoveAt(queue, k)
      /\ queuedIds' = queuedIds \ {t}
      /\ UNCHANGED <<nextSeq, starting, active, run, nRuns, stops, wake,
                     deploy, remote, results, owed, exiting>>

CancelQueued(t) ==
  LET k == Position(queue, t)
  IN  /\ ~Busy("control")
      /\ k # 0
      /\ Spend("cancel")
      /\ queue' = RemoveAt(queue, k)
      /\ queuedIds' = queuedIds \ {t}
      /\ Publish({Result(t, NoRun, "OPERATOR_CANCELLED")})
      /\ UNCHANGED <<nextSeq, starting, active, run, nRuns, stops, wake,
                     deploy, remote, exiting>>

\* canCancelActiveTask
CanCancelActiveTask(t) ==
  /\ active # NoRun
  /\ run[active].task = t
  /\ run[active].launched
  /\ ~run[active].cleaning

CancelActive(t) ==
  /\ ~Busy("control")
  /\ Position(queue, t) = 0
  /\ CanCancelActiveTask(t)
  /\ Spend("cancel")
  /\ BeginStop("control", active)
  /\ UNCHANGED <<queue, nextSeq, queuedIds, starting, active, nRuns, wake,
                 deploy, remote, results, owed, exiting>>

-----------------------------------------------------------------------------
(* Deployments: DeploymentManager.handle with the hooks of client.ts.      *)

\* remoteSessionPeer.close: the session is over for both sides, but active
\* until its last event is delivered or 250 ms have passed.
Closing(session) == IF session = "open" THEN "closing" ELSE session

\* Seeded defect: the deployment leaves the remote session open.
BeginDeployBesideRemote(mode) ==
  /\ ~Blocked
  /\ Spend("deploy")
  /\ deploy' = [phase |-> "staging", mode |-> mode]
  /\ queue' = <<>>
  /\ queuedIds' = queuedIds \ Waiting(queue)
  /\ Publish({Result(t, NoRun, "DRAINING") : t \in Waiting(queue)})
  /\ UNCHANGED <<nextSeq, starting, active, run, nRuns, stops, wake,
                 remote, exiting>>

\* The command is accepted: the intake is blocked, the remote session closed
\* and the queue answered.
BeginDeploy(mode) ==
  /\ ~Blocked
  /\ Spend("deploy")
  /\ deploy' = [phase |-> "staging", mode |-> mode]
  /\ remote' = Closing(remote)
  /\ queue' = <<>>
  /\ queuedIds' = queuedIds \ Waiting(queue)
  /\ Publish({Result(t, NoRun, "DRAINING") : t \in Waiting(queue)})
  /\ UNCHANGED <<nextSeq, starting, active, run, nRuns, stops, wake, exiting>>

ToPhase(from, to) ==
  /\ deploy.phase = from
  /\ deploy' = [deploy EXCEPT !.phase = to]
  /\ UNCHANGED <<queue, nextSeq, queuedIds, starting, active, nRuns, wake,
                 remote, results, owed, exiting, budget>>

\* stage() is over, with the release installed or with an error.
Staged ==
  /\ \/ ToPhase("staging", IF deploy.mode = "FORCE" THEN "stopping"
                           ELSE "draining")
     \/ ToPhase("staging", "failing")
  /\ UNCHANGED <<run, stops>>

IsTaskExecutorIdle == active = NoRun /\ starting = NoTask

\* waitForIdle: the executor is idle, or the drain deadline passes.
Drain ==
  /\ \/ ToPhase("draining", "activating") /\ IsTaskExecutorIdle
     \/ ToPhase("draining", "failing") /\ ~IsTaskExecutorIdle
  /\ UNCHANGED <<run, stops>>

\* forceStopActiveTaskForDeployment with nothing to stop: the device is
\* recovered, or a task was still being prepared after ten seconds.
ForceWithoutRun ==
  /\ active = NoRun
  /\ \/ ToPhase("stopping", "activating") /\ starting = NoTask
     \/ ToPhase("stopping", "failing")
  /\ UNCHANGED <<run, stops>>

ForceStop ==
  /\ active # NoRun
  /\ ToPhase("stopping", "forcing")
  /\ BeginStop("deploy", active)

\* An event that nobody acknowledges fails the deployment.
ActivationFails ==
  /\ ToPhase("activating", "failing")
  /\ UNCHANGED <<run, stops>>

\* unblockTaskIntake
EndFailedDeploy ==
  /\ deploy.phase = "failing"
  /\ deploy' = NoDeploy
  /\ ProcessNextTask(queue, active, starting, FALSE, remote)
  /\ UNCHANGED <<nextSeq, queuedIds, active, run, nRuns, stops, wake,
                 remote, results, owed, exiting, budget>>

-----------------------------------------------------------------------------
(* The remote session, and the end of the process.                         *)

IsDeviceControlBusy == active # NoRun \/ starting # NoTask

OpenRemote ==
  /\ remote = "none" /\ ~Blocked
  /\ ~IsDeviceControlBusy
  /\ Spend("session")
  /\ remote' = "open"
  /\ UNCHANGED <<queue, nextSeq, queuedIds, starting, active, run, nRuns,
                 stops, wake, deploy, results, owed, exiting>>

\* The session ends: its lease, one of its sockets, or the operator's wish.
CloseRemote ==
  /\ remote = "open"
  /\ remote' = "closing"
  /\ UNCHANGED <<queue, nextSeq, queuedIds, starting, active, run, nRuns,
                 stops, wake, deploy, results, owed, exiting, budget>>

\* The last event is delivered or given up: onInactive.
RemoteClosed ==
  /\ remote = "closing"
  /\ remote' = "none"
  /\ ProcessNextTask(queue, active, starting, Blocked, "none")
  /\ UNCHANGED <<nextSeq, queuedIds, active, run, nRuns, stops, wake,
                 deploy, results, owed, exiting, budget>>

\* A new client process: what was in memory is gone; AutoJS runs on.
Restarted ==
  /\ queue' = <<>> /\ queuedIds' = {} /\ starting' = NoTask
  /\ active' = NoRun /\ stops' = {} /\ wake' = FALSE
  /\ deploy' = NoDeploy /\ remote' = "none" /\ exiting' = FALSE
  /\ run' = [r \in Runs |-> [run[r] EXCEPT !.timer = FALSE,
                                           !.launch = "returned"]]
  /\ UNCHANGED <<nextSeq, nRuns, results, owed>>

Crash == Spend("crash") /\ Restarted
Exit == exiting /\ Restarted /\ UNCHANGED budget

\* requestSupervisorActivation: exit code 98.
Activate == deploy.phase = "activating" /\ Restarted /\ UNCHANGED budget

-----------------------------------------------------------------------------
External ==
  \/ \E t \in Tasks : EnqueueTask(t) \/ CancelQueued(t) \/ CancelActive(t)
  \/ \E mode \in DeployModes : BeginDeploy(mode)
  \/ OpenRemote
  \/ Crash

Launch(r) == EngineStarts(r) \/ LaunchReturns(r) \/ LaunchFails(r)
Poll(r) == PollCheckpoint(r) \/ AckCheckpoint(r) \/ PollResult(r)
Deployment ==
  Staged \/ Drain \/ ForceWithoutRun \/ ForceStop \/ ActivationFails
  \/ EndFailedDeploy \/ Activate
StopSucceeds(s) == EngineStopSucceeds(s) \/ PackageStopSucceeds(s)
StopFails(s) == EngineStopFails(s) \/ PackageStopFails(s)

Next ==
  \/ External
  \/ Wake \/ SettleStarting \/ ActivateRun
  \/ CleanupDone \/ CleanupFails
  \/ \E r \in 1..nRuns : Launch(r) \/ Poll(r) \/ ScriptStep(r) \/ TimerFires(r)
  \/ \E s \in stops : StopSucceeds(s) \/ StopFails(s) \/ CleanupAwaited(s)
  \/ Deployment \/ CloseRemote \/ RemoteClosed \/ Exit

Spec == Init /\ [][Next]_vars

-----------------------------------------------------------------------------
(* Properties.                                                             *)

\* The execution slot has one owner: a task being prepared excludes a running
\* one, and neither exists beside a remote session that is open or closing
\* (the guards of processNextTask and of the session's isDeviceControlBusy).
SlotExclusive ==
  /\ starting # NoTask => active = NoRun /\ remote = "none"
  /\ active # NoRun => remote = "none"

\* The task, if any, that holds the slot.
Holder ==
  ({starting} \ {NoTask}) \cup
    (IF active = NoRun THEN {} ELSE {run[active].task})

\* queuedTaskIds, which enqueueTask trusts to reject duplicates, names exactly
\* the tasks in the queue and in the slot, and none of them is there twice.
DedupExact ==
  /\ queuedIds = Waiting(queue) \cup Holder
  /\ Waiting(queue) \cap Holder = {}
  /\ Distinct(queue)

\* The queue never exceeds its limit and stays sorted by rank, then arrival,
\* whatever mixture of insertions, evictions and cancellations has happened.
QueueDiscipline == Len(queue) <= QueueLimit /\ Ordered(queue)

\* A deployment that asks the supervisor for activation finds the phone idle:
\* nothing waits since it began, nothing is prepared, runs or is cleaned up.
ActivationIdle ==
  /\ Blocked => queue = <<>>
  /\ deploy.phase = "activating" => IsTaskExecutorIdle

\* A remote session and a deployment exclude each other, from the moment the
\* deployment is accepted until it has been activated or has failed: all that
\* may be left of a session is the delivery of its last event.
DeployWithoutRemote == Blocked => remote # "open"

\* The phone does one thing at a time: a task, a remote session or the activation
\* of a deployment, whichever of them asked first and whatever was cancelled,
\* preempted or restarted in between.
ExclusiveUse == SlotExclusive /\ ActivationIdle /\ DeployWithoutRemote

\* A waiting task never depends on an event that need not come: when nothing
\* holds the queue back, a call of processNextTask is already scheduled.
NoLostWakeup ==
  queue # <<>> /\ CanStart(active, starting, Blocked, remote) =>
    wake \/ exiting

\* A task accepted by enqueueTask is not dropped without a result: as long as
\* nobody was told how it ended, the executor still tracks it.
NoSilentDrop == owed \subseteq queuedIds

\* A run reported as timed out, cancelled or forced, with no word about a side
\* effect, was never told to commit one, and never will be.
CommitTruthful ==
  \A x \in results :
    x.code \in {"TIMEOUT", "OPERATOR_CANCELLED", "FORCED"} /\ x.run # NoRun =>
      run[x.run].checkpoint # "acked"

\* A task whose start was seen, and which has been answered, has no script at
\* work beside the tasks after it: no handler answers for a run whose script it
\* has not seen end or stopped, whichever of them came first and whatever launch,
\* crash or deployment came between.
StoppedForGood ==
  \A x \in results :
    x.run # NoRun /\ run[x.run].launched =>
      ~(run[x.run].engine = "on" /\ ~run[x.run].output)

\* What the documents say and the code does not guarantee: at most one script is
\* at work in AutoJS ("only one script runs at a time", README.md:20), a script
\* that has written its result not counted.  One that starts late breaks it.
OneScript ==
  Cardinality({r \in Runs : run[r].engine = "on" /\ ~run[r].output}) <= 1

\* Nor this: a preemption never ends a run past its commit boundary, "tasks past an
\* irreversible side-effect boundary must not be preempted"
\* (mobile/test/task-queue.test.ts:80).
PreemptionBeforeCommit ==
  \A x \in results : x.code = "PREEMPTED" => run[x.run].checkpoint # "acked"

-----------------------------------------------------------------------------
(* Progress.  Node calls every due timer and every settled promise, and    *)
(* commands started with su return; stops that are tried again and again   *)
(* succeed at last.  Scripts, the broker and the operator owe nothing.     *)

Fairness ==
  /\ WF_vars(Wake) /\ WF_vars(SettleStarting \/ ActivateRun)
  /\ WF_vars(CleanupDone) /\ WF_vars(Deployment)
  /\ WF_vars(CloseRemote \/ RemoteClosed)
  /\ WF_vars(\E r \in 1..nRuns : Launch(r))
  /\ WF_vars(\E r \in 1..nRuns : TimerFires(r))
  /\ WF_vars(\E s \in stops : StopSucceeds(s) \/ StopFails(s) \/ CleanupAwaited(s))
  /\ SF_vars(\E s \in stops : StopSucceeds(s))

FairSpec == Spec /\ Fairness

EveryTaskAnswered == \A t \in Tasks : t \in owed ~> t \notin owed

\* No run keeps the slot for ever: "automatically kills process upon timeout"
\* (README.md:22).  Not if a deployment is forced and its stop fails.
SlotReleased == \A r \in Runs : active = r ~> active # r

\* Every accepted task is answered in the end and the slot is always given back,
\* also when a script hangs or starts late, a stop fails at first (its timer has
\* to be armed again), a preemption crosses the timeout or the end of the script,
\* or a remote session holds the queue up between two tasks.  Its run has no
\* deployment, cancellation, restart or launch that fails late.
Progress == EveryTaskAnswered /\ SlotReleased
=============================================================================
