# Verification of one-autojs6

one-autojs6 runs scripts on Android phones. A server (`pc/`) sends a phone a
task over MQTT; a Node.js client on the phone (`mobile/src/`) queues it, wraps
it in an AutoJS6 script, starts that script through a root shell, and reports
how it ended. A supervisor on the phone (`mobile/bootstrap/`) keeps the client
alive and replaces it by new releases. Around this core there are remote
control, device operations, publication of TikTok posts, network routing and
telemetry.

This directory holds TLA+ specifications of these parts, model-checked with TLC
on small instances, and theorems about the core checked by TLAPS for every value
of the constants. Paths below are relative to the root of the repository.

    tlc -config TaskExecutorSlot.cfg MCTaskExecutor      model-check one run
    tlapm TaskExecutorProofs.tla                         check one proof module

`PROJECT.json` lists all runs, the source lines behind every definition, the
seeded defects ("mutants") every property is tested against, the hazards of the
code and the theorems.


## 1. Inventory

### Phone

**Task scheduling algorithms** (`mobile/src/task-queue.ts`). Pure functions on
the queue: insertion by rank and arrival, the entry a HIGH task may evict,
whether a task may preempt the running one. *Correct if* the queue stays sorted
and an eviction hits the right entry. -> `TaskQueue`.

**Task executor** (`mobile/src/client.ts`, `task-state.ts`,
`autojs-engine.ts`). State: `taskQueue`, `queuedTaskIds`, `isStartingTask`,
`activeTask` with its timer, its checkpoint and its `cleanupPromise`,
`deploymentBlockId`, two intake chains. Operations: `enqueueTask`,
`handleTaskControl`, `processNextTask`, `executeTask` with its polls,
`timeoutActiveTask`, `preemptActiveTask`, `terminateActiveTask`,
`cleanupActiveTask`, the deployment hooks. *Hard*: everything is a callback
around one slot; timeout, preemption, cancellation, forced deployment, the
launch and the result poll all stop the same run, and each awaits shell commands
that take seconds. *Correct if* the slot has one owner, no accepted task is
forgotten, no run is left without a deadline, no verdict denies a side effect
that was committed, no script goes on after its task was answered, and tasks,
remote sessions and deployments exclude each other.
-> `TaskExecutor`.

**Deployment hand-over** (`deployment-manager.ts`, `deployment-protocol.ts`,
`release-manifest.ts`). State: the pending descriptor, the staged release, the
deployment being handled. It stages a release, blocks the intake, drains or
stops the executor, and hands over to the supervisor with exit code 98.
-> the phases in `TaskExecutor`, the files in `Supervisor`.

**Deployment supervisor** (`mobile/bootstrap/supervisor.mjs`,
`mobile/node_daemon.sh`). State: `active.json`, `previous-healthy.json`, the
pending file, ready files, outcome files, the release directories, the link
`current`, its child. *Hard*: two processes share files and either may end
between any two steps; the phone may be switched off. *Correct if* a deployment
that does not become healthy is replaced by the one before, and whatever may
have to be started is still on the disk. -> `Supervisor`, `HealthGate`.

**Task result outbox** (`client.ts`, `task-result-delivery.ts`). State: one file
per task, `deliveringResultIds`. A result is persisted, then sent by HTTP if the
task has a `callbackUrl`, otherwise by MQTT; the outbox is replayed every thirty
seconds and on every connection. *Hard*: lost confirmations, restarts, repeated
commands that are answered again. *Correct if* an answered task never loses its
result before a channel took it. -> `TaskDelivery`.

**Broker reconnection and network monitor** (`mqtt-reconnect.ts`,
`network-change-monitor.ts`). Forced reconnection with its own timeout, a
debounced poll of the interfaces. *Correct if* a change of the networks is never
missed for good, and the connection comes back. -> `NetworkRouting`, as far as
routing depends on them.

**Remote session peer** (`remote-session-peer.ts`, `remote-session-protocol.ts`,
`rtc-sidecar-client.ts`). State: the one active session, its lease, negotiation
state, data channels, several timers; talks to the sidecar over IPC and to the
server over a relay. *Hard*: callbacks of three sockets and of a child process
change one record, and the server's decisions cross the phone's reports.
*Correct if* one session is active, it ends with its lease, and neither the
fallback to the relay nor a recovery loses the session. -> `RemotePeer`;
`TaskExecutor` has it as open, closing or none.

**WebRTC sidecar** (`mobile/rtc-sidecar/`, Go). Frame and chunk reassembly with
limits, peer state, IPC writer.

**Device operations on the phone** (`ops-session.ts`, `ops-executor.ts`,
`ops-protocol.ts`, `android-diagnostics.ts`). State: the one session with its
socket, the responses it may have to repeat, its concurrency slots and timers.
*Hard*: a request comes again on a new socket while it is carried out; a timeout
answers for commands that still run. *Correct if* a screenshot or a write is
carried out once and a failed change undone. -> `OpsSession`, `OpsExecutor`.

**TikTok publication** (`client.ts` from `prepareTikTokTask` to the result poll,
`tiktok-ledger.ts`, `tiktok-policy.ts`, `tiktok-commit-ack.ts`,
`tiktok-commit-review.ts`, `task-scripts/tiktok_post_v2.js`). State: a ledger of
publications on disk and in memory, the checkpoint, acknowledgement and result
files, the local review of a draft with its nonce and lock, the posts on the
profile. Operations: publish, resume, recover, status; the script clicks "Post"
only after its checkpoint is acknowledged. *Hard*: client and script are two
processes that share files, either may die while the other goes on, and the act
cannot be undone. *Correct if* nothing is posted twice, the ledger knows of every
post, and a reviewed draft is posted on its own release. -> `TikTokPublication`.

**Trusted input method** (`adb-keyboard.ts`). State: Android's input method
settings and the recovery record of what the user had. *Correct if* the user gets
it back after any crash. -> `AdbKeyboard`, composed with the publication.

**Persistent network routing** (`network-routing.ts`, with
`network-change-monitor.ts` and `mqtt-reconnect.ts`). State: `state.json` and its
copy in memory, the managed rules in the kernel, the retained status. Operations:
apply with verification and roll-back, disable, drift check, restoration at the
start. *Hard*: every operation awaits a dozen root commands, each of which may
fail or be cut off half way, while the networks change. *Correct if* the kernel
has what the manager has promised, what was disabled stays disabled, and the
reported status becomes true. -> `NetworkRouting`, `NetworkPolicy`.

**Phone health telemetry** (`phone-health.ts`, an outbox of its own), **registry,
protocol, configuration** (`task-registry.ts`, `protocol.ts`, `config.ts`),
**task scripts** (`mobile/task-scripts/`, `mobile/src/scripts/`): the publication
script is in `TikTokPublication`, the others are single runs of a script.

### Server

**Task dispatch** (`pc/src/service/node-server.service.ts`). State: `localTasks`.
A task is recorded, published with an acknowledgement timeout of ten seconds,
ended by the phone's result or by its expiry, and forgotten after a retention
time. *Correct if* a verdict is final and no task stays open for ever.
-> `TaskDelivery`.

**MQTT gateway** (`mqtt.service.ts`). A persistent session at the broker,
acknowledged publication, presence. -> its publication and results in
`TaskDelivery`.

**Remote control service** (`remote-control.service.ts`, with the WebSocket
front end and `remote-control-route-probe.service.ts`). State: sessions,
each with tickets, sockets, transport and timer, and the session that holds a
device; relay and peer-to-peer negotiation, recovery after a failed connection. The
largest state machine of the server. *Hard*: two peers and two timers, of which
none knows yet what the other has reported. *Correct if* a device has one lease,
every lease ends and frees it, and all agree on the transport of an active lease.
-> `RelayService`.

**Device operations service** (`device-ops.service.ts`). State: the session of a
device with its socket, tasks with their results, the bytes of stored
screenshots. Operations: create and poll a task, dispatch and resend it, take
frames, time out, expire, forget. *Hard*: sockets are replaced while tasks are
under way, and results compete for memory. *Correct if* no sent task waits on a
socket that is gone, and no byte is leaked. -> `OpsGateway`; both sides together
are `DeviceOps`.

**TikTok campaign** (`tiktok-campaign*.ts`). Progress of a campaign over many
devices, kept across crashes of the runner.

**HTTP server, controllers, dashboards**; **Android capture module**; **build,
release and installation scripts**: no protocol of their own.

### How they interact

    operator -> server:  HTTP
    server -> phone:     task, control, deployment, session commands (MQTT QoS 1)
    phone -> server:     results, presence, events (MQTT); results (HTTPS callback)
    client -> AutoJS:    script file, "am start", "am force-stop"
    AutoJS -> client:    checkpoint and result files, polled
    client -> AutoJS:    acknowledgement file of the checkpoint
    operator -> client:  release.json for a draft under review
    client -> Android:   input method, ip rules, brightness (root commands)
    server <-> phone:    maintenance requests and results (WebSocket)
    client -> supervisor: pending file + exit code 98, ready file, exit
    supervisor -> client: environment, outcome file, SIGTERM
    deployments, remote sessions, ops sessions and tasks exclude each other
    through the executor's slot


## 2. Modules

| Module | Models | Uses |
|---|---|---|
| `TaskQueue` | `task-queue.ts` as operators | |
| `TaskExecutor` | executor of `client.ts`, phases of `DeploymentManager.handle` | `TaskQueue` |
| `HealthGate` | abstract: what activation promises | |
| `Supervisor` | `supervisor.mjs` and the client's side of the hand-over | `HealthGate` (refined) |
| `TaskDelivery` | task table of the server, broker, result outbox | |
| `RelayService` | server's half of a remote-control lease | |
| `RemotePeer` | phone's half | `RelayService` |
| `RemoteControl` | both, with the browser; specification and properties | `RemotePeer` |
| `NetworkPolicy` | `parseNetworkRoutingPolicy` and address arithmetic as operators | |
| `NetworkRouting` | routing manager, change monitor, reconnection; kernel and networks | `NetworkPolicy` |
| `AdbKeyboard` | the input method, command by command | |
| `TikTokPublication` | ledger, client, review and script of a publication | `AdbKeyboard` |
| `OpsExecutor` | phone: the commands of an operation | |
| `OpsGateway` | server's half of the maintenance channel | `OpsExecutor` |
| `OpsSession` | phone's half | `OpsGateway` |
| `DeviceOps` | the channel whole; specification and properties | `OpsSession` |
| `MC*` | constants for TLC | |
| `*Proofs` | theorems about the module of that name (`RemoteTransportProofs`: about `RemoteControl` too) | its module |

### TaskQueue

A queue is a sequence of `[task, seq]`. The rank of a task, whether it may
preempt, and what identifies it are constants. `InsertQueuedTask`,
`EvictionIndex` and `CanPreemptRunning` are the three functions of the file.

### TaskExecutor

Node runs one callback at a time, so an action is the code between two awaits.
Each await is a state in which other handlers may run:

- `stops` is the set of terminations in progress. A member says who asked (the
  timer, the intake of tasks, the launch, a control command, a deployment), for
  which run, and at which await it stands: the targeted stop of the engine, the
  stop of the package, or the clean-up.
- `run[r]` is the r-th `ActiveTask` object. It outlives the slot, because
  handlers and the engine still refer to it: `launch` is the state of its
  "am start", `engine` whether its script is alive, `checkpoint` and `output`
  are its files.
- `deploy.phase` is the await at which `DeploymentManager.handle` stands. The
  deployment block is set in every phase but "none".
- `taskIntakeChain` and `taskControlIntakeChain` run their handlers one after
  the other: `Busy("intake")`, `Busy("control")`.

The script is a process of its own. It may write the COMMITTING checkpoint once,
may commit after the acknowledgement, may write a result, end, or hang.
`results` and `owed` are history variables.

Abstractions: task preparation (policy, network check, input method,
observers) is one action that ends in a run, or in a result without one. Of the
checkpoint phases only COMMITTING, the one that changes what a stop may say, is
kept. Of the two kinds of session that hold deployments and tasks off, only the
remote one is modelled, as `remote`: open, closing (`closeActive` awaits the
delivery of its last event, and the session still counts as active), or none;
`blockTaskIntake` closes it when a deployment is accepted. Two constants say how
slow AutoJS and `su` may be: with `LateStart` a script may start although its run
has been stopped meanwhile, with `LateFailure` "am start" may fail by then.

### HealthGate and Supervisor

`HealthGate` is the promise of `supervisor.mjs`: a deployment is put on trial, and
comes into force or is rolled back; or the supervisor itself ends (`Stop`: a
reboot, an exception), which leaves one of the two in force and nothing on
trial. In the refinement `life` tells one supervisor from the next, so that only
such an end may pass for a `Stop`. `Supervisor` has the files
as variables, the supervisor's position in `main`, `activatePending`,
`verifyClient` and `waitForExit` as `sup.pc`, and the client as one record with
its process, how far its readiness report has come, and the hand-over it is
doing. A client has no SIGTERM handler and ends at once, so there is never more
than one. `releases[r]` holds a release's age, so that pruning "the three newest"
can be told from pruning "the three that are needed".

Abstractions: crashes fall between actions, not inside one (a step that writes
two files without awaiting is atomic). A client that exits with code 0 is never
seen, because no code path of the client does so while the supervisor waits for
it; that branch of `main` is left out. The contents of a release, its digest and
its manifest are a staging that succeeds or fails.

### TaskDelivery

One record per task at the server, the broker's two stores (`commands`, `inbox`)
and the phone's outbox. Results of one task are numbered, because a command that
is delivered again after its task ended is executed, and answered, again. Who
dispatched a task is chosen at dispatch: the server itself (no callback), or a
Node Server with a `callbackUrl`, whose confirmation then is the one that
counts (`Authority`). The executor is reduced to what `TaskExecutor` shows of
it: a tracked task is answered, unless the client restarts.

Abstractions: the broker delivers with QoS 1 (the configuration of the client
also allows 0; the comment at `mobile/src/client.ts:770` speaks of QoS 1), and
its sessions do not expire within the 24 hours they are kept. A publication
whose callback never fires, as after a forced reconnection, is not modelled.

### RelayService, RemotePeer, RemoteControl

The server's handlers and timers are synchronous, so each is one action on
`lease[s]`, the stored session. A WebSocket is a pair of FIFO channels,
`up[s][role]` and `down[s][role]`; the invitation and the events of the phone go
by MQTT, which does not keep their order with the frames, and are sets. `holder` is
`activeSessionByDevice` of the one device. `peer` is the phone's
`ActiveRemoteSession`; its actions are the callbacks of the relay socket, of the
sidecar and of the local scrcpy socket. `closeActive` is split at its await:
between `CloseActive` and `Teardown` the session is closed and still occupies the
slot. The browser's code is not in the repository; `browser` does what
`pc/docs/remote-control-relay.md` allows a controller to do, in any order.

A crash of the phone loses what its socket had not delivered. The server then
takes the socket for open (`halfOpen`) and what it sends is lost, until it finds
the socket dead. A control the browser sends on the P2P data channel reaches the
phone only while the phone is in that session (`pipe`); what the channel of a
session it has left still carried is lost.

Abstractions: CLOSED, EXPIRED and FAILED are one state ENDED, with `refused`
for the code RELAY_FRAME_INVALID, because nothing reads the others. A lease
pairs once, so attempt identifiers never differ and are left out. A binary frame
counts one byte. Controls kept in a buffer are counted for each transport.
Reasons to close that have no cause in the model (errors of sockets, expiry,
deployments) are the one action `PeerCloses`. A socket that is closing counts
as open until it is closed: the `readyState` checks of `handleP2PSignal` and
`relayBinary` make a difference for that instant only, and both outcomes end the
lease, which the close does too. A client that was restarted opens a
session only after the socket its last run closed has been reported.

### NetworkPolicy and NetworkRouting

An operation of the manager (the executor's request, the periodic check, the
check after a change) waits for its turn in `runExclusive` and then goes from
await to await: `runs[o].pc`. At each of them the networks may change, Android may
drop a rule, the command may fail, and client or phone may restart.
`rules` is the kernel, one value per group of managed rules in the order in which
the root command writes them; a command that is cut off leaves the groups it has
written. What an operation has read before (`snapshot`, `previous`) is kept in its
record and may be stale when it is used. `disk` is `state.json`, `state` the
memory. `last` and `touched` are history: what the last operation that wrote rules
answered, and whether anybody else has changed anything since.

`NetworkPolicy` decides which policies are accepted. An address is its two leading
octets, because every private block is decided there.

Abstractions: the probes and Android's tables are external. A probe fails or
succeeds with the state of the networks or as a trouble. Signal strengths, DNS
answers and single routes within a group are left out. `state.json` is taken to
survive a loss of power once it has been renamed into place.

### AdbKeyboard and TikTokPublication

Three parties: the client (`client`, at most one task, with the ledger record
loaded for it), the scripts (`script[t]`, which go on when the client has died)
and the operator (`desk`). They share `file[t]` and nothing else. `disk` is the
ledger. Since a script clicks once by its own control flow, a post is named
after the task that made it: `clicked` are those that activated "Post", `live`
those that show up on the profile, some time later or never. The checkpoint
protocol (EDITOR_READY, COMMITTING, SUBMITTED, result) is one action for each side
and step; so are the lock, the pending request, the release and the journal of
the review. A client is up, exiting (the 250 ms it takes after the input method
could not be given back) or down.

`AdbKeyboard` has the activation and the restoration as sequences of states, one
per command, so that a failure or a crash stops at any of them.

Abstractions: the screen is not modelled: what two scripts do to each other
through it is section 6. Limits on posting, reuse windows and the
check of the media depend on time and files and may refuse at any time. The
preflight action, malformed result files, the network attestation and the import
of old state are left out. The executor's queue is a sequence of requests whose
order is chosen at their arrival.

### OpsExecutor, OpsGateway, OpsSession, DeviceOps

`OpsGateway` has the maps of the service as variables; a handler or timer is one
action. A WebSocket is a pair of FIFO channels whose two ends close one after the
other (`wire[k]`), and may be cut, which loses what is under way. `OpsSession` is
the phone's session: it answers a repeated request from `responses`, refuses one
it has no slot for, and otherwise starts an execution, named by the request and
the number of its start. `OpsExecutor` carries executions out command by
command: a plain read, a screenshot or an alert is one step ("read" stands for
every operation that only looks at the device), the brightness is up to seven
commands, with those that undo the first ones. An execution that has timed out has given back its
slot (`held`) and still runs.

Time is left to the scheduler: any deadline may pass at any moment, at the cost
of one trouble. There is one device. Tickets are correct by assumption.
Abstractions: an artifact counts one unit of memory; what the single reads
return, the changes of the volume, rate limits and views are left out.


## 3. Runs

A run takes up to three minutes with two workers. `task_executor_slot` uses the
symmetry of its two tasks of one rank, `device_ops` that of its two sockets; with
symmetry only safety is checked. `CHECK_DEADLOCK FALSE` is set everywhere
but in `network_routing`, because the systems really may stop: with the budget of
external events spent an idle phone has nothing to do, and a supervisor may have
ended. The routing manager has its periodic check for ever, and its run looks
for deadlocks.

Budgets bound external events only (requests, deliveries, cancellations,
deployments, sessions, crashes, failures, lost connections, repeated messages);
every other variable is bounded by them. No state constraint is used.

| Run | Question | Bounds |
|---|---|---|
| `task_executor_slot` | Does the bookkeeping stay consistent under every mixture of commands? | three tasks, two of one rank and a HIGH one; queue of two; one session, one deployment (graceful or forced), one restart; one run |
| `task_executor_stop` | What may several handlers that stop the same run do to it? | a publishing task and a preempting HIGH one, queue of one, two runs, scripts that start late, one cancellation, one session, two deliveries (of one task or of both) |
| `task_executor_live` | Is every task answered and the slot given back? | two tasks of which one preempts, queue of one, two runs, scripts that start late, one session |
| `supervisor` | Does activation keep the promise of `HealthGate`, and are files and memory consistent after an end anywhere? | four deployments, of them one unhealthy, one healthy but not to be spawned, two with old releases on disk; three commands, one exit of the client, one reboot |
| `task_delivery` | Do commands and results survive the way? | one task of either kind, two answers, two lost connections, one repeated message, a restart of either side |
| `remote_transport` | Does everyone use the transport the others use? | one lease, both protocol versions, a candidate, a control, a frame; buffers and byte budget of one |
| `remote_lease` | Does a phone have one lease, and a lease its phone? | two leases, one with a browser, relay only, an invitation delivered again, a crash |
| `remote_live` | Do leases end, and choices of a transport? | one lease, peer to peer, a crash |
| `network_routing` | Does the kernel route as promised, and is the status true in the end? | three policies (one malformed), three states of the networks, three requests of two generations, two troubles |
| `publication` | Is nothing posted twice, and every post recorded? | a commercial publication with review and a legacy one, three tasks, two troubles |
| `device_ops` | Is every screenshot and write carried out once, every task awaited where it is answered, and its screenshot accounted for? | a task that reads or takes a screenshot, one that takes a screenshot or writes, one session, two sockets, two starts of each request, memory for one screenshot, two troubles |

Why the bounds are enough. `task_executor_slot` needs three tasks: a full queue
of two and a third that evicts or is refused; equal ranks show the order of
arrival. One run suffices there, because `owed`, the queue and the slot do not
depend on the number of earlier runs; `task_executor_stop` has two, because a
handler of the first run may hit the second; its queue of one is full with one
task waiting, so the HIGH task evicts there. `task_executor_live` has two runs for
the same reason: what is late in the first one meets the second.
Its budget goes into a session; deployments and cancellations, which
multiply the states beyond what liveness can be checked on, are in the other two
runs, for safety (`NoLostWakeup`, `NoSilentDrop`). `supervisor` needs a fourth
deployment because pruning keeps three releases. Tasks in `TaskDelivery` share
the phone's connection and nothing else, so a second one adds size and no case;
two answers are needed for the second to meet the delivery of the first.
In `remote_transport` a second frame of a kind would meet the same guards as
the first, and a full buffer or an exceeded budget is reached with one frame kept
and one more arriving. Leases share the device slot of the server and the
session of the phone; two are what it takes for a late end of the old one to meet
the new one, and only one needs a browser for that. The number of viewers and of
transports is cut in that run because the other two have them.
`network_routing` needs two generations and three requests: an apply, a disable,
and a late one that must not undo it; two troubles let the roll-back of a failed
apply fail as well, or be cut off by a restart. `publication` needs three tasks:
one whose outcome is lost, one that recovers it, one that is tempted to repeat it;
two troubles are a crash of the client and a failure of the one that takes over.
Publications share the phone (client, input method) and nothing else, so two are
enough. `device_ops` needs two sockets for a request that is resent, two tasks
that compete for a slot or for memory, and a second start to see whether it
happens.

What they show, with the properties (all stated in the modules, each with the
code behaviour it is about; `TypeOK` is checked once for every module):

- *Executor*: `ExclusiveUse` (the slot has one owner and none beside a remote
  session; no session is open from the acceptance of a deployment to its end; and
  a deployment is activated on an idle executor), `DedupExact`, `QueueDiscipline`,
  `NoLostWakeup` (a waiting task never depends on an event that need not come),
  `NoSilentDrop`, `CommitTruthful` (no run reported as timed out, cancelled or
  forced was ever told to commit), `StoppedForGood` (a task whose start was seen
  has no script at work once it is answered), and under fairness `Progress`: every
  task is answered and the slot given back. `NoSilentDrop` holds within one life
  of the client and if no launch fails late; without that it does not (section
  6). `Progress` is checked under the same conditions and without deployments and
  cancellations; with forced deployments it does not hold. `StoppedForGood` holds
  without conditions.
- *Supervisor*: `GateSpec` (it implements `HealthGate`), `FreshVerdict`,
  `Restartable`, and under fairness `ActivationSettles` and `RollbackReported`.
  `ActivationSettles` says that every activation of a deployment whose client can
  be started ends with it in force, or with the word of its roll-back left and the
  supervisor at work; only a reboot in the middle excuses from both. For the
  deployments that cannot be started see section 6.
- *Delivery*: `ResultKept`, `TaskNotLost`, and under fairness `BothSidesLearn`:
  the server never waits for ever, and what the phone has answered arrives.
- *Remote control*: `OneLease`, `BoundToThePhone` (the device socket of a
  running lease is served by the session of the phone, or its end is on the
  way); `RelayOpenForItsUsers` (who writes to the relay finds it selected),
  `NoTransportFault` (no interleaving of failures makes the phone see a fault in
  the order of frames), `QuietAgreement`; and under fairness `SessionsSettle`.
- *Routing*: `KernelAsPromised` (what the last operation answered is what the
  kernel has until somebody else changes it), `DisabledStaysDisabled` (neither a
  restart, a drift check nor a late request brings rules back), and under fairness
  `StatusBecomesTrue`.
- *Publication*: `AtMostOnce`, `CommitRecorded` (a click implies a committed
  record on disk, with the evidence a commercial publication needs and a baseline
  that does not contain the post), `ClickNeedsRelease`, `KeyboardRestored`.
- *Device operations*: `NoneLeftBehind`, `ArtifactsAccounted`, `RunsOnce` (of
  screenshots and writes: a plain read that comes again while it runs takes another
  slot and is carried out twice, in the code as in the model), `FailedSetRestores`.

Every property of a passing run is tested against a seeded defect, an operator of
the module marked so: the run must report the property violated when the
defective operator stands in for the true one.

### The run that must fail

| Run | What the code does |
|---|---|
| `negotiation_kills_lease` | A candidate or an answer that crosses the other side's failure or the timeout reaches a server that has chosen the relay. It throws, and the lease ends with RELAY_FRAME_INVALID where it should fall back, as `pc/README.md:110` says it does (`FailedNegotiationFallsBack`). The phone ends it likewise on an offer that finds its sidecar failed. |

### Fairness

*Executor*: Node calls due timers and settled promises, and commands started with
`su` return (`WF` of the wake-up, of preparation, of clean-up, of the deployment's
phases, of the end of a session, and, over all runs together, of a launch, of a
timer and of a stop); stops that are tried again and again succeed at last (`SF`
of a successful stop, whoever asked for it). Nothing is assumed of a single run or
handler. Scripts, the broker and the operator owe nothing: a script may hang for
ever.

*Supervisor*: its timers fire and its awaits return; a client that can connect
does; the report of an outcome is confirmed at last. Deployments and exits owe
nothing.

*Delivery*: clocks go on, the clean-up of every minute and the replay of every
thirty seconds run (both are `setInterval`), the connection comes back, and a
channel that is tried again and again takes the result and confirms it at last
(`SF`, because a delivery may fail each time it is enabled). The phone owes the
server nothing: `DispatchSettles` rests on the server's clock alone.

*Remote control*: the event loop of the server takes the frames that have come,
calls its two negotiation timers and finds dead sockets; that of the phone takes
its frames, completes `closeActive` and opens the relay socket (`WF` of
`ServerReacts` and of `PeerReacts`). Neither the browser nor the sidecar has to
do anything, nobody has to close a lease, and no lease has to expire: the expiry
would make the property true by itself.

*Routing*: an operation under way goes on, because every call it awaits has a
timeout (`WF` of the steps of each operation); the periodic check is a
`setInterval`, the debounce a `setTimeout`, and MQTT.js connects again. `ip
monitor` need not be started again: `StatusBecomesTrue` rests on the periodic
check alone. Requests, networks and restarts owe nothing.

*Publication* and *device operations* are checked for safety only: their progress
rests on the executor's timers, and on the timeouts of both sides.


## 4. Proofs

The proof modules hold for every set of tasks and deployments, every limit and
every budget, from the assumptions on the constants stated in the modules (TLC
evaluates those on every run).

**TaskExecutorProofs.** Its first part is about the operators of `TaskQueue`:
`InsertKeepsOrder` says that inserting an entry that is younger than all waiting
ones at `InsertPosition` keeps a queue sorted by rank, then arrival; the lemmas on
insertion and removal (length, members, distinct tasks) are what the rest of the
proof cites. The rest is the executor: `TypeCorrect`, `PhoneIsUsedExclusively`,
`DedupIsExact`, `QueueIsDisciplined`, `NoWakeupIsLost`, `CommitIsTold`,
`AnsweredIsStopped`, `NothingIsDropped`: every invariant the runs check. The filter
and the queue are proved together: that the queue holds a
task once needs the filter exact, and that the filter is exact needs to know who
holds the slot. Ordering needs that every waiting entry is older than `nextSeq`,
and that a forced stop is alone (`ForcingAlone`): its handler finds no task being
prepared and no second stop by the deployment. A result that denies a commit is
about a run whose cleanup has begun with no commit acknowledged (`Truth`), and a
run being cleaned up is never acknowledged one. `AnsweredIsStopped` rests on
`Settled`: a run that has been answered is being cleaned up or its launch is over,
so nothing can make it look launched any more, and if it was, its script is not at
work; no hypothesis is needed, late starts and failures, crashes and forced
deployments included. `NothingIsDropped` has the hypotheses `~LateFailure` and
`MaxCrashes = 0`, and without them it is false (section 6): a new client knows
nothing of what the old one accepted, and a launch that fails after its run was
stopped ends whichever run has the slot by then. Its invariant (`Answers`) adds
that a run being cleaned up owes its task no answer.

**SupervisorProofs.** `TypeCorrect`, `AlwaysRestartable`, `FilesAreSettled`,
`VerdictIsFresh`, `ImplementsHealthGate`. The invariant says what memory,
`active.json` and the link hold in each phase of an activation (`PhaseFiles`),
that a trial is under way exactly in those phases and has its release
(`PhaseTrial`), and that only the client on trial can have written its ready file
(`ReadyIsFresh`). `Restartable` joins them because the steps that switch and
prune need each other's facts. The refinement has no hypothesis: a deployment may
fail to be spawned, and the phone may be switched off anywhere. `FilesAreSettled`
(memory, `active.json` and link agree while no activation is under way) is a
consequence no run repeats.

**TaskDeliveryProofs.** `TypeCorrect`, `ResultIsKept`, `TaskIsNotLost`,
`VerdictIsFinal`. The invariant adds to `TypeOK`: only a dispatched task is
anywhere; a task of the Node Server has no record here; what the `mqtt` channel
has taken has been heard (it is in the server's inbox or its record has ended);
and an open task is on its way. The second is what makes `Authority` sound: the
MQTT copy of a result with a callback never counts. `VerdictIsFinal` (only dispatch
itself may overwrite a verdict) follows from the same invariant; no run repeats
it.

**TikTokPublicationProofs.** `TypeCorrect`, `PublishedAtMostOnce`,
`CommitIsRecorded`, `ClickHasRelease`, `KeyboardIsRestored`. A click comes long
after the decision that allowed it, and from a process the client may have lost
sight of, so the invariant follows a publication from one to the other: a
script that has been let through is backed by the record on the disk (`Covered`)
and is the only one of its publication, which no other task is preparing either
(`Alone`); the active task's record in memory is committed when the disk's is
(`RecordAhead`), a record has a link exactly when it is a success (`DiskLinked`),
and a baseline never contains the post it is to tell from others (`Baselines`). `Reviews` ties the release to
the review that asked for it; `KeyboardSafe` says of each await of the client
what the recovery record of the input method must still hold.

**DeviceOpsProofs.** `TypeCorrect`, `NoneIsLeftBehind`, `ArtifactsAreAccounted`,
`RequestRunsOnce`, `FailedSetIsUndone`. `Books` is the account of the stored bytes
as a sum over the tasks, which every path that drops a screenshot changes on both
sides; the set of tasks is finite by assumption, as its elements are added. `Sent`
ties a task under way to the session and the socket it was sent on, and
`FirstSession` says that while only one session has ever been opened a request for
a screenshot or a write was started at most once and is answered from memory, or
still held, from then on. Plain reads are in the model and not in this claim.
For the settings, `Settled` says that a change nobody has disturbed is the only
one, and what the settings are at each of its commands.

**NetworkRoutingProofs.** `TypeCorrect`, `KernelIsAsPromised`, `StaysDisabled`.
Both rest on the turns of `runExclusive` (`Lined`, `InTurn`): only the operation at
the head of the queue is past its wait. Then `Found` says what the operation has
read (it cannot be stale but for the networks) and `Kernel` what the rules are at
each of its awaits, as long as nothing else has touched them.

**RemoteControlProofs.** `TypeCorrect`, `DeviceHasOneLease`, `LeaseIsServed`,
`RelayIsOpen`. The invariant of the first two is the
conjunction of both: that a finished lease frees the right device needs `OneLease`
before the step. `FinishKept` proves it once for `finish`, which every handler that
ends a lease calls; what is left is that `createSession` takes a
device no lease is being executed for, and that no other step changes
`executing` or the holder. `TypeOK` includes that every frame in flight is one of
the protocol, which the handlers rely on when they read its fields. Twenty-nine
actions change a lease, a session or a channel in few ways, so the steps of each
participant are first reduced to what they do to a lease, to the phone and to the
four channels (`ServerMove`, `PhoneSteps`, `BrowserMove`), and the invariants
below are proved of those.
`LeaseIsServed` rests on `SocketOK`: a hello the server has not read is that of the
phone's session, or the close of its socket comes after it in the channel
(`Ended`), and no close is in the channel of the session the phone is in, which is
what lets `onInvitation` take the same invitation again.
`RelayIsOpen` rests on `RelayOK`: the frames that send the phone or the browser to
the relay, in either channel, count as its use (`UsesRelay`), and a lease without
its two peers has none of them (`Shape`).

**RemoteTransportProofs.** `NeverFaulty`, `AllAgree`, on top of the former module.
`NeverFaulty` rests on `LinkOK`, what the phone and the server make of the session
the phone is in. `Link` relates five things: the lease, whether the phone's socket
is bound, the phone, and the two channels between them. Until the server has read
both hellos nothing has begun (`Early`); from then on what is in flight to the phone
comes in an order (`Ordered`) and finds the phone ready for it (`Told`), what is in
flight from it is what it did (`Telling`), and where the two differ on the transport
a frame that will settle it is on its way (`Agreed`). No part of it is inductive alone:
that a `ready` of the relay finds the phone without a transport needs that the server
has not chosen before, which needs the reports still unread, which need the
phone's flags (`PhoneShape`). `P2POf` adds that who uses P2P, the data in its
channel included, does so after the server chose it, and `Over` that the last frame of
a socket nobody serves is its close.
`AllAgree` (`QuietAgreement`) takes the phone's half from `LinkOK` and the browser's
from `ViewOK`, the same said of the browser, the lease and their two channels. Its
socket has one hello, and a close that is on its way either way (`Attached`); what
it has been told of the transport, with what is in flight to it, is what the server
chose, or its report of a failure is still unread (`Steered`). A browser on P2P with
the relay chosen has the frame that sends it there as the last one that guides it
(`ToTheRelay`), which is what makes an empty channel mean agreement.

The inductive invariants were checked by TLC on the runs' instances before they
were proved; each module has its invariant as the theorem `Invariance` or as the
lemma its theorems cite.

Only model-checked: everything that rests on fairness (`Progress`,
`ActivationSettles`, `RollbackReported`, `BothSidesLearn`, `SessionsSettle`,
`StatusBecomesTrue`), which is out of the prover's reach, as are ENABLED,
induction over data and RECURSIVE operators. No module uses the latter.
Section 7 says what is to be proved next.

## 5. Not modelled

Single messages are taken as parsed and authenticated: `protocol.ts`,
`config.ts`, `task-registry.ts`, manifests, tickets and tokens have no state and
are better tested. Shell commands, UI automation, the WebRTC library, HTTP
routing, pages, the Android capture module and build scripts are I/O or foreign
code.

- *TikTok campaign* (`tiktok-campaign*.ts`): a sequence of HTTP requests to
  several servers. What it relies on, that a publicationId is posted at most once,
  is what `TikTokPublication` shows.
- *WebRTC sidecar*: `RemotePeer` has its reports as nondeterministic events; its
  reassembly of chunks is data.
- *Remote route probe*: a bounded list of probes without effect on a lease.
- *Phone health telemetry*: a bounded outbox with replay, a smaller relative of
  the result outbox in `TaskDelivery`.
- *Parts of modelled components*: the preflight of a publication and the
  attestation of the network; TikTok's screen; changes of the volume and the
  contents of the reads among the device operations; the back-off between
  reconnections; the presence window of the server; requests a stand-alone
  server passes on; retained snapshots of the task state.


## 6. Other observations

Met while modelling; no run checks them. Files without a path are those of
section 1. A name in parentheses is a definition of the module that says what
one might expect, and does not hold of the code.

*Executor and results*

- `client.ts:2061`: a task times out while its "am start" is under way. Its stop
  finds no script to end, the next task takes the slot, and AutoJS starts both
  scripts; when "am start" returns, `executeTask` sees that its run has left and
  returns. `README.md:20` says that only one script runs at a time (`OneScript`).
- `client.ts:1504`: a forced deployment clears the timer of the running task and
  does not set it again when the stop fails. The deployment fails, and a script
  that hangs is never timed out, against `README.md:22` (`SlotReleased`).
- `client.ts:1362`: `preemptActiveTask` reads `sideEffectCommitted`, then awaits the
  stop. A script that passes its commit boundary meanwhile is reported as
  preempted, which `mobile/test/task-queue.test.ts:80` rules out
  (`PreemptionBeforeCommit`).
- `client.ts:1269`: `terminateActiveTask` falls back to a stop of the whole
  package. The task it was bound to may have ended meanwhile, and the stop hits
  the next one. `mobile/README.md:251` describes this fall-back for
  cancellation too, which never uses it.
- `client.ts:2131` is before `client.ts:2142`: a command that is delivered again
  while a deployment drains answers a task that is still running with REJECTED.
  The server takes the first verdict it receives.
- A restart of the client, too, leaves an old script at work beside a new one.
- `client.ts:2071`: a launch that fails late cleans up whatever run has the slot;
  the task of that run is never answered (`NoSilentDrop` with `LateFailure`).
- `client.ts:866`: when a delivery is confirmed, the outbox file goes, even if
  a second result of the task has replaced the delivered one.
- `node-server.service.ts:425`: a dispatch that is not acknowledged in ten
  seconds overwrites a verdict that has already come in, and the command may still
  be executed. `VerdictFinal` excepts this one step.
- `node-server.service.ts:265`: the time at which a record ends is the phone's,
  so a phone whose clock is a retention time behind has its results forgotten at
  once.
- The server gives a task up at `expiresAtUtc`; the phone starts its timer when
  it starts the task. A task that waited in the queue is still executed while
  the server already reports SERVER_TIMEOUT.

*Supervisor*

- `supervisor.mjs:260`: the link and `active.json` name the new deployment when
  `childEnvironment` throws on a secrets file with a management key: the
  supervisor ends, now and at every start, and nothing is rolled back. `README.md:94`
  says that failed activations are (`FailedActivationRollsBack`).
- `supervisor.mjs:185`: a client that ends between its ready file and `waitForExit`
  is never noticed, and the supervisor waits for ever (`Deaf`).
- `supervisor.mjs:287`: a restart during verification starts the new deployment
  without a gate (`mobile/README.md:48` promises the roll-back after 90 seconds).
- `supervisor.mjs:262`: the settling of one activation removes whatever pending
  file is there, the hand-over of the next deployment included.
- `client.ts:2344`: SUCCEEDED is published before the ready file is written; if
  the health deadline passes in between, the deployment is rolled back all the
  same.
- `supervisor.mjs:263`: pruning may remove a release that is staged but not yet
  handed over, if it is an old one that is being reused.

*Remote control*

- `remote-session-peer.ts:282`: the server frees the device at once, the phone up
  to 250 milliseconds later; a session requested in between is rejected as
  REMOTE_SESSION_BUSY.
- `remote-session-peer.ts:1239`: a lease that pairs in its last ten seconds gets a
  negotiation deadline beyond its expiry and is ended by the phone.

*Routing*

- `network-routing.ts:1244`: a crash in the middle of the very first apply leaves
  rules in the kernel that `state.json` does not know, and the restoration at the
  start returns at once; they stay until the next operation (the comment of the
  class, line 568, calls the switch atomic).
- 10.0.0.0/7 is accepted as private: only the network address of a CIDR is looked
  at, and /7 reaches to 11.255.255.255.
- A repeated apply of the generation in force is answered SUCCESS as already
  active, although the status is DEGRADED or the rules are gone.
- A disable that fails leaves the state ACTIVE with rules removed; the next drift
  check puts them back.

*Publication*

- `tiktok_post_v2.js:2212`: the link of the one new post on the profile is taken
  for the publication's. If two publications were committed and the first one shows
  up late, it gets the other's link (`pc/README.md:172`; `LinkIsOwn`).
- A recovery that fails before its context is loaded reports an empty baseline,
  which `tiktok-policy.ts:1188` writes over the recorded one (`BaselineKept`);
  every older post is a candidate afterwards.
- `client.ts:1437`, `client.ts:2025`: an operator's cancellation, or a result that
  cannot be parsed, after the commit boundary is recorded as published, whether or
  not the script has clicked (`mobile/README.md:251` calls the outcome unknown).
- A recovery that is cancelled is answered retrySafe, although the publication it
  was to recover may be live (`RetrySafeTruthful`).
- RESUME does not ask the limits on posting nor the reuse windows.
- A publication that is confirmed is refused when it is requested again
  and its media are gone, instead of being answered from the ledger.
- `client.ts:2072`: a launch that fails late records its failure with the ledger it
  had loaded, over what the task after it has written.
- The post named by a second SUBMITTED checkpoint is ignored.
- `client.ts:1807` stops old scripts only through `am force-stop`. After a crash of
  the client an orphan and the next task's script may share the screen, and
  `clickSemanticCenterOnce` clicks bounds it has read before.
- `client.ts:1831`: a task that arrives in the 250 ms before the exit after a failed
  restoration of the input method is started, and lost.

*Device operations*

- `ops-session.ts:415`: after a restart of the server the phone reconnects every
  second until its session expires, and answers new sessions with
  OPS_SESSION_BUSY.
- A publication that fails answers FAILURE for a task that may already have been
  sent on a socket.
- An operation that has timed out gives back its slot while its commands run, so
  two screenshots may be taken at once (`mobile/README.md:169`; `OneScreenshot`).
- A request that comes again on a new socket while its first execution runs, and
  finds no slot, is answered REJECTED (`RejectedNotRun`). A plain read may run twice.
- A result that the limit of 200 tasks has evicted makes its late response close
  the socket; so do a message of more than 1000 characters and a clock that goes
  backwards.
- `ops-executor.ts:823`: unmute deletes the saved level before it sets it; if that
  fails, the level is lost.
- Requests that arrive on a closing socket are executed.


## 7. Plan

Done: every component of section 2 is modelled, has its run and its proofs; every
safety property a run checks is a theorem. If room is left, in this order: the
campaign runner over several servers, the telemetry outbox, and the sidecar's
reassembly of chunks against a reference definition.
