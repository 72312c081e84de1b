------------------------------ MODULE Supervisor ------------------------------
(***************************************************************************)
(* Activation of a staged deployment, mobile/bootstrap/supervisor.mjs, and *)
(* the client's side of it in mobile/src/client.ts (hand-over of a pending *)
(* activation, readiness report, replay of outcomes).  The supervisor and  *)
(* its client are processes that share files; an action is what one of     *)
(* them does without awaiting, and both may stop between any two actions.  *)
(* A client has no handler for SIGTERM, which ends it at once, so there is *)
(* never more than one.  A lost broker connection only delays a client:    *)
(* everything is reported again on the next one.                           *)
(***************************************************************************)
EXTENDS Naturals, FiniteSets

CONSTANTS
  Deployments,   \* deployment identifiers
  NoDeployment,
  Installed,     \* the deployment in force at the start
  Release,       \* Release[d]: the release directory of a deployment
  OnDisk,        \* OnDisk[r]: the age of release r at the start, as in releases
  Healthy,       \* deployments whose client can connect to the broker
  Spawnable,     \* deployments whose secrets childEnvironment accepts
  MaxCommands, MaxExits, MaxReboots

KeptReleases == 3
Releases == {Release[d] : d \in Deployments}

ASSUME SupervisorAssumption ==
  /\ NoDeployment \notin Deployments
  /\ Installed \in Spawnable
  /\ Spawnable \subseteq Deployments
  /\ OnDisk \in [Releases -> 0..KeptReleases]
  /\ OnDisk[Release[Installed]] # 0
  /\ MaxCommands \in Nat
  /\ MaxExits \in Nat
  /\ MaxReboots \in Nat

VARIABLES
  activeFile,    \* active.json
  previousFile,  \* previous-healthy.json
  pendingFile,   \* run/pending-activation.json
  readyFiles,    \* run/ready/<id>.ready
  outcomes,      \* run/deployment-outcomes/<id>.json
  releases,      \* releases/: when each was installed, 0 if it is not there
  link,          \* the symbolic link "current"
  sup,           \* the supervisor process
  client,        \* its child process, the latest client
  events,        \* history: terminal deployment events published
  budget         \* external events left

files == <<activeFile, previousFile, pendingFile, readyFiles, outcomes,
           releases, link>>
vars == <<files, sup, client, events, budget>>

Optional == Deployments \cup {NoDeployment}
SupervisorState ==
  [pc : {"boot", "waiting", "restarting", "committing", "verifying",
         "stopping", "restored", "dead"},
   descriptor : Deployments,      \* the descriptor in memory
   trial : Optional]              \* the pending one being activated
Client ==
  [descriptor : Deployments,
   gated : BOOLEAN,               \* started with a ready file to write
   process : {"running", "exited", "reaped"}, \* reaped: exit event delivered
   code : {"98", "other"},        \* how it ended
   report : {"offline", "online", "reported", "ready"},
   handover : Optional,           \* the deployment it is handing over
   written : BOOLEAN]             \* the pending file is written

NewClient(d, gated) ==
  [descriptor |-> d, gated |-> gated, process |-> "running", code |-> "other",
   report |-> "offline", handover |-> NoDeployment, written |-> FALSE]

NoClientYet == [NewClient(Installed, FALSE) EXCEPT !.process = "reaped"]

Running == client.process = "running"
Exited == client.process = "exited"

TypeOK ==
  /\ activeFile \in Deployments /\ previousFile \in Optional
  /\ pendingFile \in Optional
  /\ readyFiles \subseteq Deployments /\ outcomes \subseteq Deployments
  /\ releases \in [Releases -> Nat] /\ link \in Releases
  /\ sup \in SupervisorState /\ client \in Client
  /\ events \subseteq Deployments \X {"SUCCEEDED", "ROLLED_BACK", "FAILED"}
  /\ budget \in [{"command", "exit", "reboot"} -> Nat]

Init ==
  /\ activeFile = Installed /\ previousFile = NoDeployment
  /\ pendingFile = NoDeployment /\ readyFiles = {} /\ outcomes = {}
  /\ releases = OnDisk /\ link = Release[Installed]
  /\ sup = [pc |-> "boot", descriptor |-> Installed, trial |-> NoDeployment]
  /\ client = NoClientYet
  /\ events = {}
  /\ budget = [command |-> MaxCommands, exit |-> MaxExits,
               reboot |-> MaxReboots]

Spend(kind) == budget[kind] > 0 /\ budget' = [budget EXCEPT ![kind] = @ - 1]

IsInstalled(d) == releases[Release[d]] # 0

\* The time of a command, later than all that is on disk at the start.
Now == KeptReleases + 1 + MaxCommands - budget["command"]

-----------------------------------------------------------------------------
(* The supervisor.                                                         *)

\* An exception reaches main().catch: the supervisor ends.
Fatal == sup' = [sup EXCEPT !.pc = "dead"]

\* spawnClient, after which the supervisor is s; it throws if the secrets of
\* the deployment override a management key.
SpawnClient(d, gated, s) ==
  IF d \in Spawnable THEN client' = NewClient(d, gated) /\ sup' = s
                     ELSE Fatal /\ UNCHANGED client

\* main() up to its loop.
Boot ==
  /\ sup.pc = "boot"
  /\ IF IsInstalled(activeFile)
     THEN /\ link' = Release[activeFile]
          /\ SpawnClient(activeFile, FALSE,
                         [sup EXCEPT !.pc = "waiting",
                                     !.descriptor = activeFile])
     ELSE Fatal /\ UNCHANGED <<link, client>>
  /\ UNCHANGED <<activeFile, previousFile, pendingFile, readyFiles, outcomes,
                 releases, events, budget>>

\* Seeded defect: a ready file of an earlier activation is left in place.
BeginActivationKeepingReady ==
  /\ sup.pc = "waiting" /\ Exited
  /\ client.code = "98" /\ pendingFile # NoDeployment
  /\ client' = [client EXCEPT !.process = "reaped"]
  /\ previousFile' = sup.descriptor
  /\ IF IsInstalled(pendingFile)
     THEN /\ link' = Release[pendingFile]
          /\ sup' = [sup EXCEPT !.pc = "committing", !.trial = pendingFile]
     ELSE Fatal /\ UNCHANGED link
  /\ UNCHANGED <<activeFile, pendingFile, readyFiles, outcomes, releases,
                 events, budget>>

\* The client has asked for activation: activatePending up to the switch of
\* the link, which throws when the release directory is gone.
BeginActivation ==
  /\ sup.pc = "waiting" /\ Exited
  /\ client.code = "98" /\ pendingFile # NoDeployment
  /\ client' = [client EXCEPT !.process = "reaped"]
  /\ readyFiles' = readyFiles \ {pendingFile}
  /\ previousFile' = sup.descriptor
  /\ IF IsInstalled(pendingFile)
     THEN /\ link' = Release[pendingFile]
          /\ sup' = [sup EXCEPT !.pc = "committing", !.trial = pendingFile]
     ELSE Fatal /\ UNCHANGED link
  /\ UNCHANGED <<activeFile, pendingFile, outcomes, releases, events, budget>>

\* active.json names the pending deployment, and its client is started.
CommitActivation ==
  /\ sup.pc = "committing"
  /\ activeFile' = sup.trial
  /\ SpawnClient(sup.trial, TRUE, [sup EXCEPT !.pc = "verifying"])
  /\ UNCHANGED <<previousFile, pendingFile, readyFiles, outcomes, releases,
                 link, events, budget>>

\* The exit event of the child is delivered while verifyClient sleeps or
\* while the supervisor waits for the child it has signalled.
ReapChild ==
  /\ sup.pc \in {"verifying", "stopping"} /\ Exited
  /\ client' = [client EXCEPT !.process = "reaped"]
  /\ UNCHANGED <<files, sup, events, budget>>

\* The releases a clean-up keeps: those pinned, and the newest others.
KeptBeside(pinned) ==
  LET newer(r) == {o \in Releases : releases[o] > releases[r]}
  IN  pinned \cup {r \in Releases : Cardinality(pinned \cup newer(r)) < KeptReleases}

\* Seeded defect: only the release in force is pinned.
KeptPinningActiveOnly(active, previous) == KeptBeside({Release[active]})

\* pruneReleases pins the releases of both deployments.
Kept(active, previous) == KeptBeside({Release[active], Release[previous]})

\* verifyClient sees the ready file, whatever has become of the child since.
VerifyPasses ==
  /\ sup.pc = "verifying"
  /\ sup.trial \in readyFiles
  /\ pendingFile' = NoDeployment
  /\ releases' = [r \in Releases |-> IF r \in Kept(sup.trial, sup.descriptor)
                                     THEN releases[r] ELSE 0]
  /\ sup' = [sup EXCEPT !.pc = "waiting", !.descriptor = sup.trial,
                        !.trial = NoDeployment]
  /\ UNCHANGED <<activeFile, previousFile, readyFiles, outcomes, link, client,
                 events, budget>>

\* Seeded defect: the ninety seconds are not enforced.
VerifyFailsOnExitOnly ==
  /\ sup.pc = "verifying"
  /\ client.process = "reaped"
  /\ sup' = [sup EXCEPT !.pc = "stopping"]
  /\ UNCHANGED <<files, client, events, budget>>

\* The child has exited without its ready file, or ninety seconds are over
\* (the file may have been written since it was last looked for).  A child
\* that still runs is terminated.
VerifyFails ==
  /\ sup.pc = "verifying"
  /\ client' = [client EXCEPT !.process = IF Running THEN "exited" ELSE @]
  /\ sup' = [sup EXCEPT !.pc = "stopping"]
  /\ UNCHANGED <<files, events, budget>>

\* The race of exit event and five seconds is over: the previous deployment
\* is put back.
RestorePrevious ==
  /\ sup.pc = "stopping"
  /\ IF IsInstalled(sup.descriptor)
     THEN /\ link' = Release[sup.descriptor]
          /\ activeFile' = sup.descriptor
          /\ sup' = [sup EXCEPT !.pc = "restored"]
     ELSE Fatal /\ UNCHANGED <<link, activeFile>>
  /\ UNCHANGED <<previousFile, pendingFile, readyFiles, outcomes, releases,
                 client, events, budget>>

\* Seeded defect: the outcome is named after the pending file, once removed.
ReportRollbackOfPending ==
  /\ sup.pc = "restored"
  /\ pendingFile' = NoDeployment
  /\ outcomes' = outcomes \cup {pendingFile'}
  /\ SpawnClient(sup.descriptor, FALSE,
                 [sup EXCEPT !.pc = "waiting", !.trial = NoDeployment])
  /\ UNCHANGED <<activeFile, previousFile, readyFiles, releases, link,
                 events, budget>>

\* Seeded defect: the outcome is not left for the previous client.
ReportRollbackUnrecorded ==
  /\ sup.pc = "restored"
  /\ pendingFile' = NoDeployment
  /\ SpawnClient(sup.descriptor, FALSE,
                 [sup EXCEPT !.pc = "waiting", !.trial = NoDeployment])
  /\ UNCHANGED <<activeFile, previousFile, readyFiles, outcomes, releases, link,
                 events, budget>>

\* The outcome is left for the previous client, which is started again.
ReportRollback ==
  /\ sup.pc = "restored"
  /\ pendingFile' = NoDeployment
  /\ outcomes' = outcomes \cup {sup.trial}
  /\ SpawnClient(sup.descriptor, FALSE,
                 [sup EXCEPT !.pc = "waiting", !.trial = NoDeployment])
  /\ UNCHANGED <<activeFile, previousFile, readyFiles, releases, link,
                 events, budget>>

\* Any other exit: the active client is started again five seconds later.
ChildFails ==
  /\ sup.pc = "waiting" /\ Exited
  /\ client.code # "98" \/ pendingFile = NoDeployment
  /\ client' = [client EXCEPT !.process = "reaped"]
  /\ sup' = [sup EXCEPT !.pc = "restarting"]
  /\ UNCHANGED <<files, events, budget>>

Restart ==
  /\ sup.pc = "restarting"
  /\ SpawnClient(activeFile, FALSE, [sup EXCEPT !.pc = "waiting",
                                                !.descriptor = activeFile])
  /\ UNCHANGED <<files, events, budget>>

-----------------------------------------------------------------------------
(* The client.                                                             *)

ClientOnly == UNCHANGED <<activeFile, previousFile, link, sup>>

\* The broker connection is up and the management topics are subscribed.
Connect ==
  /\ Running /\ client.report = "offline"
  /\ client.descriptor \in Healthy
  /\ client' = [client EXCEPT !.report = "online"]
  /\ ClientOnly
  /\ UNCHANGED <<pendingFile, readyFiles, outcomes, releases, events, budget>>

\* reportDeploymentReady: SUCCEEDED is published and acknowledged ...
ReportSucceeded ==
  /\ Running /\ client.gated /\ client.report = "online"
  /\ events' = events \cup {<<client.descriptor, "SUCCEEDED">>}
  /\ client' = [client EXCEPT !.report = "reported"]
  /\ ClientOnly
  /\ UNCHANGED <<pendingFile, readyFiles, outcomes, releases, budget>>

\* ... and only then the ready file is written.
WriteReady ==
  /\ Running /\ client.report = "reported"
  /\ readyFiles' = readyFiles \cup {client.descriptor}
  /\ client' = [client EXCEPT !.report = "ready"]
  /\ ClientOnly
  /\ UNCHANGED <<pendingFile, outcomes, releases, events, budget>>

\* Seeded defect: the outcome is removed even if nobody has confirmed it.
ReplayOutcomeUnconfirmed(d) ==
  /\ Running /\ client.report # "offline"
  /\ d \in outcomes
  /\ outcomes' = outcomes \ {d}
  /\ ClientOnly
  /\ UNCHANGED <<pendingFile, readyFiles, releases, client, events, budget>>

\* replayDeploymentOutcomes: the publication is confirmed, the file removed.
ReplayOutcome(d) ==
  /\ Running /\ client.report # "offline"
  /\ d \in outcomes
  /\ events' = events \cup {<<d, "ROLLED_BACK">>}
  /\ outcomes' = outcomes \ {d}
  /\ ClientOnly
  /\ UNCHANGED <<pendingFile, readyFiles, releases, client, budget>>

\* A deployment command arrives and is staged; commands are handled one at a
\* time.  A release that is on disk already is used as it is.
StageDeployment(d) ==
  /\ Running /\ client.report # "offline"
  /\ client.handover = NoDeployment
  /\ Spend("command")
  /\ client' = [client EXCEPT !.handover = d]
  /\ releases' = [releases EXCEPT ![Release[d]] = IF IsInstalled(d) THEN @ ELSE Now]
  /\ ClientOnly
  /\ UNCHANGED <<pendingFile, readyFiles, outcomes, events>>

\* It cannot be staged, drained or reported in time.
HandoverFails ==
  /\ Running /\ client.handover # NoDeployment /\ ~client.written
  /\ events' = events \cup {<<client.handover, "FAILED">>}
  /\ client' = [client EXCEPT !.handover = NoDeployment]
  /\ ClientOnly
  /\ UNCHANGED <<pendingFile, readyFiles, outcomes, releases, budget>>

\* requestSupervisorActivation: the pending file is written, and the client
\* exits with code 98 a quarter of a second later.
RequestActivation ==
  /\ Running /\ client.handover # NoDeployment /\ ~client.written
  /\ pendingFile' = client.handover
  /\ client' = [client EXCEPT !.written = TRUE]
  /\ ClientOnly
  /\ UNCHANGED <<readyFiles, outcomes, releases, events, budget>>

ExitForActivation ==
  /\ Running /\ client.written
  /\ client' = [client EXCEPT !.process = "exited", !.code = "98"]
  /\ ClientOnly
  /\ UNCHANGED <<pendingFile, readyFiles, outcomes, releases, events, budget>>

\* The client crashes, or exits because the input method is not restored.
ClientExits ==
  /\ Running
  /\ Spend("exit")
  /\ client' = [client EXCEPT !.process = "exited"]
  /\ ClientOnly
  /\ UNCHANGED <<pendingFile, readyFiles, outcomes, releases, events>>

\* The phone is switched off and on: both processes are gone, the files stay,
\* and node_daemon.sh starts the supervisor.
Reboot ==
  /\ Spend("reboot")
  /\ sup' = [sup EXCEPT !.pc = "boot", !.trial = NoDeployment]
  /\ client' = [client EXCEPT !.process = "reaped"]
  /\ UNCHANGED <<files, events>>

-----------------------------------------------------------------------------
SupervisorStep ==
  \/ Boot \/ BeginActivation \/ CommitActivation \/ ReapChild
  \/ VerifyPasses \/ VerifyFails \/ RestorePrevious \/ ReportRollback
  \/ ChildFails \/ Restart

Replay == \E d \in Deployments : ReplayOutcome(d)
Handover ==
  \/ \E d \in Deployments : StageDeployment(d)
  \/ HandoverFails \/ RequestActivation \/ ExitForActivation

Next ==
  \/ SupervisorStep
  \/ Connect \/ ReportSucceeded \/ WriteReady \/ Replay \/ Handover
  \/ ClientExits
  \/ Reboot

Spec == Init /\ [][Next]_vars

\* The supervisor's timers fire and its awaits return; a client that can
\* connect does, and the broker or the report endpoint confirms the replay
\* of an outcome in the end.
FairSpec ==
  Spec /\ WF_vars(SupervisorStep) /\ WF_vars(Connect) /\ WF_vars(Replay)
       /\ WF_vars(ExitForActivation)

-----------------------------------------------------------------------------
(* Properties.                                                             *)

OnTrial == sup.pc \in {"committing", "verifying", "stopping", "restored"}

\* The supervisor keeps the promise of HealthGate: the descriptor it goes on
\* with after an activation is the verified new one or the old one, and a
\* roll-back is left for the server exactly when it has happened.  What cuts
\* a trial short is a reboot or an exception that ends the supervisor, after
\* which the next one goes on with what active.json says.
Gate == INSTANCE HealthGate WITH
  inForce <- IF sup.pc \in {"boot", "dead"} THEN activeFile ELSE sup.descriptor,
  trial <- IF OnTrial THEN sup.trial ELSE NoDeployment,
  rolledBack <- outcomes \cup {d \in Deployments : <<d, "ROLLED_BACK">> \in events},
  life <- <<budget["reboot"], sup.pc = "dead">>

GateSpec == Gate!Spec

\* Whenever the phone may be switched off, the deployments that active.json,
\* the supervisor's memory and previous-healthy.json name have their release
\* directories: pruneReleases never removes what a restart, a roll-back or a
\* repair by hand needs.
Restartable ==
  /\ IsInstalled(activeFile)
  /\ IsInstalled(sup.descriptor)
  /\ previousFile # NoDeployment => IsInstalled(previousFile)

\* What the supervisor's memory, active.json and the link say agree whenever
\* no activation is under way: a restart goes on with the same deployment.
SettledFiles ==
  sup.pc \in {"waiting", "restarting"} =>
    /\ activeFile = sup.descriptor
    /\ link = Release[activeFile]

\* A deployment passes the gate on the word of the client started for this
\* very activation, never on a ready file left by an earlier one.
FreshVerdict ==
  [][sup.pc = "verifying" /\ sup'.pc = "waiting" =>
       client.report = "ready" /\ client.descriptor = sup.trial]_vars

\* The supervisor waits for a child whose exit event has been delivered.
Deaf == sup.pc = "waiting" /\ client.process = "reaped"

\* The supervisor goes on with d, or with the one before it after it has left
\* the word of the roll-back.
Committed(d) == sup.pc = "waiting" /\ sup.descriptor = d
WentBack(d) == sup.pc = "waiting" /\ d \in outcomes

\* The activation of d is committed or rolled back in the end.  A reboot in the
\* middle ends it with neither: the next supervisor skips the gate.
Settles(d) ==
  OnTrial /\ sup.trial = d ~> Committed(d) \/ WentBack(d) \/ sup.pc = "boot"

\* Every activation of a deployment whose client can be started is settled, also
\* when that client never reports, crashes, or reports as the ninety seconds end:
\* the supervisor neither waits for ever nor dies on the way.
ActivationSettles == \A d \in Spawnable : Settles(d)

\* "Failed activations automatically roll back" (README.md:94), whatever the
\* environment file of the deployment holds: not so of one that stops the spawn.
FailedActivationRollsBack == \A d \in Deployments : Settles(d)

\* A recorded roll-back reaches the server, unless the supervisor has
\* stopped looking after its client, or a reboot in the middle of a trial has
\* put a deployment in force that cannot connect.
RollbackReported ==
  \A d \in Deployments :
    d \in outcomes ~> \/ <<d, "ROLLED_BACK">> \in events
                      \/ Deaf \/ sup.pc = "dead" \/ activeFile \notin Healthy
=============================================================================
