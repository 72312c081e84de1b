--------------------------- MODULE SupervisorProofs ---------------------------
(***************************************************************************)
(* Safety of the supervisor for any set of deployments and any number of   *)
(* commands, crashes and reboots, and its refinement of HealthGate.        *)
(***************************************************************************)
EXTENDS Supervisor, TLAPS

\* What the phases of an activation know of the files.
PhaseFiles ==
  /\ sup.pc \in {"waiting", "restarting", "restored"} =>
       activeFile = sup.descriptor /\ link = Release[activeFile]
  /\ sup.pc = "committing" => activeFile = sup.descriptor
  /\ sup.pc \in {"committing", "verifying"} => link = Release[sup.trial]
  /\ sup.pc \in {"verifying", "stopping"} => activeFile = sup.trial
  /\ OnTrial => previousFile = sup.descriptor

\* There is a trial exactly in the phases of an activation.
PhaseTrial ==
  /\ sup.pc \in {"boot", "waiting", "restarting"} => sup.trial = NoDeployment
  /\ OnTrial => sup.trial \in Deployments /\ IsInstalled(sup.trial)

\* Only the client started for the trial can have written its ready file.
ReadyIsFresh ==
  /\ sup.pc = "committing" =>
       sup.trial \notin readyFiles /\ client.process = "reaped"
  /\ sup.pc = "verifying" =>
       /\ client.descriptor = sup.trial
       /\ sup.trial \in readyFiles => client.report = "ready"

IInv ==
  /\ TypeOK /\ PhaseFiles /\ PhaseTrial /\ ReadyIsFresh /\ Restartable
  /\ budget["command"] <= MaxCommands

USE DEF IInv, TypeOK, SupervisorState, Client, Optional, PhaseFiles,
        PhaseTrial, ReadyIsFresh, Restartable, OnTrial, IsInstalled

LEMMA ReleaseType ==
  ASSUME NEW d \in Deployments
  PROVE  Release[d] \in Releases
  BY DEF Releases

LEMMA NewClientType ==
  ASSUME NEW d \in Deployments, NEW g \in BOOLEAN
  PROVE  /\ NewClient(d, g) \in Client
         /\ NewClient(d, g).descriptor = d
         /\ NewClient(d, g).report = "offline"
  BY DEF NewClient

\* spawnClient starts a fresh client, or the supervisor is dead.
LEMMA SpawnResult ==
  ASSUME NEW d \in Deployments, NEW g \in BOOLEAN, NEW s,
         SpawnClient(d, g, s)
  PROVE  \/ /\ sup' = s /\ client' \in Client
            /\ client'.descriptor = d /\ client'.report = "offline"
         \/ sup' = [sup EXCEPT !.pc = "dead"] /\ client' = client
  BY NewClientType DEF SpawnClient, Fatal

LEMMA InitIInv == Init => IInv
<1> SUFFICES ASSUME Init PROVE IInv
  OBVIOUS
<1> USE SupervisorAssumption, ReleaseType DEF Init
<1>1. client \in Client
  <2>1. NewClient(Installed, FALSE) \in Client
    BY NewClientType
  <2> QED
    BY <2>1 DEF NoClientYet
<1>2. releases \in [Releases -> Nat]
  BY DEF KeptReleases
<1>3. budget \in [{"command", "exit", "reboot"} -> Nat]
  OBVIOUS
<1>4. TypeOK
  BY <1>1, <1>2, <1>3
<1> QED
  BY <1>4

-----------------------------------------------------------------------------
(* The supervisor's steps.                                                 *)

LEMMA BootKeeps == IInv /\ Boot => IInv'
<1> SUFFICES ASSUME IInv, Boot PROVE IInv'
  OBVIOUS
<1>1. CASE IsInstalled(activeFile)
  <2> DEFINE s == [sup EXCEPT !.pc = "waiting", !.descriptor = activeFile]
  <2>1. /\ s \in SupervisorState /\ s.pc = "waiting"
        /\ s.descriptor = activeFile /\ s.trial = NoDeployment
    BY DEF Boot
  <2> HIDE DEF s
  <2>2. SpawnClient(activeFile, FALSE, s) /\ link' = Release[activeFile]
    BY <1>1 DEF Boot, s
  <2>3. \/ sup' = s /\ client' \in Client
        \/ sup' = [sup EXCEPT !.pc = "dead"] /\ client' = client
    BY <2>2, SpawnResult
  <2> QED
    BY <1>1, <2>1, <2>2, <2>3, ReleaseType DEF Boot
<1>2. CASE ~IsInstalled(activeFile)
  BY <1>2
<1> QED
  BY <1>1, <1>2

LEMMA BeginActivationKeeps == IInv /\ BeginActivation => IInv'
<1> SUFFICES ASSUME IInv, BeginActivation PROVE IInv'
  OBVIOUS
<1>1. /\ client' \in Client /\ client'.process = "reaped"
      /\ readyFiles' = readyFiles \ {pendingFile}
      /\ previousFile' = sup.descriptor
      /\ sup.pc = "waiting" /\ pendingFile \in Deployments
  BY SMTT(20) DEF BeginActivation
<1>2. CASE IsInstalled(pendingFile)
  <2>1. /\ sup'.pc = "committing" /\ sup'.trial = pendingFile
        /\ sup'.descriptor = sup.descriptor /\ sup' \in SupervisorState
    BY <1>1, <1>2, ZenonT(60) DEF BeginActivation
  <2>2. link' = Release[pendingFile] /\ link' \in Releases
    BY <1>1, <1>2, ReleaseType DEF BeginActivation
  <2>3. UNCHANGED <<activeFile, pendingFile, outcomes, releases, events,
                    budget>>
    BY DEF BeginActivation
  <2> QED
    BY <1>1, <1>2, <2>1, <2>2, <2>3
<1>3. CASE ~IsInstalled(pendingFile)
  BY <1>1, <1>3 DEF BeginActivation, Fatal
<1> QED
  BY <1>2, <1>3

LEMMA CommitActivationKeeps == IInv /\ CommitActivation => IInv'
<1> SUFFICES ASSUME IInv, CommitActivation PROVE IInv'
  OBVIOUS
<1> DEFINE s == [sup EXCEPT !.pc = "verifying"]
<1>1. /\ s \in SupervisorState /\ s.pc = "verifying"
      /\ s.descriptor = sup.descriptor /\ s.trial = sup.trial
  OBVIOUS
<1> HIDE DEF s
<1>2. SpawnClient(sup.trial, TRUE, s) /\ sup.trial \in Deployments
  BY DEF CommitActivation, s
<1>3. \/ /\ sup' = s /\ client' \in Client
         /\ client'.descriptor = sup.trial
      \/ sup' = [sup EXCEPT !.pc = "dead"] /\ client' = client
  BY <1>2, SpawnResult
<1> QED
  BY <1>1, <1>3, SupervisorAssumption DEF CommitActivation

LEMMA ReapChildKeeps == IInv /\ ReapChild => IInv'
  BY DEF ReapChild, files, Exited

LEMMA KeptIsPinned ==
  ASSUME NEW a, NEW b
  PROVE  Release[a] \in Kept(a, b) /\ Release[b] \in Kept(a, b)
  BY DEF Kept, KeptBeside

LEMMA VerifyPassesKeeps == IInv /\ VerifyPasses => IInv'
<1> SUFFICES ASSUME IInv, VerifyPasses PROVE IInv'
  OBVIOUS
<1>1. /\ releases' \in [Releases -> Nat]
      /\ releases'[Release[sup.trial]] # 0
      /\ releases'[Release[sup.descriptor]] # 0
  BY KeptIsPinned, ReleaseType DEF VerifyPasses
<1>2. /\ sup' \in SupervisorState /\ sup'.pc = "waiting"
      /\ sup'.descriptor = sup.trial /\ sup'.trial = NoDeployment
  BY DEF VerifyPasses
<1>3. UNCHANGED <<activeFile, previousFile, readyFiles, outcomes, client,
                 events, budget>>
      /\ pendingFile' = NoDeployment
      /\ activeFile = sup.trial /\ previousFile = sup.descriptor
  BY DEF VerifyPasses
<1>4. link' = link /\ link = Release[sup.trial]
  BY DEF VerifyPasses
<1> QED
  BY <1>1, <1>2, <1>3, <1>4

LEMMA VerifyFailsKeeps == IInv /\ VerifyFails => IInv'
  BY DEF VerifyFails, files, Running

LEMMA RestorePreviousKeeps == IInv /\ RestorePrevious => IInv'
  BY ReleaseType DEF RestorePrevious, Fatal

LEMMA ReportRollbackKeeps == IInv /\ ReportRollback => IInv'
<1> SUFFICES ASSUME IInv, ReportRollback PROVE IInv'
  OBVIOUS
<1> DEFINE s == [sup EXCEPT !.pc = "waiting", !.trial = NoDeployment]
<1>1. /\ s \in SupervisorState /\ s.pc = "waiting"
      /\ s.descriptor = sup.descriptor /\ s.trial = NoDeployment
  OBVIOUS
<1> HIDE DEF s
<1>2. SpawnClient(sup.descriptor, FALSE, s) /\ sup.pc = "restored"
  BY DEF ReportRollback, s
<1>3. \/ sup' = s /\ client' \in Client
      \/ sup' = [sup EXCEPT !.pc = "dead"] /\ client' = client
  BY <1>2, SpawnResult
<1> QED
  BY <1>1, <1>2, <1>3 DEF ReportRollback

LEMMA ChildFailsKeeps == IInv /\ ChildFails => IInv'
  BY DEF ChildFails, files, Exited

LEMMA RestartKeeps == IInv /\ Restart => IInv'
<1> SUFFICES ASSUME IInv, Restart PROVE IInv'
  OBVIOUS
<1> DEFINE s == [sup EXCEPT !.pc = "waiting", !.descriptor = activeFile]
<1>1. /\ s \in SupervisorState /\ s.pc = "waiting"
      /\ s.descriptor = activeFile /\ s.trial = NoDeployment
  BY DEF Restart
<1> HIDE DEF s
<1>2. SpawnClient(activeFile, FALSE, s) /\ sup.pc = "restarting"
  BY DEF Restart, s
<1>3. \/ sup' = s /\ client' \in Client
      \/ sup' = [sup EXCEPT !.pc = "dead"] /\ client' = client
  BY <1>2, SpawnResult
<1> QED
  BY <1>1, <1>2, <1>3 DEF Restart, files

LEMMA SupervisorKeeps == IInv /\ SupervisorStep => IInv'
  BY BootKeeps, BeginActivationKeeps, CommitActivationKeeps, ReapChildKeeps,
     VerifyPassesKeeps, VerifyFailsKeeps, RestorePreviousKeeps,
     ReportRollbackKeeps, ChildFailsKeeps, RestartKeeps
  DEF SupervisorStep

-----------------------------------------------------------------------------
(* The client's steps.                                                     *)

LEMMA SpendType ==
  ASSUME IInv, NEW kind \in {"command", "exit"}, Spend(kind)
  PROVE  /\ budget' \in [{"command", "exit", "reboot"} -> Nat]
         /\ budget'["reboot"] = budget["reboot"]
         /\ budget'["command"] <= budget["command"]
  BY DEF Spend

LEMMA ReportKeeps == IInv /\ (Connect \/ ReportSucceeded \/ WriteReady) => IInv'
<1>1. IInv /\ Connect => IInv'
  BY DEF Connect, ClientOnly, Running
<1>2. IInv /\ ReportSucceeded => IInv'
  BY DEF ReportSucceeded, ClientOnly, Running
<1>3. IInv /\ WriteReady => IInv'
  BY DEF WriteReady, ClientOnly, Running
<1> QED
  BY <1>1, <1>2, <1>3

LEMMA ReplayKeeps == IInv /\ Replay => IInv'
  BY DEF Replay, ReplayOutcome, ClientOnly, Running

LEMMA NowType == IInv => Now # 0 /\ Now \in Nat
  BY SupervisorAssumption DEF Now, KeptReleases

LEMMA StageKeeps ==
  ASSUME IInv, NEW d \in Deployments, StageDeployment(d)
  PROVE  IInv'
<1>1. /\ budget' \in [{"command", "exit", "reboot"} -> Nat]
      /\ budget'["reboot"] = budget["reboot"]
      /\ budget'["command"] <= budget["command"]
  BY SpendType DEF StageDeployment
<1>2. /\ releases' \in [Releases -> Nat]
      /\ \A x \in Deployments : IsInstalled(x) => IsInstalled(x)'
  BY NowType, ReleaseType DEF StageDeployment
<1>3. /\ client' \in Client
      /\ client'.process = client.process /\ client'.report = client.report
      /\ client'.descriptor = client.descriptor
  BY DEF StageDeployment
<1>4. UNCHANGED <<activeFile, previousFile, link, sup, pendingFile,
                 readyFiles, outcomes, events>>
  BY DEF StageDeployment, ClientOnly
<1>5. budget'["command"] <= MaxCommands
  BY <1>1, SupervisorAssumption
<1> QED
  BY <1>1, <1>2, <1>3, <1>4, <1>5

\* What a running client may do to the pending file and the events.
LEMMA HandoverStep ==
  ASSUME IInv, Running, ClientOnly,
         UNCHANGED <<readyFiles, outcomes, releases, budget>>,
         client' \in Client, client'.descriptor = client.descriptor,
         client'.report = client.report, pendingFile' \in Optional,
         events' \subseteq Deployments \X {"SUCCEEDED", "FAILED", "ROLLED_BACK"}
  PROVE  IInv'
  BY DEF ClientOnly, Running

LEMMA HandoverKeeps == IInv /\ Handover => IInv'
<1>1. ASSUME IInv, HandoverFails PROVE IInv'
  <2>1. /\ client' \in Client /\ client'.descriptor = client.descriptor
        /\ client'.report = client.report /\ client.handover \in Deployments
    BY <1>1 DEF HandoverFails
  <2> QED
    BY <1>1, <2>1, HandoverStep DEF HandoverFails
<1>2. ASSUME IInv, RequestActivation PROVE IInv'
  <2>1. /\ client' \in Client /\ client'.descriptor = client.descriptor
        /\ client'.report = client.report /\ client.handover \in Deployments
    BY <1>2 DEF RequestActivation
  <2> QED
    BY <1>2, <2>1, HandoverStep DEF RequestActivation
<1>3. ASSUME IInv, ExitForActivation PROVE IInv'
  <2>1. /\ client' \in Client /\ client'.descriptor = client.descriptor
        /\ client'.report = client.report
    BY <1>3 DEF ExitForActivation
  <2> QED
    BY <1>3, <2>1, HandoverStep DEF ExitForActivation
<1> QED
  BY <1>1, <1>2, <1>3, StageKeeps DEF Handover

LEMMA ClientExitsKeeps == IInv /\ ClientExits => IInv'
<1> SUFFICES ASSUME IInv, ClientExits PROVE IInv'
  OBVIOUS
<1>1. Spend("exit")
  BY DEF ClientExits
<1>2. /\ budget' \in [{"command", "exit", "reboot"} -> Nat]
      /\ budget'["reboot"] = budget["reboot"]
      /\ budget'["command"] <= MaxCommands
  BY <1>1 DEF Spend
<1> QED
  BY <1>2 DEF ClientExits, ClientOnly, Running

LEMMA RebootKeeps == IInv /\ Reboot => IInv'
<1> SUFFICES ASSUME IInv, Reboot PROVE IInv'
  OBVIOUS
<1>1. /\ sup'.pc = "boot" /\ sup'.trial = NoDeployment
      /\ sup'.descriptor = sup.descriptor /\ sup' \in SupervisorState
  BY DEF Reboot
<1>2. client' \in Client
  BY DEF Reboot
<1>3. /\ budget["reboot"] > 0 /\ budget'["command"] = budget["command"]
      /\ budget' \in [{"command", "exit", "reboot"} -> Nat]
  BY DEF Reboot, Spend
<1> QED
  BY <1>1, <1>2, <1>3 DEF Reboot, files

LEMMA NextKeeps == IInv /\ [Next]_vars => IInv'
<1>1. IInv /\ UNCHANGED vars => IInv'
  BY DEF vars, files
<1> QED
  BY <1>1, SupervisorKeeps, ReportKeeps, ReplayKeeps, HandoverKeeps,
     ClientExitsKeeps, RebootKeeps
  DEF Next

-----------------------------------------------------------------------------
(* The theorems.                                                           *)

HIDE DEF IInv, TypeOK, PhaseFiles, PhaseTrial, ReadyIsFresh, Restartable,
         OnTrial, IsInstalled

\* IInv is inductive, hence an invariant of supervisor and client.
THEOREM Invariance == Spec => []IInv
  BY InitIInv, NextKeeps, PTL DEF Spec

\* Every variable keeps its type, for any deployments and any events.
THEOREM TypeCorrect == Spec => []TypeOK
<1>1. IInv => TypeOK
  BY DEF IInv
<1> QED
  BY <1>1, Invariance, PTL

\* pruneReleases never removes a release that active.json, the supervisor or
\* previous-healthy.json names, whatever is installed and whenever the phone
\* is switched off.
THEOREM AlwaysRestartable == Spec => []Restartable
<1>1. IInv => Restartable
  BY DEF IInv
<1> QED
  BY <1>1, Invariance, PTL

\* Between activations the supervisor's memory, active.json and the link
\* "current" agree.
THEOREM FilesAreSettled == Spec => []SettledFiles
<1>1. IInv => SettledFiles
  BY DEF SettledFiles, IInv, PhaseFiles
<1> QED
  BY <1>1, Invariance, PTL

\* verifyClient accepts only a ready file of the client it watches.
THEOREM VerdictIsFresh == Spec => FreshVerdict
<1> DEFINE Fresh ==
      sup.pc = "verifying" /\ sup'.pc = "waiting" =>
        client.report = "ready" /\ client.descriptor = sup.trial
<1>1. ASSUME IInv, SupervisorStep, sup.pc = "verifying", sup'.pc = "waiting"
      PROVE  VerifyPasses
  BY <1>1 DEF IInv, TypeOK, SupervisorState, SupervisorStep, Boot,
              BeginActivation, CommitActivation, ReapChild, VerifyFails,
              RestorePrevious, ReportRollback, ChildFails, Restart
<1>2. ASSUME IInv, Next, sup.pc = "verifying", sup'.pc = "waiting"
      PROVE  SupervisorStep
  BY <1>2 DEF Next, Connect, ReportSucceeded, WriteReady, Replay,
              ReplayOutcome, Handover, StageDeployment, HandoverFails,
              RequestActivation, ExitForActivation, ClientExits, ClientOnly,
              IInv, TypeOK, SupervisorState, Reboot
<1>3. IInv /\ [Next]_vars => [Fresh]_vars
  BY <1>1, <1>2 DEF IInv, ReadyIsFresh, VerifyPasses, vars
<1> QED
  BY <1>3, Invariance, PTL DEF Spec, FreshVerdict

-----------------------------------------------------------------------------
(* The refinement of HealthGate.                                           *)

InForce == IF sup.pc \in {"boot", "dead"} THEN activeFile ELSE sup.descriptor
OnTrialOrNone == IF OnTrial THEN sup.trial ELSE NoDeployment
RolledBack == outcomes \cup {d \in Deployments : <<d, "ROLLED_BACK">> \in events}
Life == <<budget["reboot"], sup.pc = "dead">>
GateView == <<InForce, OnTrialOrNone, RolledBack, Life>>
GateStep == Gate!Next \/ UNCHANGED GateView

\* What a step leaves alone when it does not concern the supervisor's
\* memory, active.json, the record of roll-backs and the power switch.
LEMMA SameGate ==
  ASSUME UNCHANGED <<sup, activeFile, outcomes, events>>,
         budget'["reboot"] = budget["reboot"]
  PROVE  GateStep
  BY DEF GateStep, GateView, InForce, OnTrialOrNone, RolledBack, Life, OnTrial

\* A stop of the supervisor leaves one of the two deployments in force.
LEMMA StopsGate ==
  ASSUME IInv, Life' # Life, OnTrialOrNone' = NoDeployment,
         InForce' = InForce \/ (OnTrial /\ InForce' = sup.trial),
         \/ RolledBack' = RolledBack
         \/ OnTrial /\ RolledBack' = RolledBack \cup {sup.trial}
  PROVE  GateStep
<1>1. InForce # NoDeployment /\ (OnTrial => sup.trial # NoDeployment)
  BY SupervisorAssumption
  DEF InForce, IInv, TypeOK, SupervisorState, PhaseTrial
<1>2. Gate!Stop
  BY <1>1 DEF Gate!Stop, InForce, OnTrialOrNone, RolledBack, Life
<1> QED
  BY <1>2 DEF GateStep, Gate!Next

LEMMA SpawnFailure ==
  ASSUME NEW d, NEW g, NEW s, SpawnClient(d, g, s)
  PROVE  sup' = s \/ sup' = [sup EXCEPT !.pc = "dead"]
  BY DEF SpawnClient, Fatal

\* The types the steps below need.
LEMMA GateTypes ==
  ASSUME IInv
  PROVE  /\ sup \in SupervisorState /\ activeFile \in Deployments
         /\ pendingFile \in Optional /\ NoDeployment \notin Deployments
         /\ outcomes \subseteq Deployments
  BY SupervisorAssumption DEF IInv, TypeOK

LEMMA BootRefines == IInv /\ Boot => GateStep
<1> SUFFICES ASSUME IInv, Boot PROVE GateStep
  OBVIOUS
<1> USE DEF InForce, OnTrialOrNone, RolledBack, Life, OnTrial
<1>1. /\ sup.pc = "boot" /\ sup \in SupervisorState
      /\ UNCHANGED <<activeFile, outcomes, events, budget>>
      /\ IsInstalled(activeFile)
  BY GateTypes DEF Boot, IInv, Restartable
<1>2. \/ sup' = [sup EXCEPT !.pc = "waiting", !.descriptor = activeFile]
      \/ sup' = [sup EXCEPT !.pc = "dead"]
  BY <1>1, SpawnFailure DEF Boot
<1>3. CASE sup' = [sup EXCEPT !.pc = "waiting", !.descriptor = activeFile]
  BY <1>1, <1>3 DEF SupervisorState, GateStep, GateView
<1>4. CASE sup' = [sup EXCEPT !.pc = "dead"]
  <2>1. sup'.pc = "dead"
    BY <1>1, <1>4 DEF SupervisorState
  <2> QED
    BY <1>1, <2>1, StopsGate
<1> QED
  BY <1>2, <1>3, <1>4

LEMMA BeginRefines == IInv /\ BeginActivation => GateStep
<1> SUFFICES ASSUME IInv, BeginActivation PROVE GateStep
  OBVIOUS
<1> USE DEF InForce, OnTrialOrNone, RolledBack, Life, OnTrial
<1>1. /\ sup.pc = "waiting" /\ pendingFile \in Deployments
      /\ sup \in SupervisorState /\ activeFile = sup.descriptor
      /\ UNCHANGED <<activeFile, outcomes, events, budget>>
  BY GateTypes DEF BeginActivation, Optional, IInv, PhaseFiles
<1>2. CASE IsInstalled(pendingFile)
  <2>1. sup' = [sup EXCEPT !.pc = "committing", !.trial = pendingFile]
    BY <1>2 DEF BeginActivation
  <2>2. /\ sup'.pc = "committing" /\ sup'.trial = pendingFile
        /\ sup'.descriptor = sup.descriptor
    BY <1>1, <2>1 DEF SupervisorState
  <2>3. Gate!Begin(pendingFile)
    BY <1>1, <2>2 DEF Gate!Begin
  <2> QED
    BY <1>1, <2>3 DEF Gate!Next, GateStep
<1>3. CASE ~IsInstalled(pendingFile)
  <2>1. sup' = [sup EXCEPT !.pc = "dead"]
    BY <1>3 DEF BeginActivation, Fatal
  <2>2. sup'.pc = "dead"
    BY <1>1, <2>1 DEF SupervisorState
  <2> QED
    BY <1>1, <2>2, StopsGate
<1> QED
  BY <1>2, <1>3

LEMMA CommitRefines == IInv /\ CommitActivation => GateStep
<1> SUFFICES ASSUME IInv, CommitActivation PROVE GateStep
  OBVIOUS
<1> USE DEF InForce, OnTrialOrNone, RolledBack, Life, OnTrial
<1>1. /\ sup.pc = "committing" /\ sup \in SupervisorState
      /\ activeFile' = sup.trial
      /\ UNCHANGED <<outcomes, events, budget>>
  BY GateTypes DEF CommitActivation
<1>2. \/ sup' = [sup EXCEPT !.pc = "verifying"]
      \/ sup' = [sup EXCEPT !.pc = "dead"]
  BY SpawnFailure DEF CommitActivation
<1>3. CASE sup' = [sup EXCEPT !.pc = "verifying"]
  BY <1>1, <1>3 DEF SupervisorState, GateStep, GateView
<1>4. CASE sup' = [sup EXCEPT !.pc = "dead"]
  <2>1. sup'.pc = "dead"
    BY <1>1, <1>4 DEF SupervisorState
  <2> QED
    BY <1>1, <2>1, StopsGate
<1> QED
  BY <1>2, <1>3, <1>4

LEMMA RollbackRefines == IInv /\ ReportRollback => GateStep
<1> SUFFICES ASSUME IInv, ReportRollback PROVE GateStep
  OBVIOUS
<1> USE DEF InForce, OnTrialOrNone, RolledBack, Life, OnTrial
<1>1. /\ sup.pc = "restored" /\ sup \in SupervisorState
      /\ sup.trial \in Deployments /\ activeFile = sup.descriptor
      /\ outcomes' = outcomes \cup {sup.trial}
      /\ UNCHANGED <<activeFile, events, budget>>
  BY GateTypes DEF ReportRollback, IInv, PhaseTrial, PhaseFiles
<1>2. \/ sup' = [sup EXCEPT !.pc = "waiting", !.trial = NoDeployment]
      \/ sup' = [sup EXCEPT !.pc = "dead"]
  BY SpawnFailure DEF ReportRollback
<1>3. CASE sup' = [sup EXCEPT !.pc = "waiting", !.trial = NoDeployment]
  <2>1. sup'.pc = "waiting" /\ sup'.descriptor = sup.descriptor
    BY <1>1, <1>3 DEF SupervisorState
  <2>2. Gate!RollBack
    BY <1>1, <2>1, GateTypes DEF Gate!RollBack
  <2> QED
    BY <2>2 DEF Gate!Next, GateStep
<1>4. CASE sup' = [sup EXCEPT !.pc = "dead"]
  <2>1. sup'.pc = "dead"
    BY <1>1, <1>4 DEF SupervisorState
  <2> QED
    BY <1>1, <2>1, StopsGate
<1> QED
  BY <1>2, <1>3, <1>4

LEMMA RestartRefines == IInv /\ Restart => GateStep
<1> SUFFICES ASSUME IInv, Restart PROVE GateStep
  OBVIOUS
<1> USE DEF InForce, OnTrialOrNone, RolledBack, Life, OnTrial
<1>1. /\ sup.pc = "restarting" /\ sup \in SupervisorState
      /\ activeFile = sup.descriptor
      /\ UNCHANGED <<activeFile, outcomes, events, budget>>
  BY GateTypes DEF Restart, files, IInv, PhaseFiles
<1>2. \/ sup' = [sup EXCEPT !.pc = "waiting", !.descriptor = activeFile]
      \/ sup' = [sup EXCEPT !.pc = "dead"]
  BY SpawnFailure DEF Restart
<1>3. CASE sup' = [sup EXCEPT !.pc = "waiting", !.descriptor = activeFile]
  BY <1>1, <1>3 DEF SupervisorState, GateStep, GateView
<1>4. CASE sup' = [sup EXCEPT !.pc = "dead"]
  <2>1. sup'.pc = "dead"
    BY <1>1, <1>4 DEF SupervisorState
  <2> QED
    BY <1>1, <2>1, StopsGate
<1> QED
  BY <1>2, <1>3, <1>4

\* The steps of the supervisor that neither begin nor end anything, and the
\* one that passes the verdict.
LEMMA OtherStepsRefine ==
  IInv /\ (ReapChild \/ VerifyPasses \/ VerifyFails \/ RestorePrevious \/ ChildFails)
    => GateStep
<1> SUFFICES ASSUME IInv,
                    ReapChild \/ VerifyPasses \/ VerifyFails \/ RestorePrevious
                      \/ ChildFails
             PROVE  GateStep
  OBVIOUS
<1>0. sup \in SupervisorState
  BY GateTypes
<1> USE DEF InForce, OnTrialOrNone, RolledBack, Life, OnTrial
<1>1. CASE ReapChild
  BY <1>1, SameGate DEF ReapChild, files
<1>2. CASE VerifyPasses
  <2>1. /\ sup.pc = "verifying" /\ sup'.pc = "waiting"
        /\ sup'.descriptor = sup.trial /\ sup.trial \in Deployments
        /\ UNCHANGED <<outcomes, events, budget>>
    BY <1>0, <1>2 DEF VerifyPasses, SupervisorState, IInv, PhaseTrial
  <2>2. Gate!Commit
    BY <2>1, GateTypes DEF Gate!Commit
  <2> QED
    BY <2>2 DEF Gate!Next, GateStep
<1>3. CASE VerifyFails
  BY <1>0, <1>3 DEF VerifyFails, SupervisorState, files, GateStep, GateView
<1>4. CASE RestorePrevious
  <2>1. /\ sup.pc = "stopping" /\ sup' = [sup EXCEPT !.pc = "restored"]
        /\ UNCHANGED <<outcomes, events, budget>>
    BY <1>4 DEF RestorePrevious, IInv, Restartable
  <2> QED
    BY <1>0, <2>1 DEF SupervisorState, GateStep, GateView
<1>5. CASE ChildFails
  BY <1>0, <1>5 DEF ChildFails, SupervisorState, files, GateStep, GateView
<1> QED
  BY <1>1, <1>2, <1>3, <1>4, <1>5

LEMMA RebootRefines == IInv /\ Reboot => GateStep
<1> SUFFICES ASSUME IInv, Reboot PROVE GateStep
  OBVIOUS
<1> USE DEF InForce, OnTrialOrNone, RolledBack, Life, OnTrial
<1>1. /\ sup'.pc = "boot" /\ sup \in SupervisorState
      /\ UNCHANGED <<activeFile, outcomes, events>>
  BY GateTypes DEF Reboot, SupervisorState, files
<1>2. budget'["reboot"] # budget["reboot"]
  BY DEF Reboot, Spend, IInv, TypeOK
<1>3. activeFile = InForce \/ (OnTrial /\ activeFile = sup.trial)
  BY <1>1 DEF IInv, PhaseFiles, SupervisorState
<1> QED
  BY <1>1, <1>2, <1>3, StopsGate

LEMMA SupervisorRefines == IInv /\ SupervisorStep => GateStep
  BY BootRefines, BeginRefines, CommitRefines, RollbackRefines, RestartRefines,
     OtherStepsRefine
  DEF SupervisorStep

LEMMA ClientRefines ==
  ASSUME IInv, Connect \/ ReportSucceeded \/ WriteReady \/ Replay \/ Handover
                 \/ ClientExits
  PROVE  GateStep
<1> USE DEF ClientOnly
<1>1. CASE Connect \/ WriteReady
  BY <1>1, SameGate DEF Connect, WriteReady
<1>2. CASE ClientExits
  <2>1. budget'["reboot"] = budget["reboot"]
    BY <1>2, SpendType DEF ClientExits
  <2> QED
    BY <1>2, <2>1, SameGate DEF ClientExits
<1>3. CASE ReportSucceeded
  <2>1. RolledBack' = RolledBack
    BY <1>3 DEF ReportSucceeded, RolledBack
  <2> QED
    BY <1>3, <2>1
    DEF ReportSucceeded, GateStep, GateView, InForce, OnTrialOrNone, OnTrial, Life
<1>4. CASE Replay
  <2>1. RolledBack' = RolledBack
    BY <1>4 DEF Replay, ReplayOutcome, IInv, TypeOK, RolledBack
  <2> QED
    BY <1>4, <2>1
    DEF Replay, ReplayOutcome, GateStep, GateView, InForce, OnTrialOrNone,
        OnTrial, Life
<1>5. CASE HandoverFails
  <2>1. RolledBack' = RolledBack
    BY <1>5 DEF HandoverFails, RolledBack
  <2> QED
    BY <1>5, <2>1
    DEF HandoverFails, GateStep, GateView, InForce, OnTrialOrNone, OnTrial, Life
<1>6. ASSUME NEW d \in Deployments, StageDeployment(d)
      PROVE  GateStep
  <2>1. budget'["reboot"] = budget["reboot"]
    BY <1>6, SpendType DEF StageDeployment
  <2> QED
    BY <1>6, <2>1, SameGate DEF StageDeployment
<1>7. CASE RequestActivation \/ ExitForActivation
  BY <1>7, SameGate DEF RequestActivation, ExitForActivation
<1> QED
  BY <1>1, <1>2, <1>3, <1>4, <1>5, <1>6, <1>7 DEF Handover

LEMMA NextRefines == IInv /\ [Next]_vars => GateStep
<1>1. UNCHANGED vars => GateStep
  BY SameGate DEF vars, files
<1> QED
  BY <1>1, SupervisorRefines, ClientRefines, RebootRefines DEF Next

\* The supervisor implements the health gate, whatever deployments are asked
\* for, can be spawned and prove healthy, and whenever the phone is switched
\* off.
THEOREM ImplementsHealthGate == Spec => GateSpec
<1>1. Init => Gate!Init
  BY DEF Init, Gate!Init, OnTrial
<1>2. IInv /\ [Next]_vars => [Gate!Next]_GateView
  BY NextRefines DEF GateStep
<1> QED
  BY <1>1, <1>2, Invariance, PTL
  DEF Spec, GateSpec, Gate!Spec, GateView, InForce, OnTrialOrNone, RolledBack, Life
=============================================================================
