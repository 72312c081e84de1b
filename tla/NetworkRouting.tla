---------------------------- MODULE NetworkRouting ----------------------------
(***************************************************************************)
(* Persistent network routing of the phone client:                         *)
(* mobile/src/network-routing.ts (apply, disable, restore at the start,    *)
(* drift check), network-change-monitor.ts, mqtt-reconnect.ts and the      *)
(* client's use of them.  An operation waits for its turn (runExclusive)   *)
(* and then goes on from one await to the next; in between the network     *)
(* changes, Android drops a rule, and the client or the phone restarts.    *)
(*                                                                         *)
(* The kernel's managed rules are one value per group of rules, in the     *)
(* order the root command writes them.  A command may stop anywhere: it    *)
(* leaves the groups it has written.                                       *)
(***************************************************************************)
EXTENDS NetworkPolicy, Sequences

CONSTANTS
  Policies,        \* the policies requests carry, well-formed or not
  Networks,        \* the states Android's networks can be in
  Calm,            \* the networks at the start
  None,            \* no rule in a group, no policy
  Block,           \* the table whose only route is unreachable
  MaxGeneration, MaxRequests,
  MaxTroubles      \* failed calls, changes around the manager and restarts

Transports == {"wifi", "carrier"}
Ops == {"task", "periodic", "change"}
Groups == <<"bound", "management", "lan", "default4", "default6", "ndc">>
GroupNames == {Groups[i] : i \in 1..Len(Groups)}

ASSUME NetworkRoutingAssumption ==
  /\ Calm \in Networks /\ None \notin Policies
  /\ MaxGeneration \in Nat /\ MaxRequests \in Nat /\ MaxTroubles \in Nat
  /\ MaxGeneration > 0

VARIABLES
  net,        \* Android's networks, as dumpsys and the route tables show them
  rules,      \* the managed rules in the kernel
  disk,       \* state.json
  state,      \* the same in the manager's memory
  phase,      \* the client: restoring, then serving
  queue,      \* operationTail: the operations in the order of their calls
  runs,       \* the operation each caller has under way
  monitor,    \* ip monitor: whether it runs, and its debounce timer
  mqtt,       \* the management connection
  retained,   \* the retained routing status at the broker
  last,       \* history: outcome of the last operation that wrote rules
  touched,    \* history: the kernel or the network changed since it was read
  budget      \* events left

vars == <<net, rules, disk, state, phase, queue, runs, monitor, mqtt, retained,
          last, touched, budget>>

Clear == [g \in GroupNames |-> None]
Disabled(generation) ==
  [active |-> FALSE, generation |-> generation, policy |-> None,
   baseline |-> None, status |-> "DISABLED"]
Statuses == {"DISABLED", "RECOVERING", "ACTIVE", "DEGRADED"}
Resting == [pc |-> "idle", kind |-> "none", request |-> None, snapshot |-> None,
            exit |-> None, previous |-> None]

\* The requests the executor hands over: a generation and a policy.
Requests == [kind : {"apply"}, generation : 1..MaxGeneration, policy : Policies]
            \cup [kind : {"disable"}, generation : 1..MaxGeneration,
                  policy : {None}]

TypeOK ==
  /\ net \in Networks
  /\ DOMAIN rules = GroupNames
  /\ \A s \in {disk, state} :
       /\ s.active \in BOOLEAN
       /\ s.generation \in 0..MaxGeneration
       /\ s.status \in Statuses
       /\ s.active <=> s.policy # None
  /\ phase \in {"restoring", "serving"}
  /\ \A i, j \in 1..Len(queue) : queue[i] \in Ops /\ (queue[i] = queue[j] => i = j)
  /\ \A o \in Ops : runs[o].pc = "idle" <=> \A i \in 1..Len(queue) : queue[i] # o
  /\ monitor \in [running : BOOLEAN, debounce : BOOLEAN]
  /\ mqtt \in {"up", "down"}
  /\ touched \in BOOLEAN
  /\ \A b \in DOMAIN budget : budget[b] >= 0

Init ==
  /\ net = Calm
  /\ rules = Clear
  /\ disk = Disabled(0)
  /\ state = disk
  /\ phase = "serving"
  /\ queue = <<>>
  /\ runs = [o \in Ops |-> Resting]
  /\ monitor = [running |-> TRUE, debounce |-> FALSE]
  /\ mqtt = "up"
  /\ retained = [status |-> "DISABLED", generation |-> 0]
  /\ last = "none"
  /\ touched = FALSE
  /\ budget = [requests |-> MaxRequests, troubles |-> MaxTroubles]

-----------------------------------------------------------------------------
(* What Android shows and what the commands write. *)

Up(n, transport) == IF transport = "wifi" THEN n.wifi ELSE n.carrier # None

Usable(n) == ~n.vpn /\ n.wifi /\ n.carrier # None
Prerequisites(n, policy) ==
  /\ n.data
  /\ policy.target = "carrier" => n.telecom

\* The route table of a transport; that of the carrier is its interface.
Table(snapshot, transport) ==
  IF transport = "wifi" THEN "wlan0" ELSE snapshot.carrier

Want(policy, snapshot) ==
  LET steered == policy.target # "default" IN
  [bound |-> <<"wlan0", snapshot.carrier>>,
   management |-> snapshot.management,
   lan |-> policy.lan,
   default4 |-> IF steered THEN Table(snapshot, policy.target) ELSE None,
   default6 |-> IF ~steered THEN None
                ELSE IF policy.target \in snapshot.ipv6
                     THEN Table(snapshot, policy.target) ELSE Block,
   ndc |-> IF steered THEN snapshot.default ELSE None]

\* The first k commands of a script that clears the managed rules, writes the
\* groups in order and leaves the pinned default alone unless it sets it.
Written(want, k) ==
  IF k = 0 THEN rules
  ELSE [g \in GroupNames |->
          IF \E i \in 1..Len(Groups) : i < k /\ Groups[i] = g /\ want[g] # None
          THEN want[g]
          ELSE IF g = "ndc" THEN rules[g] ELSE None]
Steps == 0..(Len(Groups) + 1)
AllSteps == Len(Groups) + 1

AssertApplied(policy, snapshot, seen) ==
  \A g \in GroupNames \ {"ndc"} : seen[g] = Want(policy, snapshot)[g]

\* Where unbound traffic leaves the phone, None if nowhere.
Exit ==
  LET through == IF rules.default4 = None THEN net.default
                 ELSE IF rules.default4 = "wlan0" THEN "wifi"
                 ELSE IF rules.default4 = net.carrier THEN "carrier" ELSE None
  IN IF through # None /\ Up(net, through) THEN through ELSE None

\* The bound probe of a policy goes out by its target, without one as usual.
BoundExit(policy) ==
  IF policy.target = "default" THEN Exit
  ELSE IF Up(net, policy.target) THEN policy.target ELSE None

-----------------------------------------------------------------------------
(* The steps of an operation. *)

Turn(o) == queue # <<>> /\ Head(queue) = o
At(o, pc) == Turn(o) /\ runs[o].pc = pc
Reported(s) == [status |-> s.status, generation |-> s.generation]

\* saveState, then emitStatus: nothing is published on a closed connection.
Save(s) ==
  /\ disk' = s
  /\ state' = s
  /\ retained' = IF mqtt = "up" THEN Reported(s) ELSE retained

RuntimeStatus(s) == Save([state EXCEPT !.status = s])

Leave(o) ==
  /\ runs' = [runs EXCEPT ![o] = Resting]
  /\ queue' = Tail(queue)
  /\ phase' = "serving"

Goto(o, pc) ==
  /\ runs' = [runs EXCEPT ![o].pc = pc]
  /\ UNCHANGED <<queue, phase>>

\* One awaited call of this step failed.
Trouble == budget.troubles > 0 /\ budget' = [budget EXCEPT !.troubles = @ - 1]

Policy(o) == IF runs[o].kind = "apply" THEN runs[o].request.policy
             ELSE state.policy

\* An error: an apply that has not written the rules yet answers with the
\* failure, one that has rolls back, the others are degraded.
Fails(o) ==
  IF runs[o].kind # "apply"
  THEN Leave(o) /\ RuntimeStatus("DEGRADED") /\ last' = "DEGRADED"
  ELSE /\ IF runs[o].pc \in {"inspect", "probe"} THEN Leave(o) ELSE Goto(o, "rollback")
       /\ UNCHANGED <<disk, state, retained, last>>

\* A request comes in; a drift check is due; the client has just started.
Call(o, kind, request) ==
  /\ runs[o].pc = "idle"
  /\ runs' = [runs EXCEPT ![o] = [Resting EXCEPT !.pc = "waiting",
                                  !.kind = kind, !.request = request]]
  /\ queue' = Append(queue, o)

Request(request) ==
  /\ phase = "serving" /\ budget.requests > 0
  /\ Call("task", request.kind, request)
  /\ budget' = [budget EXCEPT !.requests = @ - 1]
  /\ UNCHANGED <<net, rules, disk, state, phase, monitor, mqtt, retained, last,
                 touched>>

\* The 60 s timer.
PeriodicCheck ==
  /\ phase = "serving"
  /\ Call("periodic", "drift", None)
  /\ UNCHANGED <<net, rules, disk, state, phase, monitor, mqtt, retained, last,
                 touched, budget>>

\* The debounced event of ip monitor.
ReconcileChange ==
  /\ phase = "serving" /\ monitor.debounce
  /\ Call("change", "drift", None)
  /\ monitor' = [monitor EXCEPT !.debounce = FALSE]
  /\ UNCHANGED <<net, rules, disk, state, phase, mqtt, retained, last, touched,
                 budget>>

\* applyExclusive up to its first await.  A policy that is malformed, of an older
\* generation or already in force is answered at once.
BeginApply ==
  LET r == runs["task"].request IN
  /\ At("task", "waiting") /\ runs["task"].kind = "apply"
  /\ IF Accepted(r.policy) /\ r.generation > state.generation
     THEN /\ runs' = [runs EXCEPT !["task"].pc = "inspect",
                                  !["task"].previous = state]
          /\ UNCHANGED <<queue, phase>>
     ELSE Leave("task")
  /\ UNCHANGED <<net, rules, disk, state, monitor, mqtt, retained, last, touched,
                 budget>>

\* disableExclusive up to its first await.
BeginDisable ==
  /\ At("task", "waiting") /\ runs["task"].kind = "disable"
  /\ IF runs["task"].request.generation > state.generation
     THEN Goto("task", "removal")
     ELSE Leave("task")
  /\ UNCHANGED <<net, rules, disk, state, monitor, mqtt, retained, last, touched,
                 budget>>

\* checkDriftExclusive up to its first await.
BeginDrift(o) ==
  LET retry == o = "change" \/ state.status = "DEGRADED" IN
  /\ At(o, "waiting") /\ runs[o].kind = "drift"
  /\ IF state.active THEN Goto(o, "inspect") ELSE Leave(o)
  /\ IF state.active /\ retry THEN RuntimeStatus("RECOVERING")
     ELSE UNCHANGED <<disk, state, retained>>
  /\ UNCHANGED <<net, rules, monitor, mqtt, last, touched, budget>>

\* restoreOnStartupExclusive up to its first await.
BeginRestore(o) ==
  /\ At(o, "waiting") /\ runs[o].kind = "restore"
  /\ IF state.active THEN Goto(o, "inspect") /\ RuntimeStatus("RECOVERING")
     ELSE Leave(o) /\ UNCHANGED <<disk, state, retained>>
  /\ UNCHANGED <<net, rules, monitor, mqtt, last, touched, budget>>

Snapshot == [carrier |-> net.carrier, management |-> net.management,
             ipv6 |-> net.ipv6, default |-> net.default]

\* Seeded defect: a drift check trusts the probes alone.
InspectUnasserted(o) ==
  /\ At(o, "inspect")
  /\ Usable(net) /\ Prerequisites(net, Policy(o))
  /\ runs' = [runs EXCEPT ![o].snapshot = Snapshot,
                ![o].pc = IF runs[o].kind = "restore" THEN "command" ELSE "probe"]
  /\ UNCHANGED <<net, rules, disk, state, phase, queue, monitor, mqtt, retained,
                 last, touched, budget>>

Inspect(o) ==
  /\ At(o, "inspect")
  /\ Usable(net) /\ Prerequisites(net, Policy(o))
  /\ LET applied == AssertApplied(Policy(o), Snapshot, rules)
         next == CASE runs[o].kind = "apply" -> "probe"
                   [] runs[o].kind = "restore" -> "command"
                   [] OTHER -> IF applied THEN "probe" ELSE "command"
     IN /\ runs' = [runs EXCEPT ![o].pc = next, ![o].snapshot = Snapshot]
        /\ touched' = IF runs[o].kind = "drift" /\ applied THEN FALSE ELSE touched
  /\ UNCHANGED <<net, rules, disk, state, phase, queue, monitor, mqtt, retained,
                 last, budget>>

\* runProbes over the interfaces, which gives the exit the target has.
ProbeBound(o) ==
  /\ At(o, "probe")
  /\ net.wifi /\ BoundExit(Policy(o)) # None
  /\ runs' = [runs EXCEPT ![o].exit = BoundExit(Policy(o)),
                ![o].pc = IF runs[o].kind = "apply" THEN "command" ELSE "postprobe"]
  /\ UNCHANGED <<net, rules, disk, state, phase, queue, monitor, mqtt, retained,
                 last, touched, budget>>

\* buildApplyCommand with what was inspected.
ApplyRules(o) ==
  /\ At(o, "command")
  /\ rules' = Written(Want(Policy(o), runs[o].snapshot), AllSteps)
  /\ Goto(o, IF runs[o].kind = "restore" THEN "verify" ELSE "reconnect")
  /\ UNCHANGED <<net, disk, state, monitor, mqtt, retained, last, touched, budget>>

\* reconnectManagement: the socket is closed and opened again; the broker
\* is told the status the manager has now.
Reconnect(o) ==
  /\ At(o, "reconnect")
  /\ Exit # None
  /\ mqtt' = "up"
  /\ retained' = Reported(state)
  /\ Goto(o, "verify")
  /\ UNCHANGED <<net, rules, disk, state, monitor, last, touched, budget>>

Verify(o) ==
  /\ At(o, "verify")
  /\ Usable(net) /\ AssertApplied(Policy(o), Snapshot, rules)
  /\ touched' = FALSE
  /\ IF runs[o].kind = "restore"
     THEN RuntimeStatus("ACTIVE") /\ last' = "OK" /\ Leave(o)
     ELSE /\ Goto(o, IF runs[o].kind = "apply" THEN "postprobe" ELSE "probe")
          /\ UNCHANGED <<disk, state, retained, last>>
  /\ UNCHANGED <<net, rules, monitor, mqtt, budget>>

\* The unbound probes, the comparison of the exits, and the state saved.
ProbeUnbound(o) ==
  /\ At(o, "postprobe")
  /\ net.wifi /\ Exit # None
  /\ Policy(o).target = "default" \/ Exit = runs[o].exit
  /\ Leave(o)
  /\ last' = "OK"
  /\ IF runs[o].kind = "drift" THEN RuntimeStatus("ACTIVE")
     ELSE LET r == runs[o].request IN
          Save([active |-> TRUE, generation |-> r.generation, policy |-> r.policy,
                baseline |-> IF runs[o].previous.active
                             THEN runs[o].previous.baseline
                             ELSE runs[o].snapshot.default,
                status |-> "ACTIVE"])
  /\ UNCHANGED <<net, rules, monitor, mqtt, touched, budget>>

\* The step finds what makes it throw, or a call it awaits fails.
Refused(o) ==
  CASE runs[o].pc = "inspect" -> ~(Usable(net) /\ Prerequisites(net, Policy(o)))
    [] runs[o].pc = "probe" -> ~(net.wifi /\ BoundExit(Policy(o)) # None)
    [] runs[o].pc = "reconnect" -> Exit = None
    [] runs[o].pc = "verify" ->
         ~(Usable(net) /\ AssertApplied(Policy(o), Snapshot, rules))
    [] runs[o].pc = "postprobe" ->
         ~(net.wifi /\ Exit # None
           /\ (Policy(o).target = "default" \/ Exit = runs[o].exit))
    [] OTHER -> FALSE

StepFails(o) ==
  /\ Turn(o)
  /\ runs[o].pc \in {"inspect", "probe", "command", "reconnect", "verify",
                     "postprobe"}
  /\ \/ Refused(o) /\ UNCHANGED budget
     \/ Trouble
  /\ \E k \in Steps \ {AllSteps} :
       rules' = IF runs[o].pc = "command"
                THEN Written(Want(Policy(o), runs[o].snapshot), k) ELSE rules
  /\ mqtt' = IF runs[o].pc = "reconnect" THEN "down" ELSE mqtt
  /\ Fails(o)
  /\ UNCHANGED <<net, monitor, touched>>

-----------------------------------------------------------------------------
(* Rolling an apply back, and disabling. *)

\* removeManagedRules
Cleared(netId) == [Clear EXCEPT !["ndc"] = netId]

\* Seeded defect: a failed apply clears the rules, whatever was in force.
RestoreNothing ==
  /\ At("task", "rollback")
  /\ rules' = Cleared(runs["task"].snapshot.default)
  /\ touched' = FALSE
  /\ Goto("task", "rollbackReconnect")
  /\ UNCHANGED <<net, disk, state, monitor, mqtt, retained, last, budget>>

\* The rules of the policy before are written again, or none.
RestorePrevious ==
  /\ At("task", "rollback")
  /\ LET previous == runs["task"].previous IN
     IF previous.active
     THEN Usable(net) /\ rules' = Written(Want(previous.policy, Snapshot), AllSteps)
     ELSE rules' = Cleared(runs["task"].snapshot.default)
  /\ touched' = FALSE
  /\ Goto("task", "rollbackReconnect")
  /\ UNCHANGED <<net, disk, state, monitor, mqtt, retained, last, budget>>

RolledBack ==
  /\ At("task", "rollbackReconnect")
  /\ Exit # None
  /\ mqtt' = "up"
  /\ state' = runs["task"].previous
  /\ retained' = Reported(runs["task"].previous)
  /\ last' = "ROLLED_BACK"
  /\ Leave("task")
  /\ UNCHANGED <<net, rules, disk, monitor, touched, budget>>

\* What is saved has the generation of the request and, if there was one,
\* the policy before it.
RollbackFails ==
  LET run == runs["task"] previous == run.previous IN
  /\ Turn("task") /\ run.pc \in {"rollback", "rollbackReconnect"}
  /\ \/ /\ \/ run.pc = "rollback" /\ previous.active /\ ~Usable(net)
           \/ run.pc = "rollbackReconnect" /\ Exit = None
        /\ UNCHANGED <<budget, rules>>
     \/ /\ Trouble
        /\ \E k \in Steps \ {AllSteps} :
             rules' = IF run.pc = "rollback"
                      THEN Written(IF previous.active /\ Usable(net)
                                   THEN Want(previous.policy, Snapshot)
                                   ELSE Clear, k)
                      ELSE rules
  /\ mqtt' = IF run.pc = "rollbackReconnect" THEN "down" ELSE mqtt
  /\ LET s == [active |-> TRUE, generation |-> run.request.generation,
               policy |-> IF previous.active THEN previous.policy
                          ELSE run.request.policy,
               baseline |-> IF previous.baseline # None THEN previous.baseline
                            ELSE run.snapshot.default,
               status |-> "DEGRADED"]
     IN /\ disk' = s /\ state' = s
        /\ retained' = IF mqtt' = "up" THEN Reported(s) ELSE retained
  /\ last' = "ROLLBACK_FAILED"
  /\ Leave("task")
  /\ UNCHANGED <<net, monitor, touched>>

\* With the default network of now, or the one recorded before routing was
\* enabled if that cannot be read.
RemoveRules ==
  /\ At("task", "removal")
  /\ \/ rules' = Cleared(net.default) /\ UNCHANGED budget
     \/ rules' = Cleared(state.baseline) /\ Trouble
  /\ touched' = FALSE
  /\ Goto("task", "removed")
  /\ UNCHANGED <<net, disk, state, monitor, mqtt, retained, last>>

\* Seeded defect: the generation of the request is not kept.
DisableDoneKeepsGeneration ==
  /\ At("task", "removed")
  /\ Exit # None
  /\ mqtt' = "up"
  /\ disk' = Disabled(state.generation) /\ state' = disk'
  /\ retained' = Reported(disk')
  /\ last' = "DISABLED"
  /\ Leave("task")
  /\ UNCHANGED <<net, rules, monitor, touched, budget>>

\* Seeded defect: the policy stays in the state that says it is not active.
DisableDoneKeepingPolicy ==
  /\ At("task", "removed")
  /\ Exit # None
  /\ mqtt' = "up"
  /\ LET s == [state EXCEPT !.active = FALSE, !.status = "DISABLED",
                 !.generation = runs["task"].request.generation] IN
     disk' = s /\ state' = s /\ retained' = Reported(s)
  /\ last' = "DISABLED"
  /\ Leave("task")
  /\ UNCHANGED <<net, rules, monitor, touched, budget>>

DisableDone ==
  /\ At("task", "removed")
  /\ Exit # None
  /\ mqtt' = "up"
  /\ LET s == Disabled(runs["task"].request.generation) IN
     disk' = s /\ state' = s /\ retained' = Reported(s)
  /\ last' = "DISABLED"
  /\ Leave("task")
  /\ UNCHANGED <<net, rules, monitor, touched, budget>>

\* The state stays as it was, whatever has been removed.
DisableFails ==
  /\ Turn("task") /\ runs["task"].pc \in {"removal", "removed"}
  /\ \/ runs["task"].pc = "removed" /\ Exit = None /\ UNCHANGED budget
     \/ Trouble
  /\ \E k \in {0, 1} :
       rules' = IF runs["task"].pc = "removal" THEN Written(Clear, k) ELSE rules
  /\ mqtt' = IF runs["task"].pc = "removed" THEN "down" ELSE mqtt
  /\ last' = "DISABLE_FAILED"
  /\ Leave("task")
  /\ UNCHANGED <<net, disk, state, monitor, retained, touched>>

-----------------------------------------------------------------------------
(* Around the manager. *)

\* ip monitor reports a change; the debounce timer is set again.
Noticed == [monitor EXCEPT !.debounce = @ \/ monitor.running]

NetworkChanges ==
  /\ Trouble
  /\ \E n \in Networks \ {net} : net' = n
  /\ monitor' = Noticed
  /\ touched' = TRUE
  /\ UNCHANGED <<rules, disk, state, phase, queue, runs, mqtt, retained, last>>

\* Android rewrites its rules and loses one of the managed ones.
RuleLost ==
  /\ Trouble
  /\ \E g \in GroupNames \ {"ndc"} :
       rules[g] # None /\ rules' = [rules EXCEPT ![g] = None]
  /\ touched' = TRUE
  /\ UNCHANGED <<net, disk, state, phase, queue, runs, monitor, mqtt, retained,
                 last>>

\* What it would have reported until it is restarted is lost.
MonitorExits ==
  /\ Trouble /\ monitor.running
  /\ monitor' = [monitor EXCEPT !.running = FALSE]
  /\ UNCHANGED <<net, rules, disk, state, phase, queue, runs, mqtt, retained,
                 last, touched>>

\* It starts once the routes are restored, and again five seconds after it exits.
MonitorStarts ==
  /\ phase = "serving" /\ ~monitor.running
  /\ monitor' = [monitor EXCEPT !.running = TRUE]
  /\ UNCHANGED <<net, rules, disk, state, phase, queue, runs, mqtt, retained,
                 last, touched, budget>>

ConnectionLost ==
  /\ Trouble /\ mqtt = "up"
  /\ mqtt' = "down"
  /\ UNCHANGED <<net, rules, disk, state, phase, queue, runs, monitor, retained,
                 last, touched>>

\* The client connects only when it has restored the routes.
Connected ==
  /\ phase = "serving" /\ mqtt = "down" /\ Exit # None
  /\ mqtt' = "up"
  /\ retained' = Reported(state)
  /\ UNCHANGED <<net, rules, disk, state, phase, queue, runs, monitor, last,
                 touched, budget>>

\* The client restarts, or the phone, which forgets the rules.  The state is
\* read from the disk and the first operation restores the routes; until it
\* has, ip monitor does not run.
Restart ==
  /\ Trouble
  /\ rules' \in {rules, Clear}
  /\ state' = disk
  /\ phase' = "restoring"
  /\ runs' = [o \in Ops |-> IF o = "task"
                            THEN [Resting EXCEPT !.pc = "waiting",
                                                 !.kind = "restore"]
                            ELSE Resting]
  /\ queue' = <<"task">>
  /\ monitor' = [running |-> FALSE, debounce |-> FALSE]
  /\ mqtt' = "down"
  /\ touched' = TRUE
  /\ UNCHANGED <<net, disk, retained, last>>

OpSteps(o) ==
  \/ BeginDrift(o) \/ BeginRestore(o) \/ Inspect(o) \/ ProbeBound(o)
  \/ ApplyRules(o) \/ Reconnect(o) \/ Verify(o) \/ ProbeUnbound(o) \/ StepFails(o)

TaskSteps ==
  \/ BeginApply \/ BeginDisable \/ RestorePrevious \/ RolledBack \/ RollbackFails
  \/ RemoveRules \/ DisableDone \/ DisableFails

Environment ==
  \/ \E r \in Requests : Request(r)
  \/ NetworkChanges \/ RuleLost \/ MonitorExits \/ ConnectionLost \/ Restart

Next ==
  \/ \E o \in Ops : OpSteps(o)
  \/ TaskSteps
  \/ PeriodicCheck \/ ReconcileChange \/ MonitorStarts \/ Connected
  \/ Environment

Spec == Init /\ [][Next]_vars

\* An operation under way goes on: every call it awaits has a timeout.  The
\* timers fire, and MQTT.js connects again.
FairSpec ==
  /\ Spec
  /\ \A o \in Ops : WF_vars(OpSteps(o))
  /\ WF_vars(TaskSteps)
  /\ WF_vars(PeriodicCheck) /\ WF_vars(ReconcileChange) /\ WF_vars(Connected)

-----------------------------------------------------------------------------
Idle == queue = <<>>
InForce == AssertApplied(state.policy, Snapshot, rules)
NoRules == \A g \in GroupNames \ {"ndc"} : rules[g] = None

\* What the last operation that wrote rules answered is what the kernel has,
\* as long as nothing else changes it: the policy it saved or rolled back to,
\* or none.  Operations take turns, and a drift check that came in between two
\* steps of a disable would put back what it removes.
KernelAsPromised ==
  Idle /\ ~touched /\ last \in {"OK", "DISABLED", "ROLLED_BACK"} =>
    /\ state.active /\ state.status = "ACTIVE" => InForce
    /\ ~state.active => NoRules

\* Routing is disabled by a later generation, and then only a policy of a
\* still later one brings rules back: no restart, no drift check and no request
\* that was delivered late does.
DisabledStaysDisabled ==
  [][ /\ disk'.generation >= disk.generation
      /\ disk.active /\ ~disk'.active => disk'.generation > disk.generation
      /\ ~disk.active /\ NoRules /\ ~NoRules' =>
           /\ runs["task"].kind = "apply"
           /\ runs["task"].request.generation > disk.generation ]_vars

\* When no more goes wrong, the reported status becomes true: ACTIVE with the
\* policy in force where the network allows it, never ACTIVE where it does not.
\* It takes no event of ip monitor, which may have died.
Allowed == Usable(net) /\ Prerequisites(net, state.policy)
           /\ (state.policy.target = "default" => Up(net, net.default))
StatusBecomesTrue ==
  <>[](state.active => IF Allowed THEN state.status = "ACTIVE" /\ InForce
                       ELSE state.status # "ACTIVE")
=============================================================================
