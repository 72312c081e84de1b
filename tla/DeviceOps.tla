------------------------------ MODULE DeviceOps ------------------------------
(***************************************************************************)
(* The maintenance channel whole: the server's gateway, the phone's        *)
(* session and executor, the sockets and the MQTT commands between them.   *)
(***************************************************************************)
EXTENDS OpsSession

vars == <<gatewayVars, sessionVars, executorVars>>

Init == GatewayInit /\ SessionInit /\ ExecutorInit

GatewayStep ==
  \/ GetTask
  \/ \E t \in Tasks :
       PublishAcked(t) \/ \E op \in Ops[t] : CreateOperation(t, op)
  \/ \E k \in Sockets : ServerReceives(k) \/ ServerSeesClose(k)

GatewayTrouble ==
  \/ SessionExpires \/ ServerRestarts
  \/ \E t \in Tasks : PublishFails(t) \/ TaskTimesOut(t)
  \/ \E k \in Sockets : HelloTimesOut(k)

SessionStep ==
  \/ \E s \in Sessions : HandleOpenCommand(s)
  \/ SessionEnds \/ DeploymentStarts \/ DeploymentEnds \/ PhoneRestarts
  \/ \E k \in Sockets :
       Connect(k) \/ PhoneReceives(k) \/ StrayRequest(k) \/ PhoneEndCloses(k) \/ Cut(k)
  \/ \E j \in Jobs :
       JobEnds(j) \/ TransferFails(j) \/ JobFailsUnreadably(j) \/ JobTimesOut(j) \/ JobStep(j)

Next ==
  \/ GatewayStep /\ UNCHANGED <<sessionVars, executorVars>>
  \/ GatewayTrouble /\ UNCHANGED <<sessionVars, screen, job>>
  \/ SessionStep

Spec == Init /\ [][Next]_vars

-----------------------------------------------------------------------------
(* Properties.                                                             *)

\* Every variable keeps its type.
TypeOK ==
  /\ session \in Sessions \cup {NoSession}
  /\ socket \in Sockets \cup {NoSocket}
  /\ tasks \in [Tasks -> Task] /\ finished \in Seq(Tasks) /\ stored \in Nat
  /\ wire \in [Sockets -> Wire]
  /\ up \in [Sockets -> Seq(UpFrames)] /\ down \in [Sockets -> Seq(DownFrames)]
  /\ invites \subseteq Sessions
  /\ active \in Sessions \cup {NoSession} /\ {line, shotOn} \subseteq Sockets \cup {NoSocket}
  /\ responses \in [Tasks -> Terminal \cup {"none"}]
  /\ artifactOf \in [Tasks -> 0..MaxStarts] /\ blocked \in BOOLEAN
  /\ openings \in 0..MaxOpenings
  /\ screen \in Screen /\ job \in [Jobs -> Job] /\ troubles \in 0..MaxTroubles

\* A task that was sent and still executes is waited for on the socket the
\* server now has: none is left behind on one that was replaced or closed.
NoneLeftBehind ==
  \A t \in Tasks :
    tasks[t].status = "EXECUTING" /\ tasks[t].sentOn # NoSocket =>
      tasks[t].session = session /\ tasks[t].sentOn = socket

\* storedArtifactBytes counts exactly the screenshots of the tasks the
\* server still has, and stays within the limit: no path that drops or
\* refuses a screenshot leaks its bytes.
ArtifactsAccounted ==
  /\ stored = Cardinality({t \in Tasks : tasks[t].artifact # 0})
  /\ stored <= ArtifactCapacity

\* A brightness change that fails has put back both settings as it found
\* them, unless a restoring command failed too or another change overlapped.
FailedSetRestores ==
  [][\A j \in Jobs :
       (/\ IsSetting(j) /\ job[j].step # "read"
        /\ job'[j].step = "failed" /\ job'[j].clean)
       => screen' = job[j].prev]_vars

\* mobile/README.md: one screenshot at a time on a device.
OneScreenshot ==
  Cardinality({j \in Jobs : IsRunning(j) /\ job[j].op = "capture"}) <= 1

\* However often a request for a screenshot or a write is sent again, on one
\* socket after another, a session of the phone carries it out once: it holds
\* the only slot of its kind until the answer is kept.  A plain read sent
\* again while it runs takes another slot and is carried out twice.
RunsOnce ==
  openings <= 1 =>
    \A t \in Tasks :
      Cardinality({n \in 1..MaxStarts :
                     job[<<t, n>>].step # "idle" /\ job[<<t, n>>].op # "read"}) <= 1

\* REJECTED: the phone has not carried it out.
RejectedNotRun ==
  \A t \in Tasks : tasks[t].status = "REJECTED" =>
    \A n \in 1..MaxStarts : job[<<t, n>>].step = "idle"
=============================================================================
