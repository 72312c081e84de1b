----------------------------- MODULE OpsSession -----------------------------
(***************************************************************************)
(* The phone's half of the maintenance channel (ops-session.ts): one       *)
(* session at a time, opened by a command from MQTT, reconnected while it  *)
(* lasts, whose requests share one slot for writes and a few for reads.    *)
(* A request that times out gives its slot back while its commands go on.  *)
(***************************************************************************)
EXTENDS OpsGateway

CONSTANTS ReadSlots,   \* 4
          MaxOpenings

ASSUME SessionAssumption ==
  ReadSlots \in Nat /\ MaxOpenings \in Nat

VARIABLES
  active,      \* active.command.sessionId
  line,        \* active.socket
  shotOn,      \* the socket its screenshot was asked for on
  responses,   \* active.responses: for each request, its status or "none"
  artifactOf,  \* the execution whose screenshot a response describes
  blocked,     \* deploymentBlockId is set
  openings     \* sessions opened so far

sessionVars == <<active, line, shotOn, responses, artifactOf, blocked, openings>>

NoResponses == [t \in Tasks |-> "none"]
NoArtifacts == [t \in Tasks |-> 0]

SessionInit ==
  /\ active = NoSession /\ line = NoSocket /\ shotOn = NoSocket
  /\ responses = NoResponses /\ artifactOf = NoArtifacts
  /\ blocked = FALSE /\ openings = 0

GatewayUnchanged == UNCHANGED <<session, socket, tasks, finished, stored, invites>>

Writes == {"brightness", "alert"}   \* isMutatingDeviceOpsOperation
Held(op) == {j \in Jobs : job[j].held /\ (job[j].op \in Writes <=> op \in Writes)}

\* Seeded defect: screenshots share the slots of the other reads.
CrowdedWithoutScreenshots(op) ==
  \/ op \in Writes /\ Held(op) # {}
  \/ op \notin Writes /\ Cardinality(Held(op)) >= ReadSlots

\* The concurrency limits of handleRequest.
Crowded(op) ==
  \/ op = "capture" /\ \E j \in Jobs : job[j].held /\ job[j].op = "capture"
  \/ op \in Writes /\ Held(op) # {}
  \/ op \notin Writes /\ Cardinality(Held(op)) >= ReadSlots

-----------------------------------------------------------------------------
(* Opening and closing.                                                    *)

\* handleOpenCommand; a command that has expired, or that comes during a
\* deployment or a session, is answered with an event nobody waits for.  The
\* last session's socket is taken to have closed by then, and nobody waits
\* any more for the executions of that session.
HandleOpenCommand(s) ==
  /\ s \in invites
  /\ active = NoSession /\ ~blocked
  /\ \A k \in Sockets : wire[k].phone # "closing"
  /\ openings < MaxOpenings /\ openings' = openings + 1
  /\ active' = s
  /\ responses' = NoResponses /\ artifactOf' = NoArtifacts
  /\ job' = [j \in Jobs |-> [job[j] EXCEPT !.held = FALSE]]
  /\ UNCHANGED <<line, shotOn, blocked, wire, up, down, screen, troubles>>
  /\ GatewayUnchanged

\* connect, when the session starts and one second after a close.
Connect(k) ==
  /\ active # NoSession /\ line = NoSocket
  /\ wire[k].phone = "none" /\ wire[k].server = "none"
  /\ line' = k
  /\ wire' = [wire EXCEPT ![k].phone = "open", ![k].server = "unbound"]
  /\ up' = [up EXCEPT ![k] = <<Hello(active)>>]
  /\ UNCHANGED <<active, shotOn, responses, artifactOf, blocked, openings, down>>
  /\ GatewayUnchanged /\ UNCHANGED executorVars

\* close(): what the server has sent may still arrive on the closing socket.
CloseSession ==
  /\ active' = NoSession /\ line' = NoSocket /\ shotOn' = NoSocket
  /\ IF line = NoSocket THEN UNCHANGED <<wire, up>>
     ELSE /\ wire' = [wire EXCEPT ![line].phone = "closing"]
          /\ up' = [up EXCEPT ![line] = Append(@, Close)]
  /\ UNCHANGED <<responses, artifactOf, down, screen, job>>

\* Two minutes without a request, the expiry of the session, or no
\* connection for thirty seconds after the last one.
SessionEnds ==
  /\ active # NoSession /\ Trouble
  /\ CloseSession
  /\ UNCHANGED <<blocked, openings>> /\ GatewayUnchanged

\* blockTaskIntake closes the session.
DeploymentStarts ==
  /\ ~blocked /\ Trouble
  /\ blocked' = TRUE
  /\ IF active = NoSession
       THEN UNCHANGED <<active, line, shotOn, responses, artifactOf, wire, up,
                        down, screen, job>>
       ELSE CloseSession
  /\ UNCHANGED openings /\ GatewayUnchanged

DeploymentEnds ==
  /\ blocked /\ blocked' = FALSE
  /\ UNCHANGED <<active, line, shotOn, responses, artifactOf, openings, wire, up, down>>
  /\ GatewayUnchanged /\ UNCHANGED executorVars

-----------------------------------------------------------------------------
(* Requests and answers.                                                   *)

\* send: the answer is kept, and goes out if the socket is still open.
Answer(t, status, ms) ==
  /\ responses' = [responses EXCEPT ![t] = status]
  /\ up' = IF line # NoSocket THEN [up EXCEPT ![line] = @ \o ms] ELSE up

NextStart(t) == {n \in 1..MaxStarts : job[<<t, n>>].step = "idle"
                                     /\ \A i \in 1..(n - 1) : job[<<t, i>>].step # "idle"}

\* handleRequest on the session's own socket.
HandleRequest(t, op) ==
  \/ \* already answered
     /\ responses[t] # "none"
     /\ Answer(t, responses[t], <<Response(t, responses[t], artifactOf[t])>>)
     /\ UNCHANGED <<shotOn, executorVars>>
  \/ /\ responses[t] = "none"
     /\ \/ \* past its expiry
           /\ Trouble
           /\ Answer(t, "TIMEOUT", <<Response(t, "TIMEOUT", 0)>>)
           /\ UNCHANGED <<shotOn, screen, job>>
        \/ /\ Crowded(op)
           /\ Answer(t, "REJECTED", <<Response(t, "REJECTED", 0)>>)
           /\ UNCHANGED <<shotOn, executorVars>>
        \/ /\ ~Crowded(op)
           /\ \E n \in NextStart(t) : Start(<<t, n>>, op)
           /\ shotOn' = IF op = "capture" THEN line ELSE shotOn
           /\ UNCHANGED <<responses, up>>

\* The close event of the phone's end: it will connect again.
LoseLine == line' = NoSocket /\ UNCHANGED <<shotOn, responses, up, executorVars>>

PhoneReceives(k) ==
  /\ line = k /\ down[k] # <<>>
  /\ LET m == Head(down[k])
     IN IF m.type = "eof"
          THEN /\ LoseLine
               /\ wire' = [wire EXCEPT ![k].phone = "closed"]
               /\ down' = [down EXCEPT ![k] = <<>>]
          ELSE /\ HandleRequest(m.task, m.op)
               /\ down' = [down EXCEPT ![k] = Tail(@)]
               /\ UNCHANGED <<line, wire>>
  /\ UNCHANGED <<active, artifactOf, blocked, openings>>
  /\ GatewayUnchanged

\* A request that reaches a socket the phone is closing is carried out too,
\* unless a deployment has begun or it is for a screenshot; its answer goes
\* nowhere.
StrayRequest(k) ==
  /\ wire[k].phone = "closing" /\ down[k] # <<>> /\ ~blocked
  /\ LET m == Head(down[k])
     IN /\ m.type = "request" /\ m.op # "capture"
        /\ responses[m.task] = "none" /\ ~Crowded(m.op)
        /\ \E n \in NextStart(m.task) : Start(<<m.task, n>>, m.op)
  /\ down' = [down EXCEPT ![k] = Tail(@)]
  /\ UNCHANGED <<wire, up, sessionVars>> /\ GatewayUnchanged

\* The phone's end is closed, with what had not arrived.
PhoneEndCloses(k) ==
  /\ wire[k].phone = "closing"
  /\ wire' = [wire EXCEPT ![k].phone = "closed"]
  /\ down' = [down EXCEPT ![k] = <<>>]
  /\ UNCHANGED <<up, sessionVars, executorVars>> /\ GatewayUnchanged

\* executeAndTransfer settles while its request is waited for: a screenshot
\* goes out before its answer.
Shot(j, status) ==
  IF job[j].op = "capture" /\ status = "SUCCESS" THEN <<Artifact(j)>> ELSE <<>>

\* A screenshot goes out only on the socket it was asked for on.
Transfers == line # NoSocket /\ line = shotOn

JobAnswered(j, status) ==
  IF ~job[j].held
    THEN UNCHANGED <<responses, artifactOf, up>>
    ELSE LET n == IF status = "SUCCESS" /\ job[j].op = "capture" THEN j[2] ELSE 0
         IN /\ Answer(j[1], status, Shot(j, status) \o <<Response(j[1], status, n)>>)
            /\ artifactOf' = [artifactOf EXCEPT ![j[1]] = n]

JobEnds(j) ==
  /\ \/ /\ Succeed(j) /\ UNCHANGED troubles
        /\ (job[j].held /\ job[j].op = "capture" => Transfers)
        /\ JobAnswered(j, "SUCCESS")
     \/ Fail(j) /\ JobAnswered(j, "FAILURE")
  /\ UNCHANGED <<active, line, shotOn, blocked, openings, wire, down>>
  /\ GatewayUnchanged

\* That socket has closed, or is full, or the request has expired.
TransferFails(j) ==
  /\ job[j].op = "capture" /\ job[j].held
  /\ Succeed(j)
  /\ IF Transfers THEN Trouble ELSE UNCHANGED troubles
  /\ Answer(j[1], "FAILURE", <<Response(j[1], "FAILURE", 0)>>)
  /\ UNCHANGED <<active, line, shotOn, artifactOf, blocked, openings, wire, down>>
  /\ GatewayUnchanged

\* The message of a failed command may be longer than the server accepts.
JobFailsUnreadably(j) ==
  /\ job[j].held /\ Fail(j)
  /\ Answer(j[1], "FAILURE", <<Unreadable>>)
  /\ UNCHANGED <<active, line, shotOn, artifactOf, blocked, openings, wire, down>>
  /\ GatewayUnchanged

\* The race with the timeout is lost; the commands are not stopped.
JobTimesOut(j) ==
  /\ IsRunning(j) /\ job[j].held /\ Trouble
  /\ job' = [job EXCEPT ![j].held = FALSE]
  /\ Answer(j[1], "TIMEOUT", <<Response(j[1], "TIMEOUT", 0)>>)
  /\ UNCHANGED <<active, line, shotOn, artifactOf, blocked, openings, wire, down, screen>>
  /\ GatewayUnchanged

\* One root command of an execution, asked for or orphaned.
JobStep(j) ==
  /\ BrightnessStep(j)
  /\ UNCHANGED <<sessionVars, wire, up, down>> /\ GatewayUnchanged

-----------------------------------------------------------------------------
(* The network and the process.                                            *)

\* The phone's connection is gone and the server does not know yet.
Cut(k) ==
  /\ wire[k].phone = "open" /\ Trouble
  /\ wire' = [wire EXCEPT ![k].phone = "closed"]
  /\ down' = [down EXCEPT ![k] = <<>>]
  /\ line' = IF line = k THEN NoSocket ELSE line
  /\ UNCHANGED <<active, shotOn, responses, artifactOf, blocked, openings, up,
                 screen, job>>
  /\ GatewayUnchanged

PhoneRestarts ==
  /\ Trouble
  /\ active' = NoSession /\ line' = NoSocket /\ shotOn' = NoSocket
  /\ blocked' = FALSE
  /\ responses' = NoResponses /\ artifactOf' = NoArtifacts
  /\ job' = [j \in Jobs |-> IF IsRunning(j) THEN Ended(j, "killed") ELSE job[j]]
  /\ wire' = [k \in Sockets |->
       IF wire[k].phone = "none" THEN wire[k] ELSE [wire[k] EXCEPT !.phone = "closed"]]
  /\ down' = [k \in Sockets |-> <<>>]
  /\ UNCHANGED <<openings, up, screen>> /\ GatewayUnchanged
=============================================================================
