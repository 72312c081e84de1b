----------------------------- MODULE RemotePeer -----------------------------
(***************************************************************************)
(* The phone's half of a remote-control lease (remote-session-peer.ts):    *)
(* the invitation, the outbound relay socket, the WebRTC sidecar and the   *)
(* local scrcpy server, whose callbacks all change one session record.  A  *)
(* data frame is told apart only by the transport that brought it.         *)
(***************************************************************************)
EXTENDS RelayService

CONSTANTS
  PendingMax,   \* frames a buffer of the phone holds
  MaxCandidates, MaxControls, MaxFrames, MaxRedeliveries, MaxCrashes

ASSUME RemoteAssumption ==
  PendingMax \in Nat /\ MaxCandidates \in Nat /\ MaxControls \in Nat
  /\ MaxFrames \in Nat /\ MaxRedeliveries \in Nat /\ MaxCrashes \in Nat

VARIABLES
  peer,       \* the phone's active session
  consumed,   \* consumedSessions
  pipe,       \* controls in the WebRTC data channel, not yet delivered
  budget      \* external events left

peerVars == <<peer, consumed, pipe, budget>>

Budget == {"candidate", "control", "frame", "redelivery", "crash"}
Spend(kind) == budget[kind] > 0 /\ budget' = [budget EXCEPT ![kind] = @ - 1]

\* pendingControls is kept as a number for each transport: all are of one.
Carriers == {"relay", "p2p"}
NoControls == [t \in Carriers |-> 0]

\* Why a session ended: faults in the order of what was received, the rest.
Faults == {"REMOTE_RELAY_SEQUENCE_INVALID", "REMOTE_RELAY_READY_INVALID",
           "REMOTE_RECOVERY_SEQUENCE_INVALID", "REMOTE_P2P_START_INVALID",
           "REMOTE_CONTROL_TRANSPORT_MISMATCH", "RTC_CONTROL_SEQUENCE_INVALID"}
Codes == Faults \cup {"", "PEER_CLOSED", "REMOTE_P2P_SIGNAL_INVALID",
                     "REMOTE_CONTROL_BUFFER_FULL", "REMOTE_RECOVERY_BUFFER_FULL"}

Peer ==
  [session : Sessions \cup {NoSession}, closed : BOOLEAN, code : Codes,
   version : {0, 1, 2}, selected : Transports, paired : BOOLEAN,
   bridged : BOOLEAN, recovering : BOOLEAN, awaiting : BOOLEAN,
   attempt : BOOLEAN, incoming : Nat, outgoing : Nat, ready : BOOLEAN,
   readyReported : BOOLEAN, failureReported : BOOLEAN,
   candidates : Nat, answerSent : BOOLEAN,
   sidecar : {"none", "started", "offered"},
   local : {"none", "connecting", "open"},
   controls : [Carriers -> Nat], frames : Nat, grace : BOOLEAN]

Fresh(s) ==
  [session |-> s, closed |-> FALSE, code |-> "", version |-> 0,
   selected |-> "none", paired |-> FALSE, bridged |-> FALSE,
   recovering |-> FALSE, awaiting |-> FALSE, attempt |-> FALSE,
   incoming |-> 0, outgoing |-> 0, ready |-> FALSE, readyReported |-> FALSE,
   failureReported |-> FALSE, candidates |-> 0, answerSent |-> FALSE,
   sidecar |-> "none", local |-> "none", controls |-> NoControls, frames |-> 0,
   grace |-> FALSE]
Idle == Fresh(NoSession)

PeerInit ==
  /\ peer = Idle /\ consumed = {} /\ pipe = 0
  /\ budget = [candidate |-> MaxCandidates, control |-> MaxControls,
               frame |-> MaxFrames, redelivery |-> MaxRedeliveries,
               crash |-> MaxCrashes]

-----------------------------------------------------------------------------
(* What the handlers have in common.                                       *)

Running == peer.session # NoSession /\ ~peer.closed

\* closeActive, up to its await of the CLOSED event.
CloseActive(code) ==
  /\ peer' = [peer EXCEPT !.closed = TRUE, !.code = code, !.controls = NoControls,
                          !.frames = 0, !.sidecar = "none", !.grace = FALSE]
  /\ events' = events \cup {peer.session}
  /\ UNCHANGED up

\* A handler leaves the session as p and sends ms through the relay socket.
Become(p, ms) ==
  /\ peer' = p
  /\ up' = [up EXCEPT ![peer.session]["device"] = @ \o ms]
  /\ UNCHANGED events

\* sendP2PSignal and sendP2PState number what they send from one counter.
InitialFailure(p) ==
  IF p.failureReported \/ ~p.attempt THEN p
  ELSE [p EXCEPT !.grace = FALSE, !.failureReported = TRUE, !.ready = FALSE,
                 !.candidates = 0, !.sidecar = "none",
                 !.controls = [t \in Carriers |-> IF t = "relay" THEN @[t] ELSE 0],
                 !.outgoing = @ + 1]
ActiveFailure(p) ==
  IF p.recovering \/ p.selected # "p2p" THEN p
  ELSE [p EXCEPT !.grace = FALSE, !.recovering = TRUE, !.paired = FALSE,
                 !.selected = "none", !.ready = FALSE,
                 !.failureReported = TRUE, !.candidates = 0,
                 !.sidecar = "none", !.local = "none", !.bridged = FALSE,
                 !.controls = NoControls, !.frames = 0, !.outgoing = @ + 1]

\* Both report "failed" when they change the session, from p to q.
Failure(p, q) == IF p = q THEN <<>> ELSE <<P2PState("failed", p.outgoing)>>
ReportInitialFailure(p) ==
  Become(InitialFailure(p), Failure(p, InitialFailure(p)))
\* Seeded defect: the phone recovers and does not say so.
ReportActiveFailureSilently(p) == Become(ActiveFailure(p), <<>>)

ReportActiveFailure(p) ==
  Become(ActiveFailure(p), Failure(p, ActiveFailure(p)))

ConnectLocalScrcpy(p) ==
  IF p.local = "none" THEN [p EXCEPT !.local = "connecting"] ELSE p

\* Controls are kept that came on another transport than t.
Foreign(t) == \E u \in Carriers : u # t /\ peer.controls[u] > 0

\* sendToLocal
SendToLocal(t) ==
  LET held == ~peer.bridged \/ peer.local # "open"
      mismatch == IF held THEN peer.selected \notin {"none", t} \/ Foreign(t)
                          ELSE peer.selected # t
  IN IF mismatch
       THEN CloseActive("REMOTE_CONTROL_TRANSPORT_MISMATCH")
     ELSE IF ~held
       THEN UNCHANGED <<peer, up, events>>
     ELSE IF peer.controls[t] >= PendingMax
       THEN CloseActive("REMOTE_CONTROL_BUFFER_FULL")
     ELSE Become([peer EXCEPT !.controls[t] = @ + 1], <<>>)

others == <<lease, holder, halfOpen, invites, consumed>>

-----------------------------------------------------------------------------
(* Invitations, the relay socket, and the end of a session.                *)

\* A published invitation arrives; MQTT may deliver it once more.
Invited(s) ==
  /\ s \in invites
  /\ \/ invites' = invites \ {s} /\ UNCHANGED budget
     \/ Spend("redelivery") /\ UNCHANGED invites
  /\ UNCHANGED <<lease, holder, up, halfOpen, pipe>>

\* handleOpenCommand drops an invitation it has taken before.
DropInvitation(s) ==
  /\ Invited(s) /\ s \in consumed
  /\ UNCHANGED <<down, events, peer, consumed>>

\* It rejects one that is stale or comes while the phone is otherwise busy,
\* and one that comes while a session is active, or not yet torn down.
RejectInvitation(s) ==
  /\ Invited(s) /\ s \notin consumed
  /\ events' = events \cup {s}
  /\ UNCHANGED <<down, peer, consumed>>

\* It accepts.  A client that was restarted connects after the close of the
\* socket its last run closed itself has reached the server.
AcceptInvitation(s) ==
  /\ Invited(s) /\ s \notin consumed
  /\ peer.session = NoSession
  /\ \A i \in DOMAIN up[s]["device"] : up[s]["device"][i] # Eof
  /\ peer' = Fresh(s)
  /\ consumed' = consumed \cup {s}
  /\ down' = [down EXCEPT ![s]["device"] = <<>>]
  /\ UNCHANGED events

\* The relay socket opens: the hello carries the one-time ticket.
RelayOpens ==
  /\ Running /\ peer.version = 0
  /\ \E v \in Versions :
       Become([peer EXCEPT !.version = v], <<Hello(v)>>)
  /\ UNCHANGED <<others, down, pipe, budget>>

\* The expiry timer, a started deployment, a socket error, a local scrcpy
\* that is unavailable or closes, a full buffer: closeActive.
PeerCloses ==
  /\ Running
  /\ CloseActive("PEER_CLOSED")
  /\ UNCHANGED <<others, down, pipe, budget>>

\* Seeded defect: the relay socket is left open.
TeardownSocketOpen ==
  /\ peer.session # NoSession /\ peer.closed
  /\ down' = [down EXCEPT ![peer.session]["device"] = <<>>]
  /\ peer' = Idle /\ pipe' = 0
  /\ UNCHANGED <<others, up, events, budget>>

\* closeActive after its await: both sockets are closed, the slot is free.
Teardown ==
  /\ peer.session # NoSession /\ peer.closed
  /\ up' = IF peer.version = 0 THEN up
           ELSE [up EXCEPT ![peer.session]["device"] = Append(@, Eof)]
  /\ down' = [down EXCEPT ![peer.session]["device"] = <<>>]
  /\ peer' = Idle /\ pipe' = 0
  /\ UNCHANGED <<others, events, budget>>

\* The client dies: what its socket had not delivered is lost, and the server
\* takes the socket for open until it is found dead.
Crash ==
  /\ Spend("crash")
  /\ peer' = Idle /\ consumed' = {} /\ pipe' = 0
  /\ IF peer.session = NoSession
       THEN UNCHANGED <<up, down, halfOpen>>
       ELSE /\ up' = [up EXCEPT ![peer.session]["device"] = <<>>]
            /\ down' = [down EXCEPT ![peer.session]["device"] = <<>>]
            /\ halfOpen' = IF "device" \in lease[peer.session].bound
                             THEN halfOpen \cup {peer.session} ELSE halfOpen
  /\ UNCHANGED <<lease, holder, invites, events>>

\* The device's events have no store: one may be lost.
EventLost(s) ==
  /\ s \in events /\ events' = events \ {s}
  /\ UNCHANGED <<others, up, down, peer, pipe, budget>>

-----------------------------------------------------------------------------
(* Frames from the relay.                                                  *)

\* The next frame of the relay socket; "message" handlers ignore a session
\* that is closed.
RelayFrame(type) ==
  /\ Running
  /\ down[peer.session]["device"] # <<>>
  /\ Head(down[peer.session]["device"]).type = type
  /\ down' = [down EXCEPT ![peer.session]["device"] = Tail(@)]
  /\ UNCHANGED <<others, pipe, budget>>

\* startP2P; the sidecar may be absent or not start.
StartP2P(starts) ==
  /\ RelayFrame("start")
  /\ LET p == [peer EXCEPT !.attempt = TRUE, !.incoming = 0, !.outgoing = 0,
                           !.ready = FALSE, !.readyReported = FALSE,
                           !.failureReported = FALSE, !.candidates = 0,
                           !.answerSent = FALSE, !.sidecar = "started"]
     IN IF peer.attempt \/ peer.sidecar # "none" \/ peer.paired
          THEN CloseActive("REMOTE_P2P_START_INVALID")
        ELSE IF starts THEN Become(p, <<>>)
        ELSE ReportInitialFailure(p)

\* handleP2PSignal; the sidecar may refuse what it is given.
HandleP2PSignal(applies) ==
  /\ RelayFrame("signal")
  /\ LET m == Head(down[peer.session]["device"])
         inOrder == peer.attempt /\ m.seq = peer.incoming
         tolerated == /\ peer.sidecar = "none" /\ peer.failureReported
                      /\ ~peer.ready /\ inOrder /\ m.kind # "offer"
         valid == /\ peer.sidecar # "none" /\ inOrder
                  /\ (m.seq = 0) <=> (m.kind = "offer")
         p == [peer EXCEPT !.incoming = @ + 1]
     IN IF tolerated THEN Become(p, <<>>)
        ELSE IF ~valid THEN CloseActive("REMOTE_P2P_SIGNAL_INVALID")
        ELSE IF ~applies THEN ReportInitialFailure(p)
        ELSE Become([p EXCEPT !.sidecar = IF m.kind = "offer"
                                            THEN "offered" ELSE @], <<>>)

\* Seeded defect: a phone whose P2P failed after it was reported ready does
\* not wait for the recovery.
SelectInitialTransportAtOnce ==
  /\ RelayFrame("ready")
  /\ LET t == Head(down[peer.session]["device"]).transport
         unavailable == t = "p2p" /\ (~peer.ready \/ peer.sidecar = "none")
     IN IF peer.paired \/ peer.awaiting \/ unavailable
          THEN CloseActive("REMOTE_RELAY_READY_INVALID")
          ELSE Become(ConnectLocalScrcpy(
                 [peer EXCEPT !.paired = TRUE, !.selected = t,
                              !.sidecar = IF t = "relay" THEN "none" ELSE @]),
                 <<>>)

\* selectInitialTransport
SelectInitialTransport ==
  /\ RelayFrame("ready")
  /\ LET t == Head(down[peer.session]["device"]).transport
         unavailable == t = "p2p" /\ (~peer.ready \/ peer.sidecar = "none")
         failedAfterReady == peer.readyReported /\ peer.failureReported
     IN IF \/ peer.paired \/ peer.awaiting
           \/ unavailable /\ ~failedAfterReady
           \/ Foreign(t)
          THEN CloseActive("REMOTE_RELAY_READY_INVALID")
        ELSE IF unavailable
          THEN Become([peer EXCEPT !.awaiting = TRUE], <<>>)
        ELSE Become(ConnectLocalScrcpy(
               [peer EXCEPT !.paired = TRUE, !.selected = t,
                            !.sidecar = IF t = "relay" THEN "none" ELSE @]),
               <<>>)

\* handleTransportRecovery, phase "recovering"
RecoveryBegins ==
  /\ RelayFrame("transport")
  /\ Head(down[peer.session]["device"]).phase = "recovering"
  /\ LET p == IF peer.awaiting
                THEN [peer EXCEPT !.awaiting = FALSE, !.recovering = TRUE]
                ELSE ActiveFailure(peer)
     IN IF ~p.recovering
          THEN CloseActive("REMOTE_RECOVERY_SEQUENCE_INVALID")
          ELSE Become(ConnectLocalScrcpy(p),
                      IF peer.awaiting THEN <<>> ELSE Failure(peer, p))

\* handleTransportRecovery, phase "ready": the frames kept go out.
RecoveryCommits ==
  /\ RelayFrame("transport")
  /\ Head(down[peer.session]["device"]).phase = "ready"
  /\ IF ~peer.recovering \/ ~peer.bridged \/ peer.local = "none"
       THEN CloseActive("REMOTE_RECOVERY_SEQUENCE_INVALID")
       ELSE Become([peer EXCEPT !.recovering = FALSE, !.paired = TRUE,
                                !.selected = "relay", !.frames = 0],
                   [i \in 1..peer.frames |-> Binary])

\* handleRelayBinary
RelayBinary ==
  /\ RelayFrame("binary")
  /\ IF IF peer.paired THEN peer.selected # "relay"
                       ELSE peer.selected # "none" \/ peer.recovering
       THEN CloseActive("REMOTE_RELAY_SEQUENCE_INVALID")
       ELSE SendToLocal("relay")

RelayCloses ==
  /\ RelayFrame("closed") \/ RelayFrame("eof")
  /\ CloseActive("PEER_CLOSED")

-----------------------------------------------------------------------------
(* Callbacks of the sidecar and of the local scrcpy socket.                *)

\* Callbacks of a sidecar that was detached are ignored.
Sidecar == Running /\ peer.sidecar # "none"

\* Signals are sent only until this side has reported a state.
MaySignal == ~peer.readyReported /\ ~peer.failureReported

\* onLocalDescription: the answer, then the candidates kept until now.
LocalDescription ==
  /\ Sidecar /\ peer.sidecar = "offered" /\ ~peer.answerSent
  /\ MaySignal
  /\ Become([peer EXCEPT !.answerSent = TRUE, !.candidates = 0,
                         !.outgoing = @ + 1 + peer.candidates],
            [i \in 1..(1 + peer.candidates) |->
               Signal(IF i = 1 THEN "answer" ELSE "ice-candidate",
                      peer.outgoing + i - 1)])
  /\ UNCHANGED <<others, down, pipe, budget>>

\* onIceCandidate
LocalCandidate ==
  /\ Sidecar /\ peer.sidecar = "offered"
  /\ Spend("candidate")
  /\ IF ~MaySignal THEN UNCHANGED <<peer, up, events>>
     ELSE IF peer.answerSent
       THEN Become([peer EXCEPT !.outgoing = @ + 1],
                   <<Signal("ice-candidate", peer.outgoing)>>)
     ELSE IF peer.candidates >= PendingMax THEN ReportInitialFailure(peer)
     ELSE Become([peer EXCEPT !.candidates = @ + 1], <<>>)
  /\ UNCHANGED <<others, down, pipe>>

\* handleSidecarState, "ready": the data channel is open.
SidecarReady ==
  /\ Sidecar /\ peer.answerSent
  /\ LET p == [peer EXCEPT !.grace = FALSE, !.ready = TRUE]
     IN IF ~peer.paired /\ MaySignal
          THEN Become([p EXCEPT !.readyReported = TRUE, !.outgoing = @ + 1],
                      <<P2PState("ready", peer.outgoing)>>)
          ELSE Become(p, <<>>)
  /\ UNCHANGED <<others, down, pipe, budget>>

\* handleSidecarState, "disconnected": three seconds of grace.
SidecarDisconnected ==
  /\ Sidecar /\ ~peer.grace
  /\ \/ peer.selected = "p2p"
     \/ ~peer.paired /\ peer.readyReported /\ ~peer.failureReported
  /\ Become([peer EXCEPT !.grace = TRUE], <<>>)
  /\ UNCHANGED <<others, down, pipe, budget>>

\* handleSidecarState, "failed" or "closed", and the end of the grace.
SidecarFails ==
  /\ Sidecar
  /\ IF peer.selected = "p2p" THEN ReportActiveFailure(peer)
     ELSE IF ~peer.paired THEN ReportInitialFailure(peer)
     ELSE UNCHANGED <<peer, up, events>>
  /\ UNCHANGED <<others, down, pipe, budget>>

GraceEnds ==
  /\ Running /\ peer.grace
  /\ LET p == [peer EXCEPT !.grace = FALSE]
     IN IF p.selected = "p2p" THEN ReportActiveFailure(p)
        ELSE IF ~p.paired /\ p.readyReported /\ ~p.failureReported
          THEN ReportInitialFailure(p)
        ELSE Become(p, <<>>)
  /\ UNCHANGED <<others, down, pipe, budget>>

\* handleSidecarBinary
SidecarBinary ==
  /\ pipe > 0 /\ pipe' = pipe - 1
  /\ Sidecar
  /\ IF peer.paired
       THEN IF peer.selected = "p2p" THEN SendToLocal("p2p")
            ELSE CloseActive("RTC_CONTROL_SEQUENCE_INVALID")
     ELSE IF /\ peer.version = 2 /\ peer.selected = "none"
             /\ ~peer.recovering /\ peer.attempt /\ peer.ready
       THEN SendToLocal("p2p")
     ELSE ReportInitialFailure(peer)
  /\ UNCHANGED <<others, down, budget>>

\* "open" of the local socket: the controls kept are sent, and a recovery is
\* announced.
LocalOpens ==
  /\ Running /\ peer.local = "connecting"
  /\ IF Foreign(peer.selected)
       THEN CloseActive("REMOTE_CONTROL_TRANSPORT_MISMATCH")
       ELSE Become([peer EXCEPT !.local = "open", !.bridged = TRUE,
                                !.controls = NoControls],
                   IF peer.recovering THEN <<TransportReady>> ELSE <<>>)
  /\ UNCHANGED <<others, down, pipe, budget>>

\* handleLocalBinary; the sidecar may refuse the frame.
LocalBinary(sends) ==
  /\ Running /\ peer.local = "open"
  /\ Spend("frame")
  /\ IF peer.recovering \/ peer.selected = "none"
       THEN IF peer.frames >= PendingMax
              THEN CloseActive("REMOTE_RECOVERY_BUFFER_FULL")
              ELSE Become([peer EXCEPT !.frames = @ + 1], <<>>)
     ELSE IF peer.selected = "relay" THEN Become(peer, <<Binary>>)
     ELSE IF sends THEN UNCHANGED <<peer, up, events>>
     ELSE ReportActiveFailure(peer)
  /\ UNCHANGED <<others, down, pipe>>
=============================================================================
