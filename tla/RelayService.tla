---------------------------- MODULE RelayService ----------------------------
(***************************************************************************)
(* The server's half of a remote-control lease (remote-control.service.ts):*)
(* leases of one device, their two WebSockets, the choice of a transport   *)
(* and the relay of binary frames.  Each WebSocket is a pair of FIFO       *)
(* channels, up to the server and down to the peer; the invitation and the *)
(* device's events travel by MQTT.  A lease pairs at most once, so it has  *)
(* one negotiation and the attempt identifier of the code is left out.     *)
(* Frames count one byte each.                                             *)
(***************************************************************************)
EXTENDS Integers, Sequences

CONSTANTS
  Sessions, NoSession,
  Versions,      \* protocol versions a peer may speak
  Preferences,   \* the values p2pAllowed of a new lease can have
  ByteBudget     \* REMOTE_CONTROL_MAX_SESSION_RELAY_BYTES

ASSUME RelayAssumption ==
  /\ NoSession \notin Sessions
  /\ Versions \subseteq {1, 2}
  /\ Preferences \subseteq BOOLEAN
  /\ ByteBudget \in Nat

VARIABLES
  lease,      \* sessions
  holder,     \* activeSessionByDevice, for the one device of the model
  up, down,   \* what each peer and the server have sent and not yet received
  halfOpen,   \* leases whose device is gone, its socket not yet closed
  invites,    \* invitations published, which MQTT may deliver again
  events      \* leases whose REJECTED or CLOSED event is on its way

relayVars == <<lease, holder, up, down, halfOpen, invites, events>>

Roles == {"controller", "device"}
Other(r) == IF r = "device" THEN "controller" ELSE "device"

SessionStates ==
  {"NONE", "WAITING_PEERS", "WAITING_DEVICE", "WAITING_CONTROLLER",
   "SELECTING_TRANSPORT", "RECOVERING_TRANSPORT", "ACTIVE", "ENDED"}
P2PStatuses == {"DISABLED", "AVAILABLE", "NEGOTIATING", "ACTIVE", "FALLBACK"}
Transports == {"none", "relay", "p2p"}

Lease ==
  [executing : BOOLEAN, state : SessionStates, refused : BOOLEAN,
   publishing : BOOLEAN, p2pAllowed : BOOLEAN, p2p : P2PStatuses,
   selected : Transports, timer : {"none", "negotiation", "recovery"},
   used : SUBSET Roles, bound : SUBSET Roles,
   version : [Roles -> {1, 2}], ready : SUBSET Roles,
   last : [Roles -> Int], offer : BOOLEAN, answer : BOOLEAN, bytes : Nat]

SignalKinds == {"offer", "answer", "ice-candidate"}
Hello(v) == [type |-> "hello", version |-> v]
Signal(kind, n) == [type |-> "signal", kind |-> kind, seq |-> n]
P2PState(state, n) == [type |-> "state", state |-> state, seq |-> n]
TransportReady == [type |-> "transport.state"]
Binary == [type |-> "binary"]
Start == [type |-> "start"]
Ready(t) == [type |-> "ready", transport |-> t]
Transport(phase) == [type |-> "transport", phase |-> phase]
Closed == [type |-> "closed"]   \* relay.closed, then the close of the socket
Eof == [type |-> "eof"]         \* the close of the socket alone

Frames ==
  [type : {"hello"}, version : {1, 2}]
  \cup [type : {"signal"}, kind : SignalKinds, seq : Nat]
  \cup [type : {"state"}, state : {"ready", "failed"}, seq : Nat]
  \cup [type : {"ready"}, transport : {"relay", "p2p"}]
  \cup [type : {"transport"}, phase : {"recovering", "ready"}]
  \cup [type : {"transport.state", "binary", "start", "closed", "eof"}]
Channels == [Sessions -> [Roles -> Seq(Frames)]]

NoLease ==
  [executing |-> FALSE, state |-> "NONE", refused |-> FALSE, publishing |-> FALSE,
   p2pAllowed |-> FALSE, p2p |-> "DISABLED", selected |-> "none",
   timer |-> "none", used |-> {}, bound |-> {},
   version |-> [r \in Roles |-> 1], ready |-> {},
   last |-> [r \in Roles |-> -1], offer |-> FALSE, answer |-> FALSE,
   bytes |-> 0]

NoMessages == [s \in Sessions |-> [r \in Roles |-> <<>>]]

RelayInit ==
  /\ lease = [s \in Sessions |-> NoLease]
  /\ holder = NoSession
  /\ up = NoMessages /\ down = NoMessages
  /\ halfOpen = {} /\ invites = {} /\ events = {}

-----------------------------------------------------------------------------
(* Sending, and the end of a lease.                                        *)

\* A frame the server sends is lost on a socket whose peer has gone.
Reached(s, r) == ~(r = "device" /\ s \in halfOpen)
Sent(s, to, m) ==
  [down EXCEPT ![s] = [r \in Roles |->
     IF r \in to /\ Reached(s, r) THEN Append(@[r], m) ELSE @[r]]]

Incoming(s, r) == up[s][r] # <<>>
Message(s, r) == Head(up[s][r])
Taken(s, r) == [up EXCEPT ![s][r] = Tail(@)]

\* CLOSED, EXPIRED and FAILED are one: nothing matters of a lease that has
\* ended but whether its code is RELAY_FRAME_INVALID.  (A publication that
\* still runs then has no effect any more.)
Finished(refused) ==
  [NoLease EXCEPT !.state = "ENDED", !.refused = refused]

\* Seeded defect: finish is not idempotent and frees the device in any case.
FinishAlways(s, refused) ==
  /\ lease' = [lease EXCEPT ![s] = Finished(refused)]
  /\ holder' = NoSession
  /\ down' = Sent(s, lease[s].bound, Closed)

\* finish: idempotent; frees the device only if this lease holds it.
FinishWith(s, refused) ==
  IF lease[s].executing
    THEN /\ lease' = [lease EXCEPT ![s] = Finished(refused)]
         /\ holder' = IF holder = s THEN NoSession ELSE holder
         /\ down' = Sent(s, lease[s].bound, Closed)
    ELSE UNCHANGED <<lease, holder, down>>
Finish(s) == FinishWith(s, FALSE)

\* The handler of a bound socket throws: the whole lease fails.
Refuse(s) == FinishWith(s, TRUE)

-----------------------------------------------------------------------------
(* The life of a lease outside its sockets.                                *)

\* createSession, up to its await of publishOpenSession.
CreateSession(s, p2pAllowed) ==
  /\ lease[s].state = "NONE"
  /\ holder # NoSession => ~lease[holder].executing
  /\ lease' = [lease EXCEPT ![s] =
       [NoLease EXCEPT !.executing = TRUE, !.state = "WAITING_PEERS",
                       !.publishing = TRUE, !.p2pAllowed = p2pAllowed,
                       !.p2p = IF p2pAllowed THEN "AVAILABLE" ELSE "DISABLED"]]
  /\ holder' = s
  /\ invites' = invites \cup {s}
  /\ UNCHANGED <<up, down, halfOpen, events>>

\* publishOpenSession resolves.
Published(s) ==
  /\ lease[s].publishing
  /\ lease' = [lease EXCEPT ![s].publishing = FALSE]
  /\ UNCHANGED <<holder, up, down, halfOpen, invites, events>>

\* publishOpenSession rejects: the invitation may have left all the same.
PublishFails(s) ==
  /\ lease[s].publishing
  /\ Finish(s)
  /\ \E sent \in BOOLEAN :
       invites' = IF sent THEN invites ELSE invites \ {s}
  /\ UNCHANGED <<up, halfOpen, events>>

\* The expiry timer, or closeSession on behalf of the controller.
CloseSession(s) ==
  /\ lease[s].executing
  /\ Finish(s)
  /\ UNCHANGED <<up, halfOpen, invites, events>>

\* handleDeviceSessionEvent, for the two states that end a lease.
DeviceEvent(s) ==
  /\ s \in events
  /\ events' = events \ {s}
  /\ Finish(s)
  /\ UNCHANGED <<up, halfOpen, invites>>

-----------------------------------------------------------------------------
(* Pairing and the choice of a transport.                                  *)

OnRelay(x, reason) ==
  [x EXCEPT !.state = "ACTIVE", !.selected = "relay", !.timer = "none",
            !.ready = {},
            !.p2p = IF reason THEN "FALLBACK" ELSE @]

Negotiating(x) ==
  [x EXCEPT !.state = "SELECTING_TRANSPORT", !.selected = "none",
            !.p2p = "NEGOTIATING", !.ready = {},
            !.last = [r \in Roles |-> -1],
            !.offer = FALSE, !.answer = FALSE, !.timer = "negotiation"]

\* Seeded defect: the recovery has no timer.
RecoveringUntimed(x) ==
  [x EXCEPT !.state = "RECOVERING_TRANSPORT", !.selected = "none",
            !.p2p = "FALLBACK", !.timer = "none"]

\* Seeded defect: the fallback is written into the wrong field.
RecoveringMistyped(x) ==
  [x EXCEPT !.state = "RECOVERING_TRANSPORT", !.selected = "FALLBACK",
            !.timer = "recovery"]

Recovering(x) ==
  [x EXCEPT !.state = "RECOVERING_TRANSPORT", !.selected = "none",
            !.p2p = "FALLBACK", !.timer = "recovery"]

\* bindHello accepts: the ticket is spent; then updatePairingState.
BindHello(s, r) ==
  /\ Incoming(s, r) /\ Message(s, r).type = "hello"
  /\ lease[s].executing /\ r \notin lease[s].used /\ r \notin lease[s].bound
  /\ LET x == [lease[s] EXCEPT !.used = @ \cup {r}, !.bound = @ \cup {r},
                               !.version[r] = Message(s, r).version]
         bothV2 == \A q \in Roles : x.version[q] = 2
     IN IF x.bound # Roles
          THEN /\ lease' = [lease EXCEPT ![s] = [x EXCEPT
                    !.selected = "none",
                    !.state = IF r = "controller" THEN "WAITING_DEVICE"
                                                  ELSE "WAITING_CONTROLLER"]]
               /\ UNCHANGED down
          ELSE IF x.p2pAllowed /\ bothV2
          THEN /\ lease' = [lease EXCEPT ![s] = Negotiating(x)]
               /\ down' = Sent(s, Roles, Start)
          ELSE /\ lease' = [lease EXCEPT ![s] = OnRelay(x, x.p2pAllowed)]
               /\ down' = Sent(s, Roles, Ready("relay"))
  /\ up' = Taken(s, r)
  /\ UNCHANGED <<holder, halfOpen, invites, events>>

\* bindHello throws, or the hello comes too late: only this socket is closed.
RefuseHello(s, r) ==
  /\ Incoming(s, r) /\ Message(s, r).type = "hello"
  /\ up' = Taken(s, r)
  /\ down' = [down EXCEPT ![s][r] = Append(@, Eof)]
  /\ UNCHANGED <<lease, holder, halfOpen, invites, events>>

HelloInvalid(s, r) ==
  /\ ~lease[s].executing \/ r \in lease[s].used
  /\ RefuseHello(s, r)

NegotiationTimeout(s) ==
  /\ lease[s].timer = "negotiation"
  /\ lease' = [lease EXCEPT ![s] = OnRelay(@, TRUE)]
  /\ down' = Sent(s, lease[s].bound, Ready("relay"))
  /\ UNCHANGED <<holder, up, halfOpen, invites, events>>

RecoveryTimeout(s) ==
  /\ lease[s].timer = "recovery"
  /\ Finish(s)
  /\ UNCHANGED <<up, halfOpen, invites, events>>

-----------------------------------------------------------------------------
(* The frames of bound sockets.                                            *)

\* The next frame of a peer whose ticket this lease has taken.
Frame(s, r, type) ==
  /\ lease[s].executing /\ r \in lease[s].bound /\ Reached(s, r)
  /\ Incoming(s, r) /\ Message(s, r).type = type
  /\ up' = Taken(s, r)
  /\ UNCHANGED <<halfOpen, invites, events>>

SignalAllowed(x, r, m) ==
  /\ x.p2pAllowed
  /\ x.state = "SELECTING_TRANSPORT" /\ x.p2p = "NEGOTIATING"
  /\ r \notin x.ready
  /\ m.seq = x.last[r] + 1
  /\ CASE m.kind = "offer" -> r = "controller" /\ ~x.offer
       [] m.kind = "answer" -> r = "device" /\ x.offer /\ ~x.answer
       [] m.kind = "ice-candidate" ->
            IF r = "controller" THEN x.offer ELSE x.answer

\* handleP2PSignal
ReceiveSignal(s, r) ==
  /\ Frame(s, r, "signal")
  /\ LET x == lease[s]
         m == Message(s, r)
     IN IF SignalAllowed(x, r, m)
          THEN /\ lease' = [lease EXCEPT ![s] =
                    [x EXCEPT !.last[r] = m.seq,
                              !.offer = @ \/ m.kind = "offer",
                              !.answer = @ \/ m.kind = "answer"]]
               /\ down' = Sent(s, {Other(r)}, m)
               /\ UNCHANGED holder
          ELSE Refuse(s)

\* A report that comes after the choice it would have led to.
LateReport(x) ==
  \/ x.state = "RECOVERING_TRANSPORT"
  \/ x.state = "ACTIVE" /\ x.selected = "relay" /\ x.p2p = "FALLBACK"

StateAllowed(x, r, m) ==
  /\ x.p2pAllowed
  /\ m.seq = x.last[r] + 1
  /\ ~(m.state = "ready" /\ r \in x.ready)

\* Seeded defect: a late report begins a recovery from the relay itself.
ReceiveFailedOnRelay(s, r) ==
  /\ Frame(s, r, "state") /\ Message(s, r).state = "failed"
  /\ LET m == Message(s, r)
         x == [lease[s] EXCEPT !.last[r] = m.seq]
     IN IF ~StateAllowed(lease[s], r, m)
          THEN Refuse(s)
        ELSE IF x.state = "SELECTING_TRANSPORT"
          THEN /\ lease' = [lease EXCEPT ![s] = OnRelay(x, TRUE)]
               /\ down' = Sent(s, Roles, Ready("relay"))
               /\ UNCHANGED holder
        ELSE IF x.state = "ACTIVE"
          THEN /\ lease' = [lease EXCEPT ![s] = Recovering(x)]
               /\ down' = Sent(s, Roles, Transport("recovering"))
               /\ UNCHANGED holder
        ELSE Refuse(s)

\* handleP2PState, "failed"
ReceiveFailed(s, r) ==
  /\ Frame(s, r, "state") /\ Message(s, r).state = "failed"
  /\ LET m == Message(s, r)
         x == [lease[s] EXCEPT !.last[r] = m.seq]
     IN IF ~StateAllowed(lease[s], r, m)
          THEN Refuse(s)
        ELSE IF x.state = "SELECTING_TRANSPORT"
          THEN /\ lease' = [lease EXCEPT ![s] = OnRelay(x, TRUE)]
               /\ down' = Sent(s, Roles, Ready("relay"))
               /\ UNCHANGED holder
        ELSE IF x.state = "ACTIVE" /\ x.selected = "p2p"
          THEN /\ lease' = [lease EXCEPT ![s] = Recovering(x)]
               /\ down' = Sent(s, Roles, Transport("recovering"))
               /\ UNCHANGED holder
        ELSE IF LateReport(x)
          THEN lease' = [lease EXCEPT ![s] = x] /\ UNCHANGED <<holder, down>>
        ELSE Refuse(s)

\* handleP2PState, "ready"
ReceiveReady(s, r) ==
  /\ Frame(s, r, "state") /\ Message(s, r).state = "ready"
  /\ LET m == Message(s, r)
         x == [lease[s] EXCEPT !.last[r] = m.seq]
         y == [x EXCEPT !.ready = @ \cup {r}]
         late == LateReport(x) \/ (x.state = "ACTIVE" /\ x.selected = "p2p")
         timely == /\ x.state = "SELECTING_TRANSPORT"
                   /\ x.p2p = "NEGOTIATING" /\ x.offer /\ x.answer
     IN IF ~StateAllowed(lease[s], r, m) \/ ~(late \/ timely)
          THEN Refuse(s)
        ELSE IF late
          THEN lease' = [lease EXCEPT ![s] = x] /\ UNCHANGED <<holder, down>>
        ELSE IF y.ready # Roles
          THEN lease' = [lease EXCEPT ![s] = y] /\ UNCHANGED <<holder, down>>
        ELSE /\ lease' = [lease EXCEPT ![s] =
                  [y EXCEPT !.p2p = "ACTIVE", !.selected = "p2p",
                            !.state = "ACTIVE", !.timer = "none"]]
             /\ down' = Sent(s, Roles, Ready("p2p"))
             /\ UNCHANGED holder

\* handleTransportState
ReceiveTransportState(s, r) ==
  /\ Frame(s, r, "transport.state")
  /\ IF r = "device" /\ lease[s].state = "RECOVERING_TRANSPORT"
       THEN /\ lease' = [lease EXCEPT ![s] =
                 [@ EXCEPT !.timer = "none", !.selected = "relay",
                           !.state = "ACTIVE"]]
            /\ down' = Sent(s, Roles, Transport("ready"))
            /\ UNCHANGED holder
       ELSE Refuse(s)

\* relayBinary; "slow" is a receiver whose buffer is full.
ReceiveBinary(s, r, slow) ==
  /\ Frame(s, r, "binary")
  /\ LET x == lease[s]
     IN IF ~(x.state = "ACTIVE" /\ x.selected = "relay")
          THEN Refuse(s)
        ELSE IF x.bytes + 1 > ByteBudget
          THEN Finish(s)
        ELSE IF slow
          THEN Finish(s)
        ELSE /\ lease' = [lease EXCEPT ![s].bytes = @ + 1]
             /\ down' = Sent(s, {Other(r)}, Binary)
             /\ UNCHANGED holder

\* The "close" handler of a bound socket.
PeerDisconnected(s, r) ==
  /\ Frame(s, r, "eof")
  /\ Finish(s)

\* The socket of a device that vanished is found dead.
DeadSocketCloses(s) ==
  /\ s \in halfOpen
  /\ halfOpen' = halfOpen \ {s}
  /\ IF "device" \in lease[s].bound
       THEN Finish(s)
       ELSE UNCHANGED <<lease, holder, down>>
  /\ UNCHANGED <<up, invites, events>>

\* Whatever else comes, from a socket that is not bound or of a lease that
\* has ended, changes nothing: the socket is closing already.
Ignored(s, r) ==
  /\ Incoming(s, r) /\ Message(s, r).type # "hello"
  /\ ~lease[s].executing \/ r \notin lease[s].bound \/ ~Reached(s, r)
  /\ up' = Taken(s, r)
  /\ UNCHANGED <<lease, holder, down, halfOpen, invites, events>>

ReceiveFrame(s, r) ==
  \/ BindHello(s, r)
  \/ HelloInvalid(s, r)
  \/ ReceiveSignal(s, r)
  \/ ReceiveFailed(s, r) \/ ReceiveReady(s, r)
  \/ ReceiveTransportState(s, r)
  \/ \E slow \in BOOLEAN : ReceiveBinary(s, r, slow)
  \/ PeerDisconnected(s, r)
  \/ Ignored(s, r)
=============================================================================
