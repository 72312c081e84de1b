------------------------- MODULE RemoteControlProofs -------------------------
(***************************************************************************)
(* A remote-control lease, for any number of leases, any budget and any    *)
(* browser: type correctness, the device is held by exactly the lease      *)
(* being executed, the socket of a running lease is served by the phone or *)
(* about to close, and the relay is open for whoever writes to it.         *)
(***************************************************************************)
EXTENDS RemoteControl, TLAPS

\* The parts of TypeOK.
ServerOK ==
  /\ lease \in [Sessions -> Lease]
  /\ holder \in Sessions \cup {NoSession}
  /\ halfOpen \subseteq Sessions /\ invites \subseteq Sessions
  /\ events \subseteq Sessions
PhoneOK ==
  /\ peer \in Peer
  /\ consumed \subseteq Sessions
  /\ pipe \in Nat /\ budget \in [Budget -> Nat]
BrowsersOK == browser \in [Sessions -> Browser]
ChannelsOK == up \in Channels /\ down \in Channels

LEMMA TypeParts == TypeOK <=> ServerOK /\ PhoneOK /\ BrowsersOK /\ ChannelsOK
  BY DEF TypeOK, ServerOK, PhoneOK, BrowsersOK, ChannelsOK

-----------------------------------------------------------------------------
(* Channels.                                                               *)

\* What is sent is a sequence of frames, and what is received one of them.
LEMMA AppendedChannel ==
  ASSUME NEW c \in Channels, NEW s \in Sessions, NEW r \in Roles,
         NEW ms \in Seq(Frames)
  PROVE  [c EXCEPT ![s][r] = @ \o ms] \in Channels
<1>1. c[s] \in [Roles -> Seq(Frames)] /\ c[s][r] \o ms \in Seq(Frames)
  BY DEF Channels
<1>2. [c[s] EXCEPT ![r] = @ \o ms] \in [Roles -> Seq(Frames)]
  BY <1>1
<1> QED
  BY <1>1, <1>2 DEF Channels

LEMMA SetChannel ==
  ASSUME NEW c \in Channels, NEW s \in Sessions, NEW r \in Roles,
         NEW q \in Seq(Frames)
  PROVE  [c EXCEPT ![s][r] = q] \in Channels
<1>1. [c[s] EXCEPT ![r] = q] \in [Roles -> Seq(Frames)]
  BY DEF Channels
<1> QED
  BY <1>1 DEF Channels

LEMMA FirstFrame ==
  ASSUME NEW c \in Channels, NEW s \in Sessions, NEW r \in Roles,
         c[s][r] # <<>>
  PROVE  /\ Head(c[s][r]) \in Frames
         /\ Tail(c[s][r]) \in Seq(Frames)
         /\ [c EXCEPT ![s][r] = Tail(@)] \in Channels
<1>1. c[s] \in [Roles -> Seq(Frames)] /\ c[s][r] \in Seq(Frames)
  BY DEF Channels
<1>2. Head(c[s][r]) \in Frames /\ Tail(c[s][r]) \in Seq(Frames)
  BY <1>1
<1>3. [c[s] EXCEPT ![r] = Tail(@)] \in [Roles -> Seq(Frames)]
  BY <1>1, <1>2
<1> QED
  BY <1>1, <1>2, <1>3 DEF Channels

LEMMA SentChannel ==
  ASSUME NEW s \in Sessions, NEW to, NEW m \in Frames, down \in Channels
  PROVE  Sent(s, to, m) \in Channels
<1>1. down[s] \in [Roles -> Seq(Frames)]
  BY DEF Channels
<1>2. [r \in Roles |-> IF r \in to /\ Reached(s, r)
                         THEN Append(down[s][r], m) ELSE down[s][r]]
        \in [Roles -> Seq(Frames)]
  BY <1>1
<1> QED
  BY <1>1, <1>2 DEF Sent, Channels

\* The frames the parts of the system build.
LEMMA FramesBuilt ==
  /\ \A v \in {1, 2} : Hello(v) \in Frames
  /\ \A k \in SignalKinds, n \in Nat : Signal(k, n) \in Frames
  /\ \A x \in {"ready", "failed"}, n \in Nat : P2PState(x, n) \in Frames
  /\ {TransportReady, Binary, Start, Closed, Eof} \subseteq Frames
  /\ \A t \in {"relay", "p2p"} : Ready(t) \in Frames
  /\ \A p \in {"recovering", "ready"} : Transport(p) \in Frames
  BY DEF Frames, Hello, Signal, P2PState, TransportReady, Binary, Start,
         Closed, Eof, Ready, Transport

\* A frame of a kind has the fields of that kind.
LEMMA FrameFields ==
  ASSUME NEW m \in Frames
  PROVE  /\ m.type = "hello" => m.version \in {1, 2}
         /\ m.type = "signal" => m.kind \in SignalKinds /\ m.seq \in Nat
         /\ m.type = "state" =>
              m.state \in {"ready", "failed"} /\ m.seq \in Nat
         /\ m.type = "ready" => m.transport \in {"relay", "p2p"}
         /\ m.type = "transport" => m.phase \in {"recovering", "ready"}
<1>1. CASE m \in [type : {"hello"}, version : {1, 2}]
  BY <1>1
<1>2. CASE m \in [type : {"signal"}, kind : SignalKinds, seq : Nat]
  BY <1>2
<1>3. CASE m \in [type : {"state"}, state : {"ready", "failed"}, seq : Nat]
  BY <1>3
<1>4. CASE m \in [type : {"ready"}, transport : {"relay", "p2p"}]
  BY <1>4
<1>5. CASE m \in [type : {"transport"}, phase : {"recovering", "ready"}]
  BY <1>5
<1>6. CASE m \in [type : {"transport.state", "binary", "start", "closed", "eof"}]
  BY <1>6
<1> QED
  BY <1>1, <1>2, <1>3, <1>4, <1>5, <1>6 DEF Frames

-----------------------------------------------------------------------------
(* The server.                                                             *)

LEMMA NoLeaseType == NoLease \in Lease
  BY DEF NoLease, Lease, SessionStates, P2PStatuses, Transports, Roles

LEMMA FinishedType ==
  ASSUME NEW b \in BOOLEAN
  PROVE  Finished(b) \in Lease /\ ~Finished(b).executing
<1>1. Finished(b) \in Lease
  BY NoLeaseType DEF Finished, Lease, SessionStates
<1>2. ~Finished(b).executing
  BY DEF Finished, NoLease
<1> QED
  BY <1>1, <1>2

\* What the server makes of a lease when it chooses a transport.
LEMMA ChoiceType ==
  ASSUME NEW x \in Lease, NEW b \in BOOLEAN
  PROVE  /\ OnRelay(x, b) \in Lease /\ OnRelay(x, b).executing = x.executing
         /\ Negotiating(x) \in Lease /\ Negotiating(x).executing = x.executing
         /\ Recovering(x) \in Lease /\ Recovering(x).executing = x.executing
<1> USE DEF Lease, SessionStates, P2PStatuses, Transports
<1>1. OnRelay(x, b) \in Lease /\ OnRelay(x, b).executing = x.executing
  BY DEF OnRelay
<1>2. Negotiating(x) \in Lease /\ Negotiating(x).executing = x.executing
  <2>1. [r \in Roles |-> -1] \in [Roles -> Int]
    OBVIOUS
  <2> QED
    BY <2>1 DEF Negotiating
<1>3. Recovering(x) \in Lease /\ Recovering(x).executing = x.executing
  BY DEF Recovering
<1> QED
  BY <1>1, <1>2, <1>3

\* A handler that changes the lease but not whether it is executed.
LEMMA LeaseKept ==
  ASSUME NEW s \in Sessions, NEW x \in Lease, ServerOK, OneLease,
         x.executing = lease[s].executing,
         lease' = [lease EXCEPT ![s] = x], UNCHANGED holder
  PROVE  lease' \in [Sessions -> Lease] /\ OneLease'
  BY DEF ServerOK, OneLease

\* finish frees the device and keeps the rest.
LEMMA FinishKept ==
  ASSUME NEW s \in Sessions, NEW b \in BOOLEAN, ServerOK, ChannelsOK,
         OneLease, FinishWith(s, b)
  PROVE  /\ lease' \in [Sessions -> Lease] /\ OneLease'
         /\ holder' \in Sessions \cup {NoSession} /\ down' \in Channels
<1>1. CASE ~lease[s].executing
  BY <1>1 DEF FinishWith, ServerOK, ChannelsOK, OneLease
<1>2. CASE lease[s].executing
  <2>1. down' \in Channels
    BY <1>2, SentChannel, FramesBuilt DEF FinishWith, ChannelsOK
  <2>2. lease' \in [Sessions -> Lease]
    BY <1>2, FinishedType DEF FinishWith, ServerOK
  <2>3. holder = s /\ holder' = NoSession
    BY <1>2 DEF FinishWith, OneLease
  <2>4. \A t \in Sessions : lease'[t].executing <=> holder' = t
    BY <1>2, <2>3, FinishedType, RelayAssumption
    DEF FinishWith, ServerOK, OneLease
  <2> QED
    BY <2>1, <2>2, <2>3, <2>4 DEF OneLease
<1> QED
  BY <1>1, <1>2

\* What every step of the server keeps.
ServerInv == ServerOK /\ ChannelsOK /\ OneLease

LEMMA CreateSessionKeeps ==
  ASSUME NEW s \in Sessions, NEW p2pAllowed \in BOOLEAN, ServerInv,
         CreateSession(s, p2pAllowed)
  PROVE  ServerInv'
<1> DEFINE x == [NoLease EXCEPT !.executing = TRUE, !.state = "WAITING_PEERS",
                       !.publishing = TRUE, !.p2pAllowed = p2pAllowed,
                       !.p2p = IF p2pAllowed THEN "AVAILABLE" ELSE "DISABLED"]
<1>1. x \in Lease
  BY NoLeaseType DEF Lease, SessionStates, P2PStatuses
<1>2. x.executing
  BY DEF NoLease
<1> HIDE DEF x
<1>3. lease' = [lease EXCEPT ![s] = x] /\ holder' = s
  BY DEF CreateSession, x
<1>4. \A t \in Sessions : ~lease[t].executing
  BY RelayAssumption DEF CreateSession, ServerInv, ServerOK, OneLease
<1>5. OneLease'
  BY <1>2, <1>3, <1>4 DEF ServerInv, ServerOK, OneLease
<1>6. ServerOK'
  BY <1>1, <1>3 DEF CreateSession, ServerInv, ServerOK
<1>7. ChannelsOK'
  BY DEF CreateSession, ServerInv, ChannelsOK
<1> QED
  BY <1>5, <1>6, <1>7 DEF ServerInv

\* The steps that end a lease, or publish its invitation.
LEMMA EndingKeeps ==
  ASSUME NEW s \in Sessions, ServerInv,
         \/ Published(s) \/ PublishFails(s) \/ CloseSession(s)
         \/ RecoveryTimeout(s) \/ DeviceEvent(s) \/ DeadSocketCloses(s)
  PROVE  ServerInv'
<1> USE DEF ServerInv
<1>1. CASE Published(s)
  <2> DEFINE x == lease[s]
  <2>0. x \in Lease
    BY DEF ServerOK
  <2> HIDE DEF x
  <2>1. [x EXCEPT !.publishing = FALSE] \in Lease
    BY <2>0 DEF Lease
  <2>2. [x EXCEPT !.publishing = FALSE].executing = x.executing
    BY <2>0 DEF Lease
  <2>3. lease' = [lease EXCEPT ![s] = [x EXCEPT !.publishing = FALSE]]
    BY <1>1 DEF Published, x
  <2> QED
    BY <1>1, <2>1, <2>2, <2>3, LeaseKept
    DEF x, Published, ServerOK, ChannelsOK
<1>2. CASE PublishFails(s)
  BY <1>2, FinishKept DEF PublishFails, Finish, ServerOK, ChannelsOK
<1>3. CASE CloseSession(s)
  BY <1>3, FinishKept DEF CloseSession, Finish, ServerOK, ChannelsOK
<1>4. CASE RecoveryTimeout(s)
  BY <1>4, FinishKept DEF RecoveryTimeout, Finish, ServerOK, ChannelsOK
<1>5. CASE DeviceEvent(s)
  BY <1>5, FinishKept DEF DeviceEvent, Finish, ServerOK, ChannelsOK
<1>6. CASE DeadSocketCloses(s)
  <2>1. halfOpen' \subseteq Sessions /\ UNCHANGED <<up, invites, events>>
    BY <1>6 DEF DeadSocketCloses, ServerOK
  <2>2. CASE Finish(s)
    BY <2>1, <2>2, FinishKept DEF Finish, ServerOK, ChannelsOK
  <2>3. CASE UNCHANGED <<lease, holder, down>>
    BY <2>1, <2>3 DEF ServerOK, ChannelsOK, OneLease
  <2> QED
    BY <1>6, <2>2, <2>3 DEF DeadSocketCloses
<1> QED
  BY <1>1, <1>2, <1>3, <1>4, <1>5, <1>6

LEMMA NegotiationTimeoutKeeps ==
  ASSUME NEW s \in Sessions, ServerInv, NegotiationTimeout(s)
  PROVE  ServerInv'
<1> USE DEF ServerInv
<1>1. lease[s] \in Lease
  BY DEF ServerOK
<1>2. OnRelay(lease[s], TRUE) \in Lease
      /\ OnRelay(lease[s], TRUE).executing = lease[s].executing
  BY <1>1, ChoiceType
<1>3. lease' = [lease EXCEPT ![s] = OnRelay(lease[s], TRUE)]
  BY DEF NegotiationTimeout
<1>4. down' \in Channels
  BY SentChannel, FramesBuilt DEF NegotiationTimeout, ChannelsOK
<1> QED
  BY <1>2, <1>3, <1>4, LeaseKept
  DEF NegotiationTimeout, ServerOK, ChannelsOK

-----------------------------------------------------------------------------
(* The server's frames.                                                    *)

\* A frame that is handled is typed, and its channel loses it.
LEMMA FrameTaken ==
  ASSUME NEW s \in Sessions, NEW r \in Roles, ServerInv, Incoming(s, r)
  PROVE  /\ Message(s, r) \in Frames /\ Taken(s, r) \in Channels
         /\ lease[s] \in Lease
<1>1. up \in Channels /\ up[s][r] # <<>>
  BY DEF ServerInv, ChannelsOK, Incoming
<1>2. Message(s, r) \in Frames /\ Taken(s, r) \in Channels
  BY <1>1, FirstFrame DEF Message, Taken
<1>3. lease[s] \in Lease
  BY DEF ServerInv, ServerOK
<1> QED
  BY <1>2, <1>3

\* A handler that goes on with the lease, and may send a frame.
LEMMA HandlerKeeps ==
  ASSUME NEW s \in Sessions, NEW x \in Lease, ServerInv,
         x.executing = lease[s].executing,
         lease' = [lease EXCEPT ![s] = x], up' \in Channels,
         down' \in Channels, UNCHANGED <<holder, halfOpen, invites, events>>
  PROVE  ServerInv'
  BY LeaseKept DEF ServerInv, ServerOK, ChannelsOK

\* A handler that ends it.
LEMMA RefusalKeeps ==
  ASSUME NEW s \in Sessions, NEW b \in BOOLEAN, ServerInv, FinishWith(s, b),
         up' \in Channels, UNCHANGED <<halfOpen, invites, events>>
  PROVE  ServerInv'
  BY FinishKept DEF ServerInv, ServerOK, ChannelsOK

LEMMA BindHelloKeeps ==
  ASSUME NEW s \in Sessions, NEW r \in Roles, ServerInv, BindHello(s, r)
  PROVE  ServerInv'
<1> DEFINE v == Message(s, r).version
           l == lease[s]
           x == [l EXCEPT !.used = @ \cup {r}, !.bound = @ \cup {r},
                          !.version[r] = v]
           w == [x EXCEPT !.selected = "none",
                    !.state = IF r = "controller" THEN "WAITING_DEVICE"
                                                  ELSE "WAITING_CONTROLLER"]
<1>1. l \in Lease /\ v \in {1, 2} /\ up' \in Channels /\ down \in Channels
      /\ UNCHANGED <<holder, halfOpen, invites, events>>
  BY FrameTaken, FrameFields DEF BindHello, ServerInv, ChannelsOK
<1> HIDE DEF l, v
<1>2. x \in Lease /\ x.executing = l.executing
  <2>1. [l.version EXCEPT ![r] = v] \in [Roles -> {1, 2}]
    BY <1>1 DEF Lease
  <2> QED
    BY <1>1, <2>1 DEF Lease
<1> HIDE DEF x
<1>3. w \in Lease /\ w.executing = l.executing
  BY <1>2 DEF Lease, SessionStates, Transports
<1> HIDE DEF w
<1>4. \A m \in Frames : Sent(s, Roles, m) \in Channels
  BY <1>1, SentChannel
<1>5. \/ lease' = [lease EXCEPT ![s] = w] /\ down' = down
      \/ lease' = [lease EXCEPT ![s] = Negotiating(x)]
           /\ down' = Sent(s, Roles, Start)
      \/ lease' = [lease EXCEPT ![s] = OnRelay(x, x.p2pAllowed)]
           /\ down' = Sent(s, Roles, Ready("relay"))
  BY DEF BindHello, w, x, l, v
<1>6. x.p2pAllowed \in BOOLEAN
  BY <1>2 DEF Lease
<1>7. \E y \in Lease : y.executing = l.executing
        /\ lease' = [lease EXCEPT ![s] = y] /\ down' \in Channels
  BY <1>1, <1>2, <1>3, <1>4, <1>5, <1>6, ChoiceType, FramesBuilt
<1> QED
  BY <1>1, <1>7, HandlerKeeps DEF l

LEMMA HelloRefusedKeeps ==
  ASSUME NEW s \in Sessions, NEW r \in Roles, ServerInv, RefuseHello(s, r)
  PROVE  ServerInv'
<1>1. up' \in Channels
  BY FrameTaken DEF RefuseHello
<1>2. down' \in Channels
  <2>1. down[s][r] \in Seq(Frames) /\ Eof \in Frames
    BY FramesBuilt DEF ServerInv, ChannelsOK, Channels
  <2> DEFINE q == Append(down[s][r], Eof)
  <2>2. q \in Seq(Frames)
    BY <2>1
  <2>3. down' = [down EXCEPT ![s][r] = q]
    BY DEF RefuseHello
  <2> HIDE DEF q
  <2> QED
    BY <2>2, <2>3, SetChannel DEF ServerInv, ChannelsOK
<1> QED
  BY <1>1, <1>2 DEF RefuseHello, ServerInv, ServerOK, ChannelsOK, OneLease

LEMMA SignalKeeps ==
  ASSUME NEW s \in Sessions, NEW r \in Roles, ServerInv, ReceiveSignal(s, r)
  PROVE  ServerInv'
<1> DEFINE m == Message(s, r)
           l == lease[s]
           n == m.seq
           o == l.offer \/ m.kind = "offer"
           a == l.answer \/ m.kind = "answer"
           x == [l EXCEPT !.last[r] = n, !.offer = o, !.answer = a]
<1>1. l \in Lease /\ m \in Frames /\ m.seq \in Nat /\ up' \in Channels
      /\ down \in Channels /\ UNCHANGED <<halfOpen, invites, events>>
  BY FrameTaken, FrameFields DEF ReceiveSignal, Frame, ServerInv, ChannelsOK
<1> HIDE DEF l, m
<1>0. o \in BOOLEAN /\ a \in BOOLEAN /\ n \in Nat
  BY <1>1 DEF Lease
<1> HIDE DEF o, a, n
<1>2. x \in Lease /\ x.executing = l.executing
  <2>1. [l.last EXCEPT ![r] = n] \in [Roles -> Int]
    BY <1>0, <1>1 DEF Lease
  <2> QED
    BY <1>0, <1>1, <2>1 DEF Lease
<1> HIDE DEF x
<1>3. Sent(s, {Other(r)}, m) \in Channels
  BY <1>1, SentChannel
<1>4. \/ FinishWith(s, TRUE)
      \/ lease' = [lease EXCEPT ![s] = x] /\ down' = Sent(s, {Other(r)}, m)
           /\ UNCHANGED holder
  BY DEF ReceiveSignal, Refuse, x, l, m, n, o, a
<1> QED
  BY <1>1, <1>2, <1>3, <1>4, HandlerKeeps, RefusalKeeps DEF l

\* What a report of a peer can make of the lease.
LEMMA FailedKeeps ==
  ASSUME NEW s \in Sessions, NEW r \in Roles, ServerInv, ReceiveFailed(s, r)
  PROVE  ServerInv'
<1> DEFINE m == Message(s, r)
           l == lease[s]
           x == [l EXCEPT !.last[r] = m.seq]
<1>1. l \in Lease /\ m \in Frames /\ m.seq \in Nat /\ up' \in Channels
      /\ down \in Channels /\ UNCHANGED <<halfOpen, invites, events>>
  BY FrameTaken, FrameFields DEF ReceiveFailed, Frame, ServerInv, ChannelsOK
<1> HIDE DEF l, m
<1>2. x \in Lease /\ x.executing = l.executing
  <2>1. [l.last EXCEPT ![r] = m.seq] \in [Roles -> Int]
    BY <1>1 DEF Lease
  <2> QED
    BY <1>1, <2>1 DEF Lease
<1> HIDE DEF x
<1>3. \A f \in Frames : Sent(s, Roles, f) \in Channels
  BY <1>1, SentChannel
<1>4. \/ FinishWith(s, TRUE)
      \/ lease' = [lease EXCEPT ![s] = OnRelay(x, TRUE)]
           /\ down' = Sent(s, Roles, Ready("relay")) /\ UNCHANGED holder
      \/ lease' = [lease EXCEPT ![s] = Recovering(x)]
           /\ down' = Sent(s, Roles, Transport("recovering"))
           /\ UNCHANGED holder
      \/ lease' = [lease EXCEPT ![s] = x] /\ UNCHANGED <<holder, down>>
  BY DEF ReceiveFailed, Refuse, x, l, m
<1>5. FinishWith(s, TRUE) \/
      \E y \in Lease : y.executing = l.executing /\ UNCHANGED holder
        /\ lease' = [lease EXCEPT ![s] = y] /\ down' \in Channels
  BY <1>1, <1>2, <1>3, <1>4, ChoiceType, FramesBuilt
<1> QED
  BY <1>1, <1>5, HandlerKeeps, RefusalKeeps DEF l

LEMMA ReadyKeeps ==
  ASSUME NEW s \in Sessions, NEW r \in Roles, ServerInv, ReceiveReady(s, r)
  PROVE  ServerInv'
<1> DEFINE m == Message(s, r)
           l == lease[s]
           x == [l EXCEPT !.last[r] = m.seq]
           y == [x EXCEPT !.ready = @ \cup {r}]
           z == [y EXCEPT !.p2p = "ACTIVE", !.selected = "p2p",
                          !.state = "ACTIVE", !.timer = "none"]
<1>1. l \in Lease /\ m \in Frames /\ m.seq \in Nat /\ up' \in Channels
      /\ down \in Channels /\ UNCHANGED <<halfOpen, invites, events>>
  BY FrameTaken, FrameFields DEF ReceiveReady, Frame, ServerInv, ChannelsOK
<1> HIDE DEF l, m
<1>2. x \in Lease /\ x.executing = l.executing
  <2>1. [l.last EXCEPT ![r] = m.seq] \in [Roles -> Int]
    BY <1>1 DEF Lease
  <2> QED
    BY <1>1, <2>1 DEF Lease
<1> HIDE DEF x
<1>3. y \in Lease /\ y.executing = l.executing
  BY <1>2 DEF Lease
<1> HIDE DEF y
<1>4. z \in Lease /\ z.executing = l.executing
  BY <1>3 DEF Lease, SessionStates, P2PStatuses, Transports
<1> HIDE DEF z
<1>5. \A f \in Frames : Sent(s, Roles, f) \in Channels
  BY <1>1, SentChannel
<1>6. \/ FinishWith(s, TRUE)
      \/ lease' = [lease EXCEPT ![s] = x] /\ UNCHANGED <<holder, down>>
      \/ lease' = [lease EXCEPT ![s] = y] /\ UNCHANGED <<holder, down>>
      \/ lease' = [lease EXCEPT ![s] = z]
           /\ down' = Sent(s, Roles, Ready("p2p")) /\ UNCHANGED holder
  BY DEF ReceiveReady, Refuse, z, y, x, l, m
<1>7. FinishWith(s, TRUE) \/
      \E w \in Lease : w.executing = l.executing /\ UNCHANGED holder
        /\ lease' = [lease EXCEPT ![s] = w] /\ down' \in Channels
  BY <1>1, <1>2, <1>3, <1>4, <1>5, <1>6, FramesBuilt
<1> QED
  BY <1>1, <1>7, HandlerKeeps, RefusalKeeps DEF l

LEMMA TransportStateKeeps ==
  ASSUME NEW s \in Sessions, NEW r \in Roles, ServerInv,
         ReceiveTransportState(s, r)
  PROVE  ServerInv'
<1> DEFINE l == lease[s]
           x == [l EXCEPT !.timer = "none", !.selected = "relay",
                          !.state = "ACTIVE"]
<1>1. l \in Lease /\ up' \in Channels /\ down \in Channels
      /\ UNCHANGED <<halfOpen, invites, events>>
  BY FrameTaken DEF ReceiveTransportState, Frame, ServerInv, ChannelsOK
<1> HIDE DEF l
<1>2. x \in Lease /\ x.executing = l.executing
  BY <1>1 DEF Lease, SessionStates, Transports
<1> HIDE DEF x
<1>3. Sent(s, Roles, Transport("ready")) \in Channels
  BY <1>1, SentChannel, FramesBuilt
<1>4. \/ FinishWith(s, TRUE)
      \/ lease' = [lease EXCEPT ![s] = x] /\ UNCHANGED holder
           /\ down' = Sent(s, Roles, Transport("ready"))
  BY DEF ReceiveTransportState, Refuse, x, l
<1> QED
  BY <1>1, <1>2, <1>3, <1>4, HandlerKeeps, RefusalKeeps DEF l

LEMMA BinaryKeeps ==
  ASSUME NEW s \in Sessions, NEW r \in Roles, NEW slow \in BOOLEAN, ServerInv,
         ReceiveBinary(s, r, slow)
  PROVE  ServerInv'
<1> DEFINE l == lease[s]
           x == [l EXCEPT !.bytes = @ + 1]
<1>1. l \in Lease /\ up' \in Channels /\ down \in Channels
      /\ UNCHANGED <<halfOpen, invites, events>>
  BY FrameTaken DEF ReceiveBinary, Frame, ServerInv, ChannelsOK
<1> HIDE DEF l
<1>2. x \in Lease /\ x.executing = l.executing
  BY <1>1 DEF Lease
<1> HIDE DEF x
<1>3. Sent(s, {Other(r)}, Binary) \in Channels
  BY <1>1, SentChannel, FramesBuilt
<1>4. \/ \E b \in BOOLEAN : FinishWith(s, b)
      \/ lease' = [lease EXCEPT ![s] = x] /\ UNCHANGED holder
           /\ down' = Sent(s, {Other(r)}, Binary)
  BY DEF ReceiveBinary, Refuse, Finish, x, l
<1> QED
  BY <1>1, <1>2, <1>3, <1>4, HandlerKeeps, RefusalKeeps DEF l

\* Every frame, and every other step of the server, keeps the invariant.
LEMMA ReceiveFrameKeeps ==
  ASSUME NEW s \in Sessions, NEW r \in Roles, ServerInv, ReceiveFrame(s, r)
  PROVE  ServerInv'
<1>1. CASE BindHello(s, r)
  BY <1>1, BindHelloKeeps
<1>2. CASE HelloInvalid(s, r)
  BY <1>2, HelloRefusedKeeps DEF HelloInvalid
<1>3. CASE ReceiveSignal(s, r)
  BY <1>3, SignalKeeps
<1>4. CASE ReceiveFailed(s, r) \/ ReceiveReady(s, r)
  BY <1>4, FailedKeeps, ReadyKeeps
<1>5. CASE ReceiveTransportState(s, r)
  BY <1>5, TransportStateKeeps
<1>6. CASE \E slow \in BOOLEAN : ReceiveBinary(s, r, slow)
  BY <1>6, BinaryKeeps
<1>7. CASE PeerDisconnected(s, r)
  BY <1>7, FrameTaken, RefusalKeeps DEF PeerDisconnected, Frame, Finish
<1>8. CASE Ignored(s, r)
  BY <1>8, FrameTaken
  DEF Ignored, ServerInv, ServerOK, ChannelsOK, OneLease
<1> QED
  BY <1>1, <1>2, <1>3, <1>4, <1>5, <1>6, <1>7, <1>8 DEF ReceiveFrame

LEMMA ServerKeeps == ServerInv /\ ServerStep => ServerInv'
<1> SUFFICES ASSUME ServerInv, NEW s \in Sessions,
               \/ \E p2pAllowed \in Preferences : CreateSession(s, p2pAllowed)
               \/ Published(s) \/ PublishFails(s)
               \/ CloseSession(s)
               \/ NegotiationTimeout(s) \/ RecoveryTimeout(s)
               \/ DeviceEvent(s) \/ DeadSocketCloses(s)
               \/ \E r \in Roles : ReceiveFrame(s, r) \/ RefuseHello(s, r)
             PROVE ServerInv'
  BY DEF ServerStep
<1> QED
  BY CreateSessionKeeps, EndingKeeps, NegotiationTimeoutKeeps,
     ReceiveFrameKeeps, HelloRefusedKeeps, RelayAssumption

-----------------------------------------------------------------------------
(* The phone.                                                              *)

\* What the phone keeps: types, and nothing of the lease or the browser.
PhoneInv == ServerOK /\ PhoneOK /\ ChannelsOK

LEMMA NoControlsType == NoControls \in [Carriers -> Nat]
  BY DEF NoControls

LEMMA FreshType ==
  ASSUME NEW s \in Sessions \cup {NoSession}
  PROVE  Fresh(s) \in Peer
  BY NoControlsType DEF Fresh, Peer, Transports, Codes

LEMMA SpentBudget ==
  ASSUME NEW kind \in Budget, PhoneOK, Spend(kind)
  PROVE  budget' \in [Budget -> Nat]
  BY DEF PhoneOK, Spend, Budget

\* The two reports of a failure.
LEMMA InitialFailureType ==
  ASSUME NEW p \in Peer
  PROVE  InitialFailure(p) \in Peer /\ InitialFailure(p).session = p.session
<1> DEFINE c == [t \in Carriers |-> IF t = "relay" THEN p.controls[t] ELSE 0]
           n == p.outgoing + 1
           q == [p EXCEPT !.grace = FALSE, !.failureReported = TRUE,
                          !.ready = FALSE, !.candidates = 0,
                          !.sidecar = "none", !.controls = c, !.outgoing = n]
<1>0. p.controls \in [Carriers -> Nat] /\ p.outgoing \in Nat
  BY DEF Peer
<1>1. c \in [Carriers -> Nat] /\ n \in Nat
  BY <1>0
<1>2. InitialFailure(p) = p \/ InitialFailure(p) = q
  BY DEF InitialFailure
<1> HIDE DEF c, n
<1>3. q \in Peer /\ q.session = p.session
  BY <1>1 DEF Peer
<1> HIDE DEF q
<1> QED
  BY <1>2, <1>3

LEMMA ActiveFailureType ==
  ASSUME NEW p \in Peer
  PROVE  ActiveFailure(p) \in Peer /\ ActiveFailure(p).session = p.session
<1> DEFINE n == p.outgoing + 1
           q == [p EXCEPT !.grace = FALSE, !.recovering = TRUE,
                          !.paired = FALSE, !.selected = "none",
                          !.ready = FALSE, !.failureReported = TRUE,
                          !.candidates = 0, !.sidecar = "none",
                          !.local = "none", !.bridged = FALSE,
                          !.controls = NoControls, !.frames = 0,
                          !.outgoing = n]
<1>1. n \in Nat
  BY DEF Peer
<1>2. ActiveFailure(p) = p \/ ActiveFailure(p) = q
  BY DEF ActiveFailure
<1> HIDE DEF n
<1>3. q \in Peer /\ q.session = p.session
  BY <1>1, NoControlsType, ZenonT(60) DEF Peer, Transports
<1> HIDE DEF q
<1> QED
  BY <1>2, <1>3

LEMMA FailureFrames ==
  ASSUME NEW p \in Peer, NEW q
  PROVE  Failure(p, q) \in Seq(Frames)
<1>1. P2PState("failed", p.outgoing) \in Frames
  BY FramesBuilt DEF Peer
<1>2. <<P2PState("failed", p.outgoing)>> \in Seq(Frames)
  BY <1>1
<1> QED
  BY <1>2 DEF Failure

LEMMA ConnectType ==
  ASSUME NEW p \in Peer
  PROVE  /\ ConnectLocalScrcpy(p) \in Peer
         /\ ConnectLocalScrcpy(p).session = p.session
  BY DEF ConnectLocalScrcpy, Peer

\* The two ways a handler can leave the session.
LEMMA BecomeKeeps ==
  ASSUME PhoneInv, NEW p \in Peer, NEW ms \in Seq(Frames),
         peer.session \in Sessions, Become(p, ms)
  PROVE  peer' \in Peer /\ up' \in Channels /\ events' \subseteq Sessions
<1>1. "device" \in Roles /\ up \in Channels
  BY DEF Roles, PhoneInv, ChannelsOK
<1>2. up' \in Channels
  BY <1>1, AppendedChannel DEF Become
<1> QED
  BY <1>2 DEF Become, PhoneInv, ServerOK

LEMMA CloseKeeps ==
  ASSUME PhoneInv, NEW code \in Codes, peer.session \in Sessions,
         CloseActive(code)
  PROVE  peer' \in Peer /\ up' \in Channels /\ events' \subseteq Sessions
  BY NoControlsType DEF CloseActive, PhoneInv, PhoneOK, ServerOK, ChannelsOK, Peer

\* A session that runs is a lease's, and its record is typed.
LEMMA RunningSession == PhoneInv /\ Running => peer.session \in Sessions
  BY DEF PhoneInv, PhoneOK, Running, Peer

LEMMA ReportKeeps ==
  ASSUME PhoneInv, NEW p \in Peer, peer.session \in Sessions,
         ReportInitialFailure(p) \/ ReportActiveFailure(p)
  PROVE  peer' \in Peer /\ up' \in Channels /\ events' \subseteq Sessions
<1>1. CASE ReportInitialFailure(p)
  BY <1>1, InitialFailureType, FailureFrames, BecomeKeeps
  DEF ReportInitialFailure
<1>2. CASE ReportActiveFailure(p)
  BY <1>2, ActiveFailureType, FailureFrames, BecomeKeeps
  DEF ReportActiveFailure
<1> QED
  BY <1>1, <1>2

\* The frames of handlers that send none, or one.
LEMMA ShortSequences ==
  <<>> \in Seq(Frames) /\ \A m \in Frames : <<m>> \in Seq(Frames)
  OBVIOUS

LEMMA SendToLocalKeeps ==
  ASSUME PhoneInv, NEW t \in Carriers, peer.session \in Sessions, SendToLocal(t)
  PROVE  peer' \in Peer /\ up' \in Channels /\ events' \subseteq Sessions
<1> DEFINE n == peer.controls[t] + 1
           p == [peer EXCEPT !.controls[t] = n]
<1>1. peer \in Peer
  BY DEF PhoneInv, PhoneOK
<1>2. peer.controls \in [Carriers -> Nat]
  BY <1>1 DEF Peer
<1>3. n \in Nat
  BY <1>2
<1>4. p = [peer EXCEPT !.controls = [peer.controls EXCEPT ![t] = n]]
  BY <1>1 DEF Peer
<1> HIDE DEF n
<1>5. [peer.controls EXCEPT ![t] = n] \in [Carriers -> Nat]
  BY <1>2, <1>3
<1>6. p \in Peer
  BY <1>1, <1>4, <1>5 DEF Peer
<1>7. \/ \E code \in Codes : CloseActive(code)
      \/ Become(p, <<>>)
      \/ UNCHANGED <<peer, up, events>>
  BY DEF SendToLocal, Codes, Faults, p, n
<1> HIDE DEF p
<1>8. CASE UNCHANGED <<peer, up, events>>
  BY <1>8 DEF PhoneInv, PhoneOK, ServerOK, ChannelsOK
<1> QED
  BY <1>6, <1>7, <1>8, CloseKeeps, BecomeKeeps, ShortSequences

\* A step of the phone that keeps these keeps the rest.
LEMMA PhoneFrame ==
  ASSUME PhoneInv, peer' \in Peer, up' \in Channels, events' \subseteq Sessions,
         down' \in Channels, UNCHANGED others, pipe' \in Nat,
         budget' \in [Budget -> Nat]
  PROVE  PhoneInv' /\ UNCHANGED <<lease, holder>>
  BY DEF PhoneInv, PhoneOK, ServerOK, ChannelsOK, others

LEMMA RelayFrameTaken ==
  ASSUME PhoneInv, NEW type, RelayFrame(type)
  PROVE  /\ peer.session \in Sessions /\ peer \in Peer
         /\ Head(down[peer.session]["device"]) \in Frames
         /\ Head(down[peer.session]["device"]).type = type
         /\ down' \in Channels /\ UNCHANGED others
         /\ pipe' \in Nat /\ budget' \in [Budget -> Nat]
<1>1. peer.session \in Sessions
  BY RunningSession DEF RelayFrame
<1>2. "device" \in Roles /\ down \in Channels
  BY DEF Roles, PhoneInv, ChannelsOK
<1>3. /\ Head(down[peer.session]["device"]) \in Frames
      /\ [down EXCEPT ![peer.session]["device"] = Tail(@)] \in Channels
  BY <1>1, <1>2, FirstFrame DEF RelayFrame
<1> QED
  BY <1>1, <1>3 DEF RelayFrame, PhoneInv, PhoneOK

\* Invitations, the relay socket and the end of a session.
LEMMA InvitationKeeps ==
  ASSUME NEW s \in Sessions, PhoneInv,
         \/ DropInvitation(s) \/ RejectInvitation(s) \/ AcceptInvitation(s)
         \/ EventLost(s)
  PROVE  PhoneInv' /\ UNCHANGED <<lease, holder>>
<1> USE DEF PhoneInv, PhoneOK, ServerOK, ChannelsOK
<1>1. CASE EventLost(s)
  BY <1>1 DEF EventLost, others
<1>2. ASSUME Invited(s)
      PROVE  /\ invites' \subseteq Sessions /\ budget' \in [Budget -> Nat]
             /\ up' = up /\ pipe' = pipe
             /\ UNCHANGED <<lease, holder, halfOpen>>
  BY <1>2, SpentBudget DEF Invited, Budget
<1>3. CASE DropInvitation(s)
  BY <1>2, <1>3 DEF DropInvitation
<1>4. CASE RejectInvitation(s)
  BY <1>2, <1>4 DEF RejectInvitation
<1>5. CASE AcceptInvitation(s)
  <2>1. down' \in Channels
    BY <1>5, ShortSequences, SetChannel DEF AcceptInvitation, Roles
  <2> QED
    BY <1>2, <1>5, <2>1, FreshType DEF AcceptInvitation
<1> QED
  BY <1>1, <1>3, <1>4, <1>5

LEMMA RelayOpensKeeps ==
  ASSUME PhoneInv, RelayOpens
  PROVE  PhoneInv' /\ UNCHANGED <<lease, holder>>
<1>1. PICK v \in Versions :
        Become([peer EXCEPT !.version = v], <<Hello(v)>>)
  BY DEF RelayOpens
<1>2. v \in {1, 2} /\ peer \in Peer /\ peer.session \in Sessions
  BY RelayAssumption, RunningSession DEF RelayOpens, PhoneInv, PhoneOK
<1>3. [peer EXCEPT !.version = v] \in Peer
  BY <1>2 DEF Peer
<1>4. <<Hello(v)>> \in Seq(Frames)
  BY <1>2, FramesBuilt, ShortSequences
<1>5. peer' \in Peer /\ up' \in Channels /\ events' \subseteq Sessions
  BY <1>1, <1>2, <1>3, <1>4, BecomeKeeps
<1> QED
  BY <1>5, PhoneFrame DEF RelayOpens, PhoneInv, PhoneOK, ChannelsOK

LEMMA PeerClosesKeeps ==
  ASSUME PhoneInv, PeerCloses
  PROVE  PhoneInv' /\ UNCHANGED <<lease, holder>>
<1>1. "PEER_CLOSED" \in Codes
  BY DEF Codes
<1>2. peer' \in Peer /\ up' \in Channels /\ events' \subseteq Sessions
  BY <1>1, RunningSession, CloseKeeps DEF PeerCloses
<1> QED
  BY <1>2, PhoneFrame DEF PeerCloses, PhoneInv, PhoneOK, ChannelsOK

LEMMA TeardownKeeps ==
  ASSUME PhoneInv, Teardown
  PROVE  PhoneInv' /\ UNCHANGED <<lease, holder>>
<1>0. peer.session \in Sessions
  BY DEF Teardown, PhoneInv, PhoneOK, Peer
<1>1. "device" \in Roles /\ up \in Channels /\ down \in Channels
  BY DEF Roles, PhoneInv, ChannelsOK
<1>2. down' \in Channels
  BY <1>0, <1>1, ShortSequences, SetChannel DEF Teardown
<1>3. up' \in Channels
  <2> DEFINE q == Append(up[peer.session]["device"], Eof)
  <2>1. q \in Seq(Frames)
    BY <1>0, <1>1, FramesBuilt DEF Channels
  <2>2. up' = up \/ up' = [up EXCEPT ![peer.session]["device"] = q]
    BY DEF Teardown
  <2> HIDE DEF q
  <2> QED
    BY <1>0, <1>1, <2>1, <2>2, SetChannel
<1>4. peer' \in Peer
  BY FreshType DEF Teardown, Idle
<1> QED
  BY <1>2, <1>3, <1>4, PhoneFrame
  DEF Teardown, PhoneInv, PhoneOK, ServerOK

LEMMA CrashKeeps ==
  ASSUME PhoneInv, Crash
  PROVE  PhoneInv' /\ UNCHANGED <<lease, holder>>
<1>1. budget' \in [Budget -> Nat]
  BY SpentBudget DEF Crash, PhoneInv, Budget
<1>2. peer' \in Peer
  BY FreshType DEF Crash, Idle
<1>3. /\ up' \in Channels /\ down' \in Channels
      /\ halfOpen' \subseteq Sessions
  <2>1. "device" \in Roles /\ up \in Channels /\ down \in Channels
    BY DEF Roles, PhoneInv, ChannelsOK
  <2>2. CASE peer.session = NoSession
    BY <2>1, <2>2 DEF Crash, PhoneInv, ServerOK
  <2>3. CASE peer.session # NoSession
    <3>1. peer.session \in Sessions
      BY <2>3 DEF PhoneInv, PhoneOK, Peer
    <3>2. /\ up' = [up EXCEPT ![peer.session]["device"] = <<>>]
          /\ down' = [down EXCEPT ![peer.session]["device"] = <<>>]
      BY <2>3 DEF Crash
    <3>3. up' \in Channels /\ down' \in Channels
      BY <2>1, <3>1, <3>2, ShortSequences, SetChannel
    <3> QED
      BY <2>3, <3>1, <3>3 DEF Crash, PhoneInv, ServerOK
  <2> QED
    BY <2>2, <2>3
<1> QED
  BY <1>1, <1>2, <1>3 DEF Crash, PhoneInv, PhoneOK, ServerOK, ChannelsOK

-----------------------------------------------------------------------------
(* The phone's handlers of relay frames.                                   *)

\* Most of them leave the session typed, send typed frames, or close it.
LEMMA HandlerOutcome ==
  ASSUME PhoneInv, NEW type, RelayFrame(type),
         \/ \E code \in Codes : CloseActive(code)
         \/ \E p \in Peer, ms \in Seq(Frames) : Become(p, ms)
         \/ \E p \in Peer : ReportInitialFailure(p) \/ ReportActiveFailure(p)
         \/ \E t \in Carriers : SendToLocal(t)
  PROVE  PhoneInv' /\ UNCHANGED <<lease, holder>>
<1>1. peer.session \in Sessions
  BY RelayFrameTaken
<1>2. peer' \in Peer /\ up' \in Channels /\ events' \subseteq Sessions
  BY <1>1, CloseKeeps, BecomeKeeps, ReportKeeps, SendToLocalKeeps
<1> QED
  BY <1>2, RelayFrameTaken, PhoneFrame

LEMMA StartP2PKeeps ==
  ASSUME PhoneInv, NEW starts \in BOOLEAN, StartP2P(starts)
  PROVE  PhoneInv' /\ UNCHANGED <<lease, holder>>
<1> DEFINE p == [peer EXCEPT !.attempt = TRUE, !.incoming = 0, !.outgoing = 0,
                           !.ready = FALSE, !.readyReported = FALSE,
                           !.failureReported = FALSE, !.candidates = 0,
                           !.answerSent = FALSE, !.sidecar = "started"]
<1>1. RelayFrame("start") /\ peer \in Peer
  BY RelayFrameTaken DEF StartP2P
<1>2. p \in Peer
  BY <1>1, ZenonT(60) DEF Peer
<1>3. \/ CloseActive("REMOTE_P2P_START_INVALID") \/ Become(p, <<>>)
      \/ ReportInitialFailure(p)
  BY DEF StartP2P
<1> HIDE DEF p
<1>4. "REMOTE_P2P_START_INVALID" \in Codes
  BY DEF Codes, Faults
<1> QED
  BY <1>1, <1>2, <1>3, <1>4, ShortSequences, HandlerOutcome

LEMMA HandleP2PSignalKeeps ==
  ASSUME PhoneInv, NEW applies \in BOOLEAN, HandleP2PSignal(applies)
  PROVE  PhoneInv' /\ UNCHANGED <<lease, holder>>
<1> DEFINE n == peer.incoming + 1
           m == Head(down[peer.session]["device"])
           p == [peer EXCEPT !.incoming = n]
           q == [p EXCEPT !.sidecar = IF m.kind = "offer" THEN "offered" ELSE @]
<1>1. RelayFrame("signal") /\ peer \in Peer
  BY RelayFrameTaken DEF HandleP2PSignal
<1>2. n \in Nat
  BY <1>1 DEF Peer
<1>3. \/ CloseActive("REMOTE_P2P_SIGNAL_INVALID") \/ Become(p, <<>>)
      \/ ReportInitialFailure(p) \/ Become(q, <<>>)
  BY DEF HandleP2PSignal
<1> HIDE DEF n, m
<1>4. p \in Peer
  BY <1>1, <1>2 DEF Peer
<1> HIDE DEF p
<1>5. q \in Peer
  BY <1>4 DEF Peer
<1> HIDE DEF q
<1>6. "REMOTE_P2P_SIGNAL_INVALID" \in Codes
  BY DEF Codes
<1> QED
  BY <1>1, <1>3, <1>4, <1>5, <1>6, ShortSequences, HandlerOutcome

LEMMA SelectInitialTransportKeeps ==
  ASSUME PhoneInv, SelectInitialTransport
  PROVE  PhoneInv' /\ UNCHANGED <<lease, holder>>
<1> DEFINE t == Head(down[peer.session]["device"]).transport
           w == [peer EXCEPT !.awaiting = TRUE]
           p == [peer EXCEPT !.paired = TRUE, !.selected = t,
                             !.sidecar = IF t = "relay" THEN "none" ELSE @]
<1>1. RelayFrame("ready") /\ peer \in Peer /\ t \in {"relay", "p2p"}
  BY RelayFrameTaken, FrameFields DEF SelectInitialTransport
<1>2. \/ CloseActive("REMOTE_RELAY_READY_INVALID") \/ Become(w, <<>>)
      \/ Become(ConnectLocalScrcpy(p), <<>>)
  BY DEF SelectInitialTransport
<1> HIDE DEF t
<1>3. w \in Peer
  BY <1>1, ZenonT(60) DEF Peer
<1>5. p \in Peer
  BY <1>1, ZenonT(60) DEF Peer, Transports
<1> HIDE DEF w, p
<1>4. "REMOTE_RELAY_READY_INVALID" \in Codes
  BY DEF Codes, Faults
<1> QED
  BY <1>1, <1>2, <1>3, <1>4, <1>5, ConnectType, ShortSequences,
     HandlerOutcome

LEMMA RecoveryBeginsKeeps ==
  ASSUME PhoneInv, RecoveryBegins
  PROVE  PhoneInv' /\ UNCHANGED <<lease, holder>>
<1> DEFINE a == [peer EXCEPT !.awaiting = FALSE, !.recovering = TRUE]
           p == IF peer.awaiting THEN a ELSE ActiveFailure(peer)
           ms == IF peer.awaiting THEN <<>> ELSE Failure(peer, p)
<1>1. RelayFrame("transport") /\ peer \in Peer
  BY RelayFrameTaken DEF RecoveryBegins
<1>2. \/ CloseActive("REMOTE_RECOVERY_SEQUENCE_INVALID")
      \/ Become(ConnectLocalScrcpy(p), ms)
  BY DEF RecoveryBegins
<1>3. a \in Peer
  BY <1>1 DEF Peer
<1> HIDE DEF a
<1>4. p \in Peer /\ ms \in Seq(Frames)
  BY <1>1, <1>3, ActiveFailureType, FailureFrames, ShortSequences
<1> HIDE DEF p, ms
<1>5. "REMOTE_RECOVERY_SEQUENCE_INVALID" \in Codes
  BY DEF Codes, Faults
<1> QED
  BY <1>1, <1>2, <1>4, <1>5, ConnectType, HandlerOutcome

LEMMA RecoveryCommitsKeeps ==
  ASSUME PhoneInv, RecoveryCommits
  PROVE  PhoneInv' /\ UNCHANGED <<lease, holder>>
<1> DEFINE p == [peer EXCEPT !.recovering = FALSE, !.paired = TRUE,
                             !.selected = "relay", !.frames = 0]
           ms == [i \in 1..peer.frames |-> Binary]
<1>1. RelayFrame("transport") /\ peer \in Peer
  BY RelayFrameTaken DEF RecoveryCommits
<1>2. CloseActive("REMOTE_RECOVERY_SEQUENCE_INVALID") \/ Become(p, ms)
  BY DEF RecoveryCommits
<1>3. p \in Peer
  BY <1>1 DEF Peer, Transports
<1>4. ms \in Seq(Frames)
  <2>1. peer.frames \in Nat
    BY <1>1 DEF Peer
  <2> QED
    BY <2>1, FramesBuilt
<1> HIDE DEF p, ms
<1>5. "REMOTE_RECOVERY_SEQUENCE_INVALID" \in Codes
  BY DEF Codes, Faults
<1> QED
  BY <1>1, <1>2, <1>3, <1>4, <1>5, HandlerOutcome

LEMMA RelayBinaryKeeps ==
  ASSUME PhoneInv, RelayBinary \/ RelayCloses
  PROVE  PhoneInv' /\ UNCHANGED <<lease, holder>>
<1>1. {"REMOTE_RELAY_SEQUENCE_INVALID", "PEER_CLOSED"} \subseteq Codes
  BY DEF Codes, Faults
<1>2. "relay" \in Carriers
  BY DEF Carriers
<1>3. CASE RelayBinary
  BY <1>1, <1>2, <1>3, HandlerOutcome DEF RelayBinary
<1>4. CASE RelayCloses
  BY <1>1, <1>4, HandlerOutcome DEF RelayCloses
<1> QED
  BY <1>3, <1>4

LEMMA RelayFrameKeeps ==
  ASSUME PhoneInv, HandleRelayFrame
  PROVE  PhoneInv' /\ UNCHANGED <<lease, holder>>
  BY StartP2PKeeps, HandleP2PSignalKeeps, SelectInitialTransportKeeps,
     RecoveryBeginsKeeps, RecoveryCommitsKeeps, RelayBinaryKeeps
  DEF HandleRelayFrame

-----------------------------------------------------------------------------
(* Callbacks of the sidecar and of the local socket.                       *)

\* What the callbacks have in common.
LEMMA CallbackOutcome ==
  ASSUME PhoneInv, Running, UNCHANGED <<others, down>>,
         pipe' \in Nat, budget' \in [Budget -> Nat],
         \/ UNCHANGED <<peer, up, events>>
         \/ \E code \in Codes : CloseActive(code)
         \/ \E p \in Peer, ms \in Seq(Frames) : Become(p, ms)
         \/ \E p \in Peer : ReportInitialFailure(p) \/ ReportActiveFailure(p)
         \/ \E t \in Carriers : SendToLocal(t)
  PROVE  PhoneInv' /\ UNCHANGED <<lease, holder>>
<1>1. peer.session \in Sessions
  BY RunningSession
<1>2. peer' \in Peer /\ up' \in Channels /\ events' \subseteq Sessions
  <2>1. CASE UNCHANGED <<peer, up, events>>
    BY <2>1 DEF PhoneInv, PhoneOK, ServerOK, ChannelsOK
  <2> QED
    BY <1>1, <2>1, CloseKeeps, BecomeKeeps, ReportKeeps, SendToLocalKeeps
<1> QED
  BY <1>2, PhoneFrame DEF PhoneInv, ChannelsOK

LEMMA LocalDescriptionKeeps ==
  ASSUME PhoneInv, LocalDescription
  PROVE  PhoneInv' /\ UNCHANGED <<lease, holder>>
<1> DEFINE c == peer.candidates
           o == peer.outgoing
           n == o + 1 + c
           p == [peer EXCEPT !.answerSent = TRUE, !.candidates = 0,
                             !.outgoing = n]
           ms == [i \in 1..(1 + c) |->
                   Signal(IF i = 1 THEN "answer" ELSE "ice-candidate", o + i - 1)]
<1>1. Running /\ peer \in Peer /\ UNCHANGED <<others, down, pipe, budget>>
  BY DEF LocalDescription, Sidecar, PhoneInv, PhoneOK
<1>2. c \in Nat /\ o \in Nat /\ n \in Nat
  BY <1>1 DEF Peer
<1>3. Become(p, ms)
  BY <1>1 DEF LocalDescription, Peer
<1> HIDE DEF c, o
<1>4. ms \in Seq(Frames)
  <2>1. \A i \in 1..(1 + c) : o + i - 1 \in Nat
    BY <1>2
  <2>2. \A i \in 1..(1 + c) :
          Signal(IF i = 1 THEN "answer" ELSE "ice-candidate", o + i - 1) \in Frames
    BY <2>1, FramesBuilt DEF SignalKinds
  <2> QED
    BY <1>2, <2>2
<1> HIDE DEF n, ms
<1>5. p \in Peer
  BY <1>1, <1>2 DEF Peer
<1> HIDE DEF p
<1> QED
  BY <1>1, <1>3, <1>4, <1>5, CallbackOutcome DEF PhoneInv, PhoneOK

LEMMA LocalCandidateKeeps ==
  ASSUME PhoneInv, LocalCandidate
  PROVE  PhoneInv' /\ UNCHANGED <<lease, holder>>
<1> DEFINE n == peer.outgoing + 1
           k == peer.candidates + 1
           p == [peer EXCEPT !.outgoing = n]
           q == [peer EXCEPT !.candidates = k]
           f == Signal("ice-candidate", peer.outgoing)
<1>1. /\ Running /\ peer \in Peer /\ UNCHANGED <<others, down, pipe>>
      /\ budget' \in [Budget -> Nat]
  BY SpentBudget DEF LocalCandidate, Sidecar, PhoneInv, PhoneOK, Budget
<1>2. n \in Nat /\ k \in Nat /\ peer.outgoing \in Nat
  BY <1>1 DEF Peer
<1>3. \/ UNCHANGED <<peer, up, events>> \/ Become(p, <<f>>)
      \/ ReportInitialFailure(peer) \/ Become(q, <<>>)
  BY DEF LocalCandidate
<1>4. <<f>> \in Seq(Frames)
  BY <1>2, FramesBuilt, ShortSequences DEF SignalKinds
<1> HIDE DEF n, k, f
<1>5. p \in Peer /\ q \in Peer
  BY <1>1, <1>2 DEF Peer
<1> HIDE DEF p, q
<1> QED
  BY <1>1, <1>3, <1>4, <1>5, ShortSequences, CallbackOutcome
  DEF PhoneInv, PhoneOK

LEMMA SidecarReadyKeeps ==
  ASSUME PhoneInv, SidecarReady
  PROVE  PhoneInv' /\ UNCHANGED <<lease, holder>>
<1> DEFINE n == peer.outgoing + 1
           p == [peer EXCEPT !.grace = FALSE, !.ready = TRUE]
           q == [p EXCEPT !.readyReported = TRUE, !.outgoing = n]
           f == P2PState("ready", peer.outgoing)
<1>1. Running /\ peer \in Peer /\ UNCHANGED <<others, down, pipe, budget>>
  BY DEF SidecarReady, Sidecar, PhoneInv, PhoneOK
<1>2. n \in Nat /\ peer.outgoing \in Nat
  BY <1>1 DEF Peer
<1>3. Become(q, <<f>>) \/ Become(p, <<>>)
  BY <1>1 DEF SidecarReady, Peer
<1>4. <<f>> \in Seq(Frames)
  BY <1>2, FramesBuilt, ShortSequences
<1> HIDE DEF n, f
<1>5. p \in Peer
  BY <1>1 DEF Peer
<1> HIDE DEF p
<1>6. q \in Peer
  BY <1>2, <1>5 DEF Peer
<1> HIDE DEF q
<1> QED
  BY <1>1, <1>3, <1>4, <1>5, <1>6, ShortSequences, CallbackOutcome
  DEF PhoneInv, PhoneOK

LEMMA SidecarFailureKeeps ==
  ASSUME PhoneInv, SidecarDisconnected \/ SidecarFails \/ GraceEnds
  PROVE  PhoneInv' /\ UNCHANGED <<lease, holder>>
<1> DEFINE p == [peer EXCEPT !.grace = FALSE]
           q == [peer EXCEPT !.grace = TRUE]
<1>1. Running /\ peer \in Peer /\ UNCHANGED <<others, down, pipe, budget>>
  BY DEF SidecarDisconnected, SidecarFails, GraceEnds, Sidecar, PhoneInv, PhoneOK
<1>2. p \in Peer /\ q \in Peer
  BY <1>1 DEF Peer
<1>3. \/ UNCHANGED <<peer, up, events>> \/ Become(q, <<>>) \/ Become(p, <<>>)
      \/ ReportActiveFailure(peer) \/ ReportInitialFailure(peer)
      \/ ReportActiveFailure(p) \/ ReportInitialFailure(p)
  BY DEF SidecarDisconnected, SidecarFails, GraceEnds
<1> HIDE DEF p, q
<1> QED
  BY <1>1, <1>2, <1>3, ShortSequences, CallbackOutcome DEF PhoneInv, PhoneOK

LEMMA SidecarBinaryKeeps ==
  ASSUME PhoneInv, SidecarBinary
  PROVE  PhoneInv' /\ UNCHANGED <<lease, holder>>
<1>1. /\ Running /\ peer \in Peer /\ UNCHANGED <<others, down, budget>>
      /\ pipe' \in Nat /\ budget' \in [Budget -> Nat]
  BY DEF SidecarBinary, Sidecar, PhoneInv, PhoneOK
<1>2. \/ SendToLocal("p2p") \/ CloseActive("RTC_CONTROL_SEQUENCE_INVALID")
      \/ ReportInitialFailure(peer)
  BY DEF SidecarBinary
<1>3. "p2p" \in Carriers /\ "RTC_CONTROL_SEQUENCE_INVALID" \in Codes
  BY DEF Carriers, Codes, Faults
<1> QED
  BY <1>1, <1>2, <1>3, CallbackOutcome

LEMMA LocalOpensKeeps ==
  ASSUME PhoneInv, LocalOpens
  PROVE  PhoneInv' /\ UNCHANGED <<lease, holder>>
<1> DEFINE p == [peer EXCEPT !.local = "open", !.bridged = TRUE,
                             !.controls = NoControls]
           ms == IF peer.recovering THEN <<TransportReady>> ELSE <<>>
<1>1. Running /\ peer \in Peer /\ UNCHANGED <<others, down, pipe, budget>>
  BY DEF LocalOpens, PhoneInv, PhoneOK
<1>2. CloseActive("REMOTE_CONTROL_TRANSPORT_MISMATCH") \/ Become(p, ms)
  BY DEF LocalOpens
<1>3. p \in Peer
  BY <1>1, NoControlsType DEF Peer
<1>4. ms \in Seq(Frames)
  BY FramesBuilt, ShortSequences
<1> HIDE DEF p, ms
<1>5. "REMOTE_CONTROL_TRANSPORT_MISMATCH" \in Codes
  BY DEF Codes, Faults
<1> QED
  BY <1>1, <1>2, <1>3, <1>4, <1>5, CallbackOutcome DEF PhoneInv, PhoneOK

LEMMA LocalBinaryKeeps ==
  ASSUME PhoneInv, NEW sends \in BOOLEAN, LocalBinary(sends)
  PROVE  PhoneInv' /\ UNCHANGED <<lease, holder>>
<1> DEFINE n == peer.frames + 1
           p == [peer EXCEPT !.frames = n]
<1>1. /\ Running /\ peer \in Peer /\ UNCHANGED <<others, down, pipe>>
      /\ budget' \in [Budget -> Nat]
  BY SpentBudget DEF LocalBinary, PhoneInv, PhoneOK, Budget
<1>2. n \in Nat
  BY <1>1 DEF Peer
<1>3. \/ CloseActive("REMOTE_RECOVERY_BUFFER_FULL") \/ Become(p, <<>>)
      \/ Become(peer, <<Binary>>) \/ UNCHANGED <<peer, up, events>>
      \/ ReportActiveFailure(peer)
  BY DEF LocalBinary
<1> HIDE DEF n
<1>4. p \in Peer
  BY <1>1, <1>2 DEF Peer
<1> HIDE DEF p
<1>5. <<Binary>> \in Seq(Frames)
  BY FramesBuilt, ShortSequences
<1>6. "REMOTE_RECOVERY_BUFFER_FULL" \in Codes
  BY DEF Codes
<1> QED
  BY <1>1, <1>3, <1>4, <1>5, <1>6, ShortSequences, CallbackOutcome
  DEF PhoneInv, PhoneOK

LEMMA PhoneKeeps == PhoneInv /\ PeerStep => PhoneInv' /\ UNCHANGED <<lease, holder>>
<1> SUFFICES ASSUME PhoneInv, PeerStep
             PROVE  PhoneInv' /\ UNCHANGED <<lease, holder>>
  OBVIOUS
<1>1. CASE \E s \in Sessions :
          \/ DropInvitation(s) \/ RejectInvitation(s) \/ AcceptInvitation(s)
          \/ EventLost(s)
  BY <1>1, InvitationKeeps
<1>2. CASE RelayOpens \/ PeerCloses \/ Teardown \/ Crash
  BY <1>2, RelayOpensKeeps, PeerClosesKeeps, TeardownKeeps, CrashKeeps
<1>3. CASE HandleRelayFrame
  BY <1>3, RelayFrameKeeps
<1>4. CASE LocalDescription \/ LocalCandidate \/ OpenChannel
  BY <1>4, LocalDescriptionKeeps, LocalCandidateKeeps, SidecarReadyKeeps
  DEF OpenChannel
<1>5. CASE SidecarDisconnected \/ SidecarFails \/ GraceEnds \/ SidecarBinary
  BY <1>5, SidecarFailureKeeps, SidecarBinaryKeeps
<1>6. CASE LocalOpens \/ \E sends \in BOOLEAN : LocalBinary(sends)
  BY <1>6, LocalOpensKeeps, LocalBinaryKeeps
<1> QED
  BY <1>1, <1>2, <1>3, <1>4, <1>5, <1>6 DEF PeerStep

-----------------------------------------------------------------------------
(* The browser.                                                            *)

LEMMA SendsKeeps ==
  ASSUME TypeOK, NEW s \in Sessions, NEW x \in Browser, NEW ms \in Seq(Frames),
         BrowserSends(s, x, ms), down' \in Channels, pipe' \in Nat,
         budget' \in [Budget -> Nat]
  PROVE  TypeOK' /\ UNCHANGED <<lease, holder>>
<1>1. "controller" \in Roles /\ up \in Channels
  BY DEF Roles, TypeOK
<1>2. up' \in Channels
  BY <1>1, AppendedChannel DEF BrowserSends
<1>3. browser' \in [Sessions -> Browser]
  BY DEF BrowserSends, TypeOK
<1> QED
  BY <1>2, <1>3 DEF BrowserSends, TypeOK

\* Steps that receive nothing.
LEMMA BrowserActs ==
  ASSUME TypeOK, NEW s \in Sessions,
         \/ BrowserConnects(s) \/ BrowserOffers(s) \/ BrowserCandidate(s)
         \/ BrowserReady(s) \/ BrowserFails(s) \/ BrowserControls(s)
  PROVE  TypeOK' /\ UNCHANGED <<lease, holder>>
<1> DEFINE b == browser[s]
           n == b.seq + 1
<1>1. b \in Browser /\ pipe \in Nat /\ down \in Channels
      /\ budget \in [Budget -> Nat] /\ PhoneOK
  BY DEF TypeOK, PhoneOK
<1>2. n \in Nat /\ b.seq \in Nat
  BY <1>1 DEF Browser
<1>3. /\ Signal("offer", b.seq) \in Frames
      /\ Signal("ice-candidate", b.seq) \in Frames
      /\ P2PState("ready", b.seq) \in Frames
      /\ P2PState("failed", b.seq) \in Frames
  BY <1>2, FramesBuilt DEF SignalKinds
<1>4. CASE BrowserConnects(s)
  <2>1. PICK v \in Versions :
          BrowserSends(s, [b EXCEPT !.state = "open"], <<Hello(v)>>)
    BY <1>4 DEF BrowserConnects
  <2>2. [b EXCEPT !.state = "open"] \in Browser
    BY <1>1 DEF Browser
  <2>3. <<Hello(v)>> \in Seq(Frames)
    BY RelayAssumption, FramesBuilt, ShortSequences
  <2>4. UNCHANGED <<down, pipe, budget>>
    BY <1>4 DEF BrowserConnects
  <2> HIDE DEF b
  <2> QED
    BY <1>1, <2>1, <2>2, <2>3, <2>4, SendsKeeps
<1>5. CASE BrowserOffers(s)
  <2>1. [b EXCEPT !.offered = TRUE, !.seq = n] \in Browser
    BY <1>1, <1>2 DEF Browser
  <2>2. /\ BrowserSends(s, [b EXCEPT !.offered = TRUE, !.seq = n],
                         <<Signal("offer", b.seq)>>)
        /\ UNCHANGED <<down, pipe, budget>>
    BY <1>5 DEF BrowserOffers
  <2> HIDE DEF b, n
  <2> QED
    BY <1>1, <1>3, <2>1, <2>2, ShortSequences, SendsKeeps
<1>6. CASE BrowserCandidate(s)
  <2>1. [b EXCEPT !.seq = n] \in Browser
    BY <1>1, <1>2 DEF Browser
  <2>2. /\ BrowserSends(s, [b EXCEPT !.seq = n],
                         <<Signal("ice-candidate", b.seq)>>)
        /\ UNCHANGED <<down, pipe>>
    BY <1>6 DEF BrowserCandidate
  <2>3. budget' \in [Budget -> Nat]
    BY <1>1, <1>6, SpentBudget DEF BrowserCandidate, Budget
  <2> HIDE DEF b, n
  <2> QED
    BY <1>1, <1>3, <2>1, <2>2, <2>3, ShortSequences, SendsKeeps
<1>7. CASE BrowserReady(s)
  <2>1. [b EXCEPT !.report = "ready", !.seq = n] \in Browser
    BY <1>1, <1>2 DEF Browser
  <2>2. /\ BrowserSends(s, [b EXCEPT !.report = "ready", !.seq = n],
                         <<P2PState("ready", b.seq)>>)
        /\ UNCHANGED <<down, pipe, budget>>
    BY <1>7 DEF BrowserReady
  <2> HIDE DEF b, n
  <2> QED
    BY <1>1, <1>3, <2>1, <2>2, ShortSequences, SendsKeeps
<1>8. CASE BrowserFails(s)
  <2> DEFINE x == [b EXCEPT !.report = "failed", !.seq = n, !.selected = "none"]
  <2>1. x \in Browser
    BY <1>1, <1>2 DEF Browser, Transports
  <2>2. /\ BrowserSends(s, x, <<P2PState("failed", b.seq)>>)
        /\ UNCHANGED <<down, pipe, budget>>
    BY <1>8 DEF BrowserFails
  <2> HIDE DEF b, n, x
  <2> QED
    BY <1>1, <1>3, <2>1, <2>2, ShortSequences, SendsKeeps
<1>9. CASE BrowserControls(s)
  <2>1. /\ BrowserSends(s, b, <<Binary>>) \/ BrowserSends(s, b, <<>>)
        /\ down' = down /\ pipe' \in Nat
    BY <1>1, <1>9 DEF BrowserControls
  <2>2. budget' \in [Budget -> Nat]
    BY <1>1, <1>9, SpentBudget DEF BrowserControls, Budget
  <2> HIDE DEF b
  <2> QED
    BY <1>1, <2>1, <2>2, FramesBuilt, ShortSequences, SendsKeeps
<1> QED
  BY <1>4, <1>5, <1>6, <1>7, <1>8, <1>9

LEMMA BrowserReceivesKeeps ==
  ASSUME TypeOK, NEW s \in Sessions, BrowserReceives(s)
  PROVE  TypeOK' /\ UNCHANGED <<lease, holder>>
<1> DEFINE b == browser[s]
           m == Head(down[s]["controller"])
           a == b.answered \/ m.kind = "answer"
           t == IF m.transport = "p2p" /\ b.report = "failed"
                  THEN "none" ELSE m.transport
           c == [b EXCEPT !.started = TRUE]
           d == [b EXCEPT !.answered = a]
           e == [b EXCEPT !.selected = t]
           f == [b EXCEPT !.selected = IF m.phase = "ready" THEN "relay" ELSE "none"]
           g == [b EXCEPT !.state = "gone"]
<1>1. /\ b \in Browser /\ pipe \in Nat /\ budget \in [Budget -> Nat]
      /\ "controller" \in Roles /\ down \in Channels
  BY DEF TypeOK, Roles
<1>2. m \in Frames /\ down' \in Channels
  BY <1>1, FirstFrame DEF BrowserReceives
<1>3. UNCHANGED <<pipe, budget>>
  BY DEF BrowserReceives
<1>4. \/ m.type = "start" /\ BrowserSends(s, c, <<>>)
      \/ m.type = "signal" /\ BrowserSends(s, d, <<>>)
      \/ m.type = "ready" /\ BrowserSends(s, e, <<>>)
      \/ m.type = "transport" /\ BrowserSends(s, f, <<>>)
      \/ BrowserSends(s, g, <<>>) \/ BrowserSends(s, b, <<>>)
  BY DEF BrowserReceives
<1>5. a \in BOOLEAN
  BY <1>1 DEF Browser
<1>6. m.type = "ready" => t \in Transports
  BY <1>2, FrameFields DEF Transports
<1> HIDE DEF b, m, a, t
<1>7. /\ c \in Browser /\ d \in Browser /\ f \in Browser /\ g \in Browser
      /\ m.type = "ready" => e \in Browser
  BY <1>1, <1>5, <1>6 DEF Browser, Transports
<1> HIDE DEF c, d, e, f, g
<1>8. \E x \in Browser : BrowserSends(s, x, <<>>)
  BY <1>1, <1>4, <1>7
<1> QED
  BY <1>1, <1>2, <1>3, <1>8, ShortSequences, SendsKeeps

LEMMA BrowserLeavesKeeps ==
  ASSUME TypeOK, NEW s \in Sessions, BrowserLeaves(s)
  PROVE  TypeOK' /\ UNCHANGED <<lease, holder>>
<1> DEFINE x == [browser[s] EXCEPT !.state = "gone"]
<1>1. browser[s] \in Browser /\ "controller" \in Roles /\ down \in Channels
  BY DEF TypeOK, Roles
<1>2. x \in Browser
  BY <1>1 DEF Browser
<1>3. /\ BrowserSends(s, x, <<Eof>>) /\ UNCHANGED <<pipe, budget>>
      /\ down' = [down EXCEPT ![s]["controller"] = <<>>]
  BY DEF BrowserLeaves
<1> HIDE DEF x
<1>4. down' \in Channels
  BY <1>1, <1>3, ShortSequences, SetChannel
<1>5. <<Eof>> \in Seq(Frames) /\ pipe \in Nat /\ budget \in [Budget -> Nat]
  BY FramesBuilt, ShortSequences DEF TypeOK
<1> QED
  BY <1>2, <1>3, <1>4, <1>5, SendsKeeps

-----------------------------------------------------------------------------
(* The theorems.                                                           *)

\* Together: types, and the device's one lease.
IInv == TypeOK /\ OneLease

LEMMA InitIInv == Init => IInv
<1> SUFFICES ASSUME Init PROVE IInv
  OBVIOUS
<1> USE DEF Init, RelayInit, PeerInit
<1>1. up \in Channels /\ down \in Channels
  BY ShortSequences DEF NoMessages, Channels
<1>2. lease \in [Sessions -> Lease] /\ \A s \in Sessions : ~lease[s].executing
  <2>1. ~NoLease.executing
    BY DEF NoLease
  <2> QED
    BY <2>1, NoLeaseType
<1>3. peer \in Peer
  BY FreshType DEF Idle
<1>4. browser \in [Sessions -> Browser]
  BY DEF Browser, Transports
<1>5. budget \in [Budget -> Nat]
  BY RemoteAssumption DEF Budget
<1>6. OneLease
  BY <1>2, RelayAssumption DEF OneLease
<1> QED
  BY <1>1, <1>2, <1>3, <1>4, <1>5, <1>6 DEF IInv, TypeOK

LEMMA StepIInv == IInv /\ [Next]_vars => IInv'
<1> SUFFICES ASSUME IInv, [Next]_vars PROVE IInv'
  OBVIOUS
<1>1. ServerOK /\ PhoneOK /\ BrowsersOK /\ ChannelsOK /\ OneLease /\ TypeOK
  BY TypeParts DEF IInv
<1>2. CASE ServerStep
  <2>1. ServerOK' /\ ChannelsOK' /\ OneLease'
    BY <1>1, <1>2, ServerKeeps DEF ServerInv
  <2>2. PhoneOK' /\ BrowsersOK'
    BY <1>1, <1>2 DEF ServerStep, peerVars, PhoneOK, BrowsersOK
  <2> QED
    BY <2>1, <2>2 DEF IInv, TypeOK, ServerOK, PhoneOK, BrowsersOK, ChannelsOK
<1>3. CASE PeerStep
  <2>1. ServerOK' /\ ChannelsOK' /\ PhoneOK' /\ UNCHANGED <<lease, holder>>
    BY <1>1, <1>3, PhoneKeeps DEF PhoneInv
  <2>2. BrowsersOK'
    BY <1>1, <1>3 DEF PeerStep, BrowsersOK
  <2>3. OneLease'
    BY <1>1, <2>1 DEF OneLease
  <2> QED
    BY <2>1, <2>2, <2>3 DEF IInv, TypeOK, ServerOK, PhoneOK, BrowsersOK, ChannelsOK
<1>4. CASE \E s \in Sessions : BrowserStep(s)
  <2>1. TypeOK' /\ UNCHANGED <<lease, holder>>
    BY <1>1, <1>4, BrowserActs, BrowserReceivesKeeps, BrowserLeavesKeeps
    DEF BrowserStep
  <2> QED
    BY <1>1, <2>1 DEF IInv, OneLease
<1>5. CASE UNCHANGED vars
  BY <1>1, <1>5 DEF vars, relayVars, peerVars, IInv, TypeOK, OneLease
<1> QED
  BY <1>2, <1>3, <1>4, <1>5 DEF Next

\* Whatever is received, lost, delivered again or timed out, every variable of
\* the server, the phone and the browser keeps its type.
THEOREM TypeCorrect == Spec => []TypeOK
<1>1. IInv => TypeOK
  BY DEF IInv
<1> QED
  BY <1>1, InitIInv, StepIInv, PTL DEF Spec

\* The device is held by the lease being executed and by no other: every way
\* a lease can end frees the device, and no end of one frees another's.
THEOREM DeviceHasOneLease == Spec => []OneLease
<1>1. IInv => OneLease
  BY DEF IInv
<1> QED
  BY <1>1, InitIInv, StepIInv, PTL DEF Spec

-----------------------------------------------------------------------------
(* Positions in a channel.                                                 *)

Holds(q, m) == \E i \in DOMAIN q : q[i] = m

\* No hello is taken from q but the close of its socket comes after it.
Ended(q) ==
  \A i \in DOMAIN q : q[i].type = "hello" =>
    \E j \in DOMAIN q : j > i /\ q[j] = Eof

LEMMA TailAt ==
  ASSUME NEW q \in Seq(Frames), q # <<>>
  PROVE  /\ Len(q) \in Nat /\ Len(q) > 0 /\ DOMAIN q = 1..Len(q)
         /\ Head(q) = q[1] /\ Head(q) \in Frames /\ Tail(q) \in Seq(Frames)
         /\ DOMAIN Tail(q) = 1..(Len(q) - 1) /\ Len(Tail(q)) = Len(q) - 1
         /\ \A i \in DOMAIN Tail(q) : Tail(q)[i] = q[i + 1] /\ i + 1 \in DOMAIN q
         /\ \A i \in DOMAIN q : i = 1 \/ (i - 1 \in DOMAIN Tail(q) /\ Tail(q)[i - 1] = q[i])
<1>1. Len(q) \in Nat /\ Len(q) > 0 /\ DOMAIN q = 1..Len(q)
  OBVIOUS
<1>2. Head(q) = q[1] /\ Head(q) \in Frames /\ Tail(q) \in Seq(Frames)
  OBVIOUS
<1>3. Len(Tail(q)) = Len(q) - 1 /\ DOMAIN Tail(q) = 1..(Len(q) - 1)
  BY <1>1
<1>4. \A i \in DOMAIN Tail(q) : Tail(q)[i] = q[i + 1] /\ i + 1 \in DOMAIN q
  BY <1>1, <1>3
<1>5. \A i \in DOMAIN q : i = 1 \/ (i - 1 \in DOMAIN Tail(q) /\ Tail(q)[i - 1] = q[i])
  BY <1>1, <1>3
<1> QED
  BY <1>1, <1>2, <1>3, <1>4, <1>5

LEMMA ConcatAt ==
  ASSUME NEW q \in Seq(Frames), NEW ms \in Seq(Frames)
  PROVE  /\ q \o ms \in Seq(Frames)
         /\ Len(q) \in Nat /\ DOMAIN q = 1..Len(q) /\ DOMAIN ms = 1..Len(ms)
         /\ DOMAIN (q \o ms) = 1..(Len(q) + Len(ms))
         /\ \A i \in DOMAIN q : i \in DOMAIN (q \o ms) /\ (q \o ms)[i] = q[i]
         /\ \A i \in DOMAIN ms :
              Len(q) + i \in DOMAIN (q \o ms) /\ (q \o ms)[Len(q) + i] = ms[i]
         /\ \A i \in DOMAIN (q \o ms) :
              i \in DOMAIN q \/ (i - Len(q) \in DOMAIN ms /\ (q \o ms)[i] = ms[i - Len(q)])
  OBVIOUS

LEMMA AppendAt ==
  ASSUME NEW q \in Seq(Frames), NEW m \in Frames
  PROVE  /\ Append(q, m) \in Seq(Frames) /\ Append(q, m) # <<>>
         /\ Len(q) \in Nat /\ DOMAIN q = 1..Len(q)
         /\ DOMAIN Append(q, m) = 1..(Len(q) + 1)
         /\ \A i \in DOMAIN q : i \in DOMAIN Append(q, m) /\ Append(q, m)[i] = q[i]
         /\ Append(q, m)[Len(q) + 1] = m
         /\ \A i \in DOMAIN Append(q, m) : i \in DOMAIN q \/ i = Len(q) + 1
  OBVIOUS

LEMMA TailHolds ==
  ASSUME NEW q \in Seq(Frames), q # <<>>, NEW m
  PROVE  /\ Holds(Tail(q), m) => Holds(q, m)
         /\ Holds(q, m) => Head(q) = m \/ Holds(Tail(q), m)
<1>1. ASSUME Holds(Tail(q), m) PROVE Holds(q, m)
  <2>1. PICK i \in DOMAIN Tail(q) : Tail(q)[i] = m
    BY <1>1 DEF Holds
  <2>2. i + 1 \in DOMAIN q /\ q[i + 1] = m
    BY <2>1, TailAt
  <2> QED
    BY <2>2 DEF Holds
<1>2. ASSUME Holds(q, m) PROVE Head(q) = m \/ Holds(Tail(q), m)
  <2>1. PICK i \in DOMAIN q : q[i] = m
    BY <1>2 DEF Holds
  <2>2. CASE i = 1
    BY <2>1, <2>2, TailAt
  <2>3. CASE i # 1
    <3>1. i - 1 \in DOMAIN Tail(q) /\ Tail(q)[i - 1] = m
      BY <2>1, <2>3, TailAt
    <3> QED
      BY <3>1 DEF Holds
  <2> QED
    BY <2>2, <2>3
<1> QED
  BY <1>1, <1>2

LEMMA ConcatHolds ==
  ASSUME NEW q \in Seq(Frames), NEW ms \in Seq(Frames), NEW m
  PROVE  Holds(q \o ms, m) <=> Holds(q, m) \/ Holds(ms, m)
<1>1. ASSUME Holds(q \o ms, m) PROVE Holds(q, m) \/ Holds(ms, m)
  BY <1>1, ConcatAt DEF Holds
<1>2. ASSUME Holds(q, m) PROVE Holds(q \o ms, m)
  BY <1>2, ConcatAt DEF Holds
<1>3. ASSUME Holds(ms, m) PROVE Holds(q \o ms, m)
  <2>1. PICK i \in DOMAIN ms : ms[i] = m
    BY <1>3 DEF Holds
  <2>2. Len(q) + i \in DOMAIN (q \o ms) /\ (q \o ms)[Len(q) + i] = m
    BY <2>1, ConcatAt
  <2> QED
    BY <2>2 DEF Holds
<1> QED
  BY <1>1, <1>2, <1>3

LEMMA AppendHolds ==
  ASSUME NEW q \in Seq(Frames), NEW n \in Frames, NEW m
  PROVE  Holds(Append(q, n), m) <=> Holds(q, m) \/ n = m
<1>1. ASSUME Holds(Append(q, n), m) PROVE Holds(q, m) \/ n = m
  BY <1>1, AppendAt DEF Holds
<1>2. ASSUME Holds(q, m) PROVE Holds(Append(q, n), m)
  BY <1>2, AppendAt DEF Holds
<1>3. Len(q) + 1 \in DOMAIN Append(q, n) /\ Append(q, n)[Len(q) + 1] = n
  BY AppendAt
<1> QED
  BY <1>1, <1>2, <1>3 DEF Holds

LEMMA ShortHolds ==
  /\ \A m : ~Holds(<<>>, m)
  /\ \A n, m : Holds(<<n>>, m) <=> n = m
<1>1. \A m : ~Holds(<<>>, m)
  BY DEF Holds
<1>2. ASSUME NEW n, NEW m PROVE Holds(<<n>>, m) <=> n = m
  BY DEF Holds
<1> QED
  BY <1>1, <1>2

\* What a frame is, is told by its type.
LEMMA FrameTypes ==
  /\ \A v : Hello(v).type = "hello"
  /\ \A k, n : Signal(k, n).type = "signal"
  /\ \A x, n : P2PState(x, n).type = "state" /\ P2PState(x, n).state = x
  /\ TransportReady.type = "transport.state" /\ Binary.type = "binary"
  /\ Start.type = "start" /\ Closed.type = "closed" /\ Eof.type = "eof"
  /\ \A t : Ready(t).type = "ready" /\ Ready(t).transport = t
  /\ \A p : Transport(p).type = "transport" /\ Transport(p).phase = p
  BY DEF Hello, Signal, P2PState, TransportReady, Binary, Start, Closed, Eof,
         Ready, Transport

LEMMA FrameIs ==
  ASSUME NEW m \in Frames
  PROVE  /\ m.type = "ready" => m = Ready(m.transport)
         /\ m.type = "transport" => m = Transport(m.phase)
         /\ m.type = "start" => m = Start
         /\ m.type = "binary" => m = Binary
         /\ m.type = "eof" => m = Eof
         /\ m.type = "transport.state" => m = TransportReady
<1> USE DEF Ready, Transport, Start, Binary, Eof, TransportReady
<1>1. CASE m \in [type : {"hello"}, version : {1, 2}]
  BY <1>1
<1>2. CASE m \in [type : {"signal"}, kind : SignalKinds, seq : Nat]
  BY <1>2
<1>3. CASE m \in [type : {"state"}, state : {"ready", "failed"}, seq : Nat]
  BY <1>3
<1>4. CASE m \in [type : {"ready"}, transport : {"relay", "p2p"}]
  BY <1>4
<1>5. CASE m \in [type : {"transport"}, phase : {"recovering", "ready"}]
  BY <1>5
<1>6. CASE m \in [type : {"transport.state", "binary", "start", "closed", "eof"}]
  BY <1>6
<1> QED
  BY <1>1, <1>2, <1>3, <1>4, <1>5, <1>6 DEF Frames

LEMMA TailEnded ==
  ASSUME NEW q \in Seq(Frames), q # <<>>, Ended(q)
  PROVE  /\ Ended(Tail(q))
         /\ Head(q).type = "hello" => Holds(Tail(q), Eof)
<1> USE TailAt
<1>1. ASSUME NEW i \in DOMAIN Tail(q), Tail(q)[i].type = "hello"
      PROVE  \E j \in DOMAIN Tail(q) : j > i /\ Tail(q)[j] = Eof
  <2>1. PICK j \in DOMAIN q : j > i + 1 /\ q[j] = Eof
    BY <1>1 DEF Ended
  <2>2. j - 1 \in DOMAIN Tail(q) /\ Tail(q)[j - 1] = Eof /\ j - 1 > i
    BY <2>1
  <2> QED
    BY <2>2
<1>2. ASSUME Head(q).type = "hello" PROVE Holds(Tail(q), Eof)
  <2>1. PICK j \in DOMAIN q : j > 1 /\ q[j] = Eof
    BY <1>2 DEF Ended
  <2>2. j - 1 \in DOMAIN Tail(q) /\ Tail(q)[j - 1] = Eof
    BY <2>1
  <2> QED
    BY <2>2 DEF Holds
<1> QED
  BY <1>1, <1>2 DEF Ended

LEMMA ConcatEnded ==
  ASSUME NEW q \in Seq(Frames), NEW ms \in Seq(Frames), Ended(q),
         \A i \in DOMAIN ms : ms[i].type # "hello"
  PROVE  Ended(q \o ms)
<1>1. SUFFICES ASSUME NEW i \in DOMAIN (q \o ms), (q \o ms)[i].type = "hello"
               PROVE  \E j \in DOMAIN (q \o ms) : j > i /\ (q \o ms)[j] = Eof
  BY DEF Ended
<1>2. i \in DOMAIN q /\ q[i].type = "hello"
  BY <1>1, ConcatAt
<1>3. PICK j \in DOMAIN q : j > i /\ q[j] = Eof
  BY <1>2 DEF Ended
<1> QED
  BY <1>3, ConcatAt

LEMMA EofEnds ==
  ASSUME NEW q \in Seq(Frames)
  PROVE  Ended(Append(q, Eof)) /\ Holds(Append(q, Eof), Eof)
<1>1. Eof \in Frames
  BY FramesBuilt
<1>2. SUFFICES ASSUME NEW i \in DOMAIN Append(q, Eof),
                      Append(q, Eof)[i].type = "hello"
               PROVE  Len(q) + 1 > i
  BY <1>1, AppendAt, AppendHolds DEF Ended
<1>3. i # Len(q) + 1
  BY <1>1, <1>2, AppendAt, FrameTypes
<1> QED
  BY <1>1, <1>2, <1>3, AppendAt

-----------------------------------------------------------------------------
(* One channel of many.                                                    *)

LEMMA SetAt ==
  ASSUME NEW c \in Channels, NEW s \in Sessions, NEW r \in Roles, NEW q,
         NEW t \in Sessions, NEW w \in Roles
  PROVE  [c EXCEPT ![s][r] = q][t][w] = IF t = s /\ w = r THEN q ELSE c[t][w]
<1>1. c[s] \in [Roles -> Seq(Frames)] /\ c \in [Sessions -> [Roles -> Seq(Frames)]]
  BY DEF Channels
<1> QED
  BY <1>1

LEMMA ChannelTyped ==
  ASSUME NEW c \in Channels, NEW s \in Sessions, NEW r \in Roles
  PROVE  c[s][r] \in Seq(Frames)
  BY DEF Channels

LEMMA SentAt ==
  ASSUME down \in Channels, NEW s \in Sessions, NEW to, NEW m,
         NEW t \in Sessions, NEW w \in Roles
  PROVE  Sent(s, to, m)[t][w] =
           IF t = s /\ w \in to /\ ~(w = "device" /\ s \in halfOpen)
             THEN Append(down[t][w], m) ELSE down[t][w]
<1>1. down[s] \in [Roles -> Seq(Frames)] /\ down \in [Sessions -> [Roles -> Seq(Frames)]]
  BY DEF Channels
<1> QED
  BY <1>1 DEF Sent, Reached

-----------------------------------------------------------------------------
(* What a handler of the server makes of a lease and of its channels.      *)

OnlyLease(s) == \A t \in Sessions \ {s} : lease'[t] = lease[t]
SameChoice(s) ==
  /\ lease'[s].executing = lease[s].executing /\ lease'[s].state = lease[s].state
  /\ lease'[s].selected = lease[s].selected /\ lease'[s].timer = lease[s].timer
  /\ lease'[s].bound = lease[s].bound
Becomes(s, state, selected, timer) ==
  /\ lease'[s].executing = lease[s].executing /\ lease'[s].state = state
  /\ lease'[s].selected = selected /\ lease'[s].timer = timer
Ends(s) ==
  /\ OnlyLease(s) /\ lease[s].executing /\ ~lease'[s].executing
  /\ lease'[s].state = "ENDED" /\ lease'[s].selected = "none"
  /\ lease'[s].timer = "none" /\ lease'[s].bound = {} /\ lease'[s].ready = {}
  /\ down' = Sent(s, lease[s].bound, Closed)
SameLeases == UNCHANGED <<lease, down>>

LEMMA LeaseSet ==
  ASSUME ServerOK, NEW s \in Sessions, NEW x, lease' = [lease EXCEPT ![s] = x]
  PROVE  OnlyLease(s) /\ lease'[s] = x
  BY DEF ServerOK, OnlyLease

LEMMA FinishEffect ==
  ASSUME ServerOK, NEW s \in Sessions, NEW b \in BOOLEAN, FinishWith(s, b)
  PROVE  Ends(s) \/ (SameLeases /\ ~lease[s].executing)
<1>1. CASE lease[s].executing
  <2>1. lease' = [lease EXCEPT ![s] = Finished(b)]
        /\ down' = Sent(s, lease[s].bound, Closed)
    BY <1>1 DEF FinishWith
  <2>2. OnlyLease(s) /\ lease'[s] = Finished(b)
    BY <2>1, LeaseSet
  <2>3. /\ ~Finished(b).executing /\ Finished(b).state = "ENDED"
        /\ Finished(b).selected = "none" /\ Finished(b).timer = "none"
        /\ Finished(b).bound = {} /\ Finished(b).ready = {}
    BY DEF Finished, NoLease
  <2> QED
    BY <1>1, <2>1, <2>2, <2>3 DEF Ends
<1>2. CASE ~lease[s].executing
  BY <1>2 DEF FinishWith, SameLeases
<1> QED
  BY <1>1, <1>2

LEMMA FrameEffect ==
  ASSUME ServerInv, NEW s \in Sessions, NEW r \in Roles, NEW type, Frame(s, r, type)
  PROVE  /\ lease[s].executing /\ r \in lease[s].bound /\ Reached(s, r)
         /\ up[s][r] # <<>> /\ Message(s, r) = Head(up[s][r])
         /\ Message(s, r).type = type /\ Message(s, r) \in Frames
         /\ up' = [up EXCEPT ![s][r] = Tail(@)]
         /\ UNCHANGED <<halfOpen, invites, events>>
         /\ lease[s] \in Lease /\ ServerOK
<1>1. Incoming(s, r)
  BY DEF Frame
<1>2. lease[s] \in Lease /\ Message(s, r) \in Frames
  BY <1>1, FrameTaken
<1> QED
  BY <1>1, <1>2 DEF Frame, Incoming, Taken, Message, ServerInv

LEMMA SignalEffect ==
  ASSUME ServerInv, NEW s \in Sessions, NEW r \in Roles, ReceiveSignal(s, r)
  PROVE  \/ Ends(s)
         \/ /\ OnlyLease(s) /\ SameChoice(s) /\ lease'[s].ready = lease[s].ready
            /\ lease[s].state = "SELECTING_TRANSPORT"
            /\ down' = Sent(s, {Other(r)}, Message(s, r))
<1>1. /\ lease[s] \in Lease /\ ServerOK /\ lease[s].executing
  BY FrameEffect DEF ReceiveSignal
<1>2. CASE Refuse(s)
  BY <1>1, <1>2, FinishEffect DEF Refuse
<1>3. CASE ~Refuse(s)
  <2> DEFINE m == Message(s, r)
             o == lease[s].offer \/ m.kind = "offer"
             a == lease[s].answer \/ m.kind = "answer"
             x == [lease[s] EXCEPT !.last[r] = m.seq, !.offer = o, !.answer = a]
  <2>1. /\ lease' = [lease EXCEPT ![s] = x]
        /\ down' = Sent(s, {Other(r)}, m)
        /\ lease[s].state = "SELECTING_TRANSPORT"
    BY <1>3 DEF ReceiveSignal, SignalAllowed
  <2>2. /\ x.executing = lease[s].executing /\ x.state = lease[s].state
        /\ x.selected = lease[s].selected /\ x.timer = lease[s].timer
        /\ x.bound = lease[s].bound /\ x.ready = lease[s].ready
    BY <1>1 DEF Lease
  <2> HIDE DEF x
  <2>3. OnlyLease(s) /\ lease'[s] = x
    BY <1>1, <2>1, LeaseSet
  <2> QED
    BY <2>1, <2>2, <2>3 DEF SameChoice
<1> QED
  BY <1>2, <1>3

LEMMA ChoiceFields ==
  ASSUME NEW l \in Lease, NEW b
  PROVE  /\ OnRelay(l, b).executing = l.executing /\ OnRelay(l, b).bound = l.bound
         /\ OnRelay(l, b).state = "ACTIVE" /\ OnRelay(l, b).selected = "relay"
         /\ OnRelay(l, b).timer = "none" /\ OnRelay(l, b).ready = {}
         /\ Negotiating(l).executing = l.executing /\ Negotiating(l).bound = l.bound
         /\ Negotiating(l).state = "SELECTING_TRANSPORT"
         /\ Negotiating(l).selected = "none" /\ Negotiating(l).timer = "negotiation"
         /\ Negotiating(l).ready = {}
         /\ Recovering(l).executing = l.executing /\ Recovering(l).bound = l.bound
         /\ Recovering(l).state = "RECOVERING_TRANSPORT"
         /\ Recovering(l).selected = "none" /\ Recovering(l).timer = "recovery"
         /\ Recovering(l).ready = l.ready
<1>1. /\ OnRelay(l, b).executing = l.executing /\ OnRelay(l, b).bound = l.bound
      /\ OnRelay(l, b).state = "ACTIVE" /\ OnRelay(l, b).selected = "relay"
      /\ OnRelay(l, b).timer = "none" /\ OnRelay(l, b).ready = {}
  BY DEF Lease, OnRelay
<1>2. /\ Negotiating(l).executing = l.executing /\ Negotiating(l).bound = l.bound
      /\ Negotiating(l).state = "SELECTING_TRANSPORT"
      /\ Negotiating(l).selected = "none" /\ Negotiating(l).timer = "negotiation"
      /\ Negotiating(l).ready = {}
  BY DEF Lease, Negotiating
<1>3. /\ Recovering(l).executing = l.executing /\ Recovering(l).bound = l.bound
      /\ Recovering(l).state = "RECOVERING_TRANSPORT"
      /\ Recovering(l).selected = "none" /\ Recovering(l).timer = "recovery"
      /\ Recovering(l).ready = l.ready
  BY DEF Lease, Recovering
<1> QED
  BY <1>1, <1>2, <1>3

LEMMA FailedEffect ==
  ASSUME ServerInv, NEW s \in Sessions, NEW r \in Roles, ReceiveFailed(s, r)
  PROVE  \/ Ends(s)
         \/ /\ OnlyLease(s) /\ lease[s].state = "SELECTING_TRANSPORT"
            /\ Becomes(s, "ACTIVE", "relay", "none")
            /\ lease'[s].bound = lease[s].bound /\ lease'[s].ready = {}
            /\ down' = Sent(s, Roles, Ready("relay"))
         \/ /\ OnlyLease(s) /\ lease[s].state = "ACTIVE" /\ lease[s].selected = "p2p"
            /\ Becomes(s, "RECOVERING_TRANSPORT", "none", "recovery")
            /\ lease'[s].bound = lease[s].bound /\ lease'[s].ready = lease[s].ready
            /\ down' = Sent(s, Roles, Transport("recovering"))
         \/ /\ OnlyLease(s) /\ SameChoice(s) /\ lease'[s].ready = lease[s].ready
            /\ \/ lease[s].state = "RECOVERING_TRANSPORT"
               \/ lease[s].state = "ACTIVE" /\ lease[s].selected = "relay"
            /\ down' = down
<1>1. /\ lease[s] \in Lease /\ ServerOK /\ lease[s].executing
  BY FrameEffect DEF ReceiveFailed
<1> DEFINE m == Message(s, r)
           x == [lease[s] EXCEPT !.last[r] = m.seq]
<1>2. /\ x.executing = lease[s].executing /\ x.state = lease[s].state
      /\ x.selected = lease[s].selected /\ x.timer = lease[s].timer
      /\ x.bound = lease[s].bound /\ x.ready = lease[s].ready
  BY <1>1 DEF Lease
<1>3. x \in Lease
  <2>1. m \in Frames /\ m.type = "state"
    BY FrameEffect DEF ReceiveFailed
  <2>2. m.seq \in Nat
    BY <2>1, FrameFields
  <2> HIDE DEF m
  <2>3. [lease[s].last EXCEPT ![r] = m.seq] \in [Roles -> Int]
    BY <1>1, <2>2 DEF Lease
  <2> QED
    BY <1>1, <2>3 DEF Lease
<1>4. \/ Refuse(s)
      \/ /\ x.state = "SELECTING_TRANSPORT"
         /\ lease' = [lease EXCEPT ![s] = OnRelay(x, TRUE)]
         /\ down' = Sent(s, Roles, Ready("relay"))
      \/ /\ x.state = "ACTIVE" /\ x.selected = "p2p"
         /\ lease' = [lease EXCEPT ![s] = Recovering(x)]
         /\ down' = Sent(s, Roles, Transport("recovering"))
      \/ /\ LateReport(x) /\ lease' = [lease EXCEPT ![s] = x] /\ down' = down
  BY DEF ReceiveFailed
<1> HIDE DEF x
<1>5. CASE Refuse(s)
  BY <1>1, <1>5, FinishEffect DEF Refuse
<1>6. CASE /\ x.state = "SELECTING_TRANSPORT"
           /\ lease' = [lease EXCEPT ![s] = OnRelay(x, TRUE)]
           /\ down' = Sent(s, Roles, Ready("relay"))
  <2>1. OnlyLease(s) /\ lease'[s] = OnRelay(x, TRUE)
    BY <1>1, <1>6, LeaseSet
  <2>2. /\ lease'[s].executing = x.executing /\ lease'[s].bound = x.bound
        /\ lease'[s].state = "ACTIVE" /\ lease'[s].selected = "relay"
        /\ lease'[s].timer = "none" /\ lease'[s].ready = {}
    BY <1>3, <2>1 DEF OnRelay, Lease
  <2>3. Becomes(s, "ACTIVE", "relay", "none")
    BY <1>2, <2>2 DEF Becomes
  <2> QED
    BY <1>2, <1>6, <2>1, <2>2, <2>3
<1>7. CASE /\ x.state = "ACTIVE" /\ x.selected = "p2p"
           /\ lease' = [lease EXCEPT ![s] = Recovering(x)]
           /\ down' = Sent(s, Roles, Transport("recovering"))
  <2>1. OnlyLease(s) /\ lease'[s] = Recovering(x)
    BY <1>1, <1>7, LeaseSet
  <2> QED
    BY <1>2, <1>3, <1>7, <2>1, ChoiceFields, SMTT(30) DEF Becomes
<1>8. CASE LateReport(x) /\ lease' = [lease EXCEPT ![s] = x] /\ down' = down
  <2>1. OnlyLease(s) /\ lease'[s] = x
    BY <1>1, <1>8, LeaseSet
  <2> QED
    BY <1>2, <1>8, <2>1, ZenonT(30) DEF SameChoice, LateReport
<1> QED
  BY <1>4, <1>5, <1>6, <1>7, <1>8

LEMMA ReadyEffect ==
  ASSUME ServerInv, NEW s \in Sessions, NEW r \in Roles, ReceiveReady(s, r)
  PROVE  \/ Ends(s)
         \/ /\ OnlyLease(s) /\ SameChoice(s) /\ lease'[s].ready = lease[s].ready
            /\ lease[s].state \in {"RECOVERING_TRANSPORT", "ACTIVE"}
            /\ down' = down
         \/ /\ OnlyLease(s) /\ SameChoice(s)
            /\ lease'[s].ready = lease[s].ready \cup {r}
            /\ lease[s].state = "SELECTING_TRANSPORT"
            /\ down' = down
         \/ /\ OnlyLease(s) /\ lease[s].state = "SELECTING_TRANSPORT"
            /\ Becomes(s, "ACTIVE", "p2p", "none")
            /\ lease'[s].bound = lease[s].bound
            /\ lease'[s].ready = Roles /\ lease[s].ready \cup {r} = Roles
            /\ down' = Sent(s, Roles, Ready("p2p"))
<1>1. /\ lease[s] \in Lease /\ ServerOK /\ lease[s].executing
  BY FrameEffect DEF ReceiveReady
<1> DEFINE m == Message(s, r)
           x == [lease[s] EXCEPT !.last[r] = m.seq]
           y == [x EXCEPT !.ready = @ \cup {r}]
           z == [y EXCEPT !.p2p = "ACTIVE", !.selected = "p2p",
                          !.state = "ACTIVE", !.timer = "none"]
<1>2. /\ x.executing = lease[s].executing /\ x.state = lease[s].state
      /\ x.selected = lease[s].selected /\ x.timer = lease[s].timer
      /\ x.bound = lease[s].bound /\ x.ready = lease[s].ready
  BY <1>1 DEF Lease
<1>3. /\ y.executing = x.executing /\ y.state = x.state
      /\ y.selected = x.selected /\ y.timer = x.timer
      /\ y.bound = x.bound /\ y.ready = x.ready \cup {r}
      /\ z.executing = x.executing /\ z.state = "ACTIVE" /\ z.selected = "p2p"
      /\ z.timer = "none" /\ z.bound = x.bound /\ z.ready = y.ready
  BY <1>1 DEF Lease
<1>4. \/ Refuse(s)
      \/ /\ LateReport(x) \/ (x.state = "ACTIVE" /\ x.selected = "p2p")
         /\ lease' = [lease EXCEPT ![s] = x] /\ down' = down
      \/ /\ x.state = "SELECTING_TRANSPORT" /\ y.ready # Roles
         /\ lease' = [lease EXCEPT ![s] = y] /\ down' = down
      \/ /\ x.state = "SELECTING_TRANSPORT" /\ y.ready = Roles
         /\ lease' = [lease EXCEPT ![s] = z] /\ down' = Sent(s, Roles, Ready("p2p"))
  BY DEF ReceiveReady
<1> HIDE DEF x, y, z
<1>5. CASE Refuse(s)
  BY <1>1, <1>5, FinishEffect DEF Refuse
<1>6. CASE /\ LateReport(x) \/ (x.state = "ACTIVE" /\ x.selected = "p2p")
           /\ lease' = [lease EXCEPT ![s] = x] /\ down' = down
  <2>1. OnlyLease(s) /\ lease'[s] = x
    BY <1>1, <1>6, LeaseSet
  <2>2. x.state \in {"RECOVERING_TRANSPORT", "ACTIVE"}
    BY <1>6 DEF LateReport
  <2>3. SameChoice(s)
    BY <1>2, <2>1 DEF SameChoice
  <2> QED
    BY <1>2, <1>6, <2>1, <2>2, <2>3
<1>7. CASE /\ x.state = "SELECTING_TRANSPORT" /\ y.ready # Roles
           /\ lease' = [lease EXCEPT ![s] = y] /\ down' = down
  <2>1. OnlyLease(s) /\ lease'[s] = y
    BY <1>1, <1>7, LeaseSet
  <2>2. SameChoice(s)
    BY <1>2, <1>3, <2>1 DEF SameChoice
  <2> QED
    BY <1>2, <1>3, <1>7, <2>1, <2>2
<1>8. CASE /\ x.state = "SELECTING_TRANSPORT" /\ y.ready = Roles
           /\ lease' = [lease EXCEPT ![s] = z] /\ down' = Sent(s, Roles, Ready("p2p"))
  <2>1. OnlyLease(s) /\ lease'[s] = z
    BY <1>1, <1>8, LeaseSet
  <2>2. Becomes(s, "ACTIVE", "p2p", "none")
    BY <1>2, <1>3, <2>1 DEF Becomes
  <2> QED
    BY <1>2, <1>3, <1>8, <2>1, <2>2
<1> QED
  BY <1>4, <1>5, <1>6, <1>7, <1>8

LEMMA TransportEffect ==
  ASSUME ServerInv, NEW s \in Sessions, NEW r \in Roles, ReceiveTransportState(s, r)
  PROVE  \/ Ends(s)
         \/ /\ OnlyLease(s) /\ r = "device" /\ lease[s].state = "RECOVERING_TRANSPORT"
            /\ Becomes(s, "ACTIVE", "relay", "none")
            /\ lease'[s].bound = lease[s].bound /\ lease'[s].ready = lease[s].ready
            /\ down' = Sent(s, Roles, Transport("ready"))
<1>1. /\ lease[s] \in Lease /\ ServerOK /\ lease[s].executing
  BY FrameEffect DEF ReceiveTransportState
<1> DEFINE x == [lease[s] EXCEPT !.timer = "none", !.selected = "relay",
                                 !.state = "ACTIVE"]
<1>2. /\ x.executing = lease[s].executing /\ x.state = "ACTIVE"
      /\ x.selected = "relay" /\ x.timer = "none"
      /\ x.bound = lease[s].bound /\ x.ready = lease[s].ready
  BY <1>1 DEF Lease
<1>3. CASE Refuse(s)
  BY <1>1, <1>3, FinishEffect DEF Refuse
<1>4. CASE ~Refuse(s)
  <2>1. /\ r = "device" /\ lease[s].state = "RECOVERING_TRANSPORT"
        /\ lease' = [lease EXCEPT ![s] = x]
        /\ down' = Sent(s, Roles, Transport("ready"))
    BY <1>4 DEF ReceiveTransportState
  <2> HIDE DEF x
  <2>2. OnlyLease(s) /\ lease'[s] = x
    BY <1>1, <2>1, LeaseSet
  <2>3. Becomes(s, "ACTIVE", "relay", "none")
    BY <1>2, <2>2 DEF Becomes
  <2> QED
    BY <1>2, <2>1, <2>2, <2>3
<1> QED
  BY <1>3, <1>4

LEMMA BinaryEffect ==
  ASSUME ServerInv, NEW s \in Sessions, NEW r \in Roles, NEW slow \in BOOLEAN,
         ReceiveBinary(s, r, slow)
  PROVE  \/ Ends(s)
         \/ /\ OnlyLease(s) /\ SameChoice(s) /\ lease'[s].ready = lease[s].ready
            /\ OnRelayNow(s) /\ down' = Sent(s, {Other(r)}, Binary)
<1>1. /\ lease[s] \in Lease /\ ServerOK /\ lease[s].executing
  BY FrameEffect DEF ReceiveBinary
<1> DEFINE x == [lease[s] EXCEPT !.bytes = @ + 1]
<1>2. /\ x.executing = lease[s].executing /\ x.state = lease[s].state
      /\ x.selected = lease[s].selected /\ x.timer = lease[s].timer
      /\ x.bound = lease[s].bound /\ x.ready = lease[s].ready
  BY <1>1 DEF Lease
<1>3. CASE Refuse(s) \/ Finish(s)
  BY <1>1, <1>3, FinishEffect DEF Refuse, Finish
<1>4. CASE ~(Refuse(s) \/ Finish(s))
  <2>1. /\ OnRelayNow(s) /\ lease' = [lease EXCEPT ![s] = x]
        /\ down' = Sent(s, {Other(r)}, Binary)
    <3>1. lease \in [Sessions -> Lease]
      BY <1>1 DEF ServerOK
    <3> QED
      BY <1>4, <3>1 DEF ReceiveBinary, OnRelayNow
  <2> HIDE DEF x
  <2>2. OnlyLease(s) /\ lease'[s] = x
    BY <1>1, <2>1, LeaseSet
  <2>3. SameChoice(s)
    BY <1>2, <2>2 DEF SameChoice
  <2> QED
    BY <1>2, <2>1, <2>2, <2>3
<1> QED
  BY <1>3, <1>4

LEMMA EofEffect ==
  ASSUME ServerInv, NEW s \in Sessions, NEW r \in Roles, PeerDisconnected(s, r)
  PROVE  Ends(s)
<1>1. /\ ServerOK /\ lease[s].executing
  BY FrameEffect DEF PeerDisconnected
<1> QED
  BY <1>1, FinishEffect DEF PeerDisconnected, Finish

LEMMA BindEffect ==
  ASSUME ServerInv, NEW s \in Sessions, NEW r \in Roles, BindHello(s, r)
  PROVE  /\ lease[s].executing /\ r \notin lease[s].bound /\ OnlyLease(s)
         /\ Incoming(s, r) /\ Message(s, r).type = "hello" /\ up' = Taken(s, r)
         /\ UNCHANGED <<halfOpen, invites>>
         /\ lease'[s].bound = lease[s].bound \cup {r}
         /\ \/ /\ lease'[s].bound # Roles
               /\ \E w \in {"WAITING_DEVICE", "WAITING_CONTROLLER"} :
                    Becomes(s, w, "none", lease[s].timer)
               /\ lease'[s].ready = lease[s].ready /\ down' = down
            \/ /\ lease'[s].bound = Roles
               /\ Becomes(s, "SELECTING_TRANSPORT", "none", "negotiation")
               /\ lease'[s].ready = {} /\ down' = Sent(s, Roles, Start)
            \/ /\ lease'[s].bound = Roles
               /\ Becomes(s, "ACTIVE", "relay", "none")
               /\ lease'[s].ready = {} /\ down' = Sent(s, Roles, Ready("relay"))
<1> DEFINE v == Message(s, r).version
           l == lease[s]
           x == [l EXCEPT !.used = @ \cup {r}, !.bound = @ \cup {r},
                          !.version[r] = v]
           w == [x EXCEPT !.selected = "none",
                    !.state = IF r = "controller" THEN "WAITING_DEVICE"
                                                  ELSE "WAITING_CONTROLLER"]
<1>1. l \in Lease /\ v \in {1, 2} /\ ServerOK
  BY FrameTaken, FrameFields DEF BindHello, ServerInv
<1>2. \/ x.bound # Roles /\ lease' = [lease EXCEPT ![s] = w] /\ down' = down
      \/ /\ x.bound = Roles /\ lease' = [lease EXCEPT ![s] = Negotiating(x)]
         /\ down' = Sent(s, Roles, Start)
      \/ /\ x.bound = Roles /\ lease' = [lease EXCEPT ![s] = OnRelay(x, x.p2pAllowed)]
         /\ down' = Sent(s, Roles, Ready("relay"))
  BY DEF BindHello
<1>3. /\ l.executing /\ r \notin l.bound
      /\ Incoming(s, r) /\ Message(s, r).type = "hello" /\ up' = Taken(s, r)
      /\ UNCHANGED <<halfOpen, invites>>
  BY DEF BindHello
<1> HIDE DEF l, v
<1>4. /\ x \in Lease /\ x.executing = l.executing /\ x.bound = l.bound \cup {r}
      /\ x.ready = l.ready /\ x.timer = l.timer
  <2>1. [l.version EXCEPT ![r] = v] \in [Roles -> {1, 2}]
    BY <1>1 DEF Lease
  <2> QED
    BY <1>1, <2>1 DEF Lease
<1> HIDE DEF x
<1>5. CASE x.bound # Roles /\ lease' = [lease EXCEPT ![s] = w] /\ down' = down
  <2>2. /\ w.executing = x.executing /\ w.bound = x.bound /\ w.ready = x.ready
        /\ w.timer = x.timer /\ w.selected = "none"
        /\ w.state \in {"WAITING_DEVICE", "WAITING_CONTROLLER"}
    BY <1>4 DEF Lease
  <2> HIDE DEF w
  <2>1. OnlyLease(s) /\ lease'[s] = w
    BY <1>1, <1>5, LeaseSet
  <2>3. \E k \in {"WAITING_DEVICE", "WAITING_CONTROLLER"} :
          Becomes(s, k, "none", lease[s].timer)
    BY <1>4, <2>1, <2>2 DEF Becomes, l
  <2> QED
    BY <1>3, <1>4, <1>5, <2>1, <2>2, <2>3 DEF l
<1>6. CASE /\ x.bound = Roles /\ lease' = [lease EXCEPT ![s] = Negotiating(x)]
           /\ down' = Sent(s, Roles, Start)
  <2>1. OnlyLease(s) /\ lease'[s] = Negotiating(x)
    BY <1>1, <1>6, LeaseSet
  <2>2. /\ lease'[s].executing = x.executing /\ lease'[s].bound = x.bound
        /\ lease'[s].state = "SELECTING_TRANSPORT" /\ lease'[s].selected = "none"
        /\ lease'[s].timer = "negotiation" /\ lease'[s].ready = {}
    BY <1>4, <2>1, ChoiceFields
  <2>3. Becomes(s, "SELECTING_TRANSPORT", "none", "negotiation")
    BY <1>4, <2>2 DEF Becomes, l
  <2> QED
    BY <1>3, <1>4, <1>6, <2>1, <2>2, <2>3 DEF l
<1>7. CASE /\ x.bound = Roles /\ lease' = [lease EXCEPT ![s] = OnRelay(x, x.p2pAllowed)]
           /\ down' = Sent(s, Roles, Ready("relay"))
  <2>1. OnlyLease(s) /\ lease'[s] = OnRelay(x, x.p2pAllowed)
    BY <1>1, <1>7, LeaseSet
  <2>2. /\ lease'[s].executing = x.executing /\ lease'[s].bound = x.bound
        /\ lease'[s].state = "ACTIVE" /\ lease'[s].selected = "relay"
        /\ lease'[s].timer = "none" /\ lease'[s].ready = {}
    BY <1>4, <2>1, ChoiceFields
  <2>3. Becomes(s, "ACTIVE", "relay", "none")
    BY <1>4, <2>2 DEF Becomes, l
  <2> QED
    BY <1>3, <1>4, <1>7, <2>1, <2>2, <2>3 DEF l
<1> QED
  BY <1>2, <1>5, <1>6, <1>7

LEMMA TimeoutEffect ==
  ASSUME ServerInv, NEW s \in Sessions, NegotiationTimeout(s)
  PROVE  /\ OnlyLease(s) /\ lease[s].timer = "negotiation"
         /\ Becomes(s, "ACTIVE", "relay", "none")
         /\ lease'[s].bound = lease[s].bound /\ lease'[s].ready = {}
         /\ down' = Sent(s, lease[s].bound, Ready("relay"))
         /\ UNCHANGED <<up, halfOpen, invites>>
<1>1. lease[s] \in Lease /\ ServerOK
  BY DEF ServerInv, ServerOK
<1>2. lease' = [lease EXCEPT ![s] = OnRelay(lease[s], TRUE)]
  BY DEF NegotiationTimeout
<1>3. OnlyLease(s) /\ lease'[s] = OnRelay(lease[s], TRUE)
  BY <1>1, <1>2, LeaseSet
<1>4. /\ lease'[s].executing = lease[s].executing /\ lease'[s].bound = lease[s].bound
      /\ lease'[s].state = "ACTIVE" /\ lease'[s].selected = "relay"
      /\ lease'[s].timer = "none" /\ lease'[s].ready = {}
  BY <1>1, <1>3 DEF OnRelay, Lease
<1> QED
  BY <1>3, <1>4 DEF NegotiationTimeout, Becomes

-----------------------------------------------------------------------------
(* What a handler of the phone makes of the session: p becomes q.          *)

Kept(p, q) ==
  /\ q.session = p.session /\ q.version = p.version
  /\ q.closed = p.closed /\ q.code = p.code
SameRole(p, q) ==
  /\ q.attempt = p.attempt /\ q.paired = p.paired /\ q.selected = p.selected
  /\ q.awaiting = p.awaiting /\ q.recovering = p.recovering
SameLink(p, q) == q.bridged = p.bridged /\ q.local = p.local
SameReports(p, q) ==
  q.readyReported = p.readyReported /\ q.failureReported = p.failureReported
SameSidecar(p, q) ==
  (p.ready => q.ready) /\ (q.sidecar = "none" <=> p.sidecar = "none")
Connected(p, q) ==
  /\ q.bridged = p.bridged
  /\ q.local = IF p.local = "none" THEN "connecting" ELSE p.local

Stays(p, q) ==
  /\ Kept(p, q) /\ SameRole(p, q) /\ SameLink(p, q) /\ SameReports(p, q)
  /\ SameSidecar(p, q) /\ q.controls = p.controls
Fails(p, q) ==
  /\ p.attempt /\ ~p.failureReported
  /\ Kept(p, q) /\ SameRole(p, q) /\ SameLink(p, q)
  /\ q.readyReported = p.readyReported /\ q.failureReported
  /\ q.sidecar = "none"
  /\ q.controls["p2p"] = 0 /\ q.controls["relay"] = p.controls["relay"]
Drops(p, q) ==
  /\ p.selected = "p2p" /\ ~p.recovering
  /\ Kept(p, q) /\ q.attempt = p.attempt /\ q.readyReported = p.readyReported
  /\ q.awaiting = p.awaiting
  /\ q.recovering /\ ~q.paired /\ q.selected = "none" /\ q.failureReported
  /\ q.sidecar = "none" /\ ~q.bridged /\ q.controls = NoControls
Starts(p, q) ==
  /\ ~p.attempt /\ p.sidecar = "none" /\ ~p.paired
  /\ Kept(p, q) /\ q.attempt /\ q.paired = p.paired /\ q.selected = p.selected
  /\ q.awaiting = p.awaiting /\ q.recovering = p.recovering /\ SameLink(p, q)
  /\ ~q.readyReported
Selects(p, q, t) ==
  /\ ~p.paired /\ ~p.awaiting /\ t \in Carriers
  /\ t = "p2p" => p.ready /\ p.sidecar # "none"
  /\ Kept(p, q) /\ q.attempt = p.attempt /\ q.awaiting = p.awaiting
  /\ q.recovering = p.recovering /\ q.paired /\ q.selected = t
  /\ Connected(p, q) /\ SameReports(p, q)
  /\ q.sidecar = (IF t = "relay" THEN "none" ELSE p.sidecar)
  /\ q.ready = p.ready /\ q.controls = p.controls
Awaits(p, q) ==
  /\ ~p.paired /\ ~p.awaiting /\ p.readyReported /\ p.failureReported
  /\ Kept(p, q) /\ q.attempt = p.attempt /\ q.paired = p.paired
  /\ q.selected = p.selected /\ q.recovering = p.recovering /\ q.awaiting
  /\ SameLink(p, q) /\ SameReports(p, q) /\ SameSidecar(p, q)
  /\ q.controls = p.controls
Recovers(p, q) ==
  /\ p.awaiting \/ p.recovering
  /\ Kept(p, q) /\ q.attempt = p.attempt /\ q.paired = p.paired
  /\ q.selected = p.selected /\ q.recovering /\ ~q.awaiting
  /\ Connected(p, q) /\ SameReports(p, q) /\ SameSidecar(p, q)
  /\ q.controls = p.controls
Commits(p, q) ==
  /\ p.recovering /\ p.bridged /\ p.local # "none"
  /\ Kept(p, q) /\ q.attempt = p.attempt /\ q.awaiting = p.awaiting
  /\ ~q.recovering /\ q.paired /\ q.selected = "relay"
  /\ SameLink(p, q) /\ SameReports(p, q) /\ SameSidecar(p, q)
  /\ q.controls = p.controls
Opens(p, q) ==
  /\ p.local = "connecting"
  /\ Kept(p, q) /\ SameRole(p, q) /\ SameReports(p, q) /\ SameSidecar(p, q)
  /\ q.bridged /\ q.local = "open" /\ q.controls = NoControls
Announces(p, q) ==
  /\ ~p.paired /\ ~p.readyReported /\ ~p.failureReported /\ p.sidecar # "none"
  /\ Kept(p, q) /\ SameRole(p, q) /\ SameLink(p, q)
  /\ q.failureReported = p.failureReported /\ q.readyReported /\ q.ready
  /\ q.sidecar = p.sidecar /\ q.controls = p.controls
Buffers(p, q, t) ==
  /\ p.selected \in {"none", t}
  /\ Kept(p, q) /\ SameRole(p, q) /\ SameLink(p, q) /\ SameReports(p, q)
  /\ SameSidecar(p, q)
  /\ \A u \in Carriers : q.controls[u] = IF u = t THEN p.controls[u] + 1
                                                   ELSE p.controls[u]

Sends(ms) == up' = [up EXCEPT ![peer.session]["device"] = @ \o ms]
Silent == up' = up

\* The session ends, for a fault or for another reason.
ClosesWith(codes) ==
  /\ peer'.closed /\ peer'.session = peer.session /\ peer'.version = peer.version
  /\ peer'.code \in codes /\ peer'.controls = NoControls /\ up' = up
Benign == Codes \ Faults

LEMMA SilentSend ==
  ASSUME ChannelsOK, peer.session \in Sessions, Sends(<<>>)
  PROVE  Silent
<1>1. "device" \in Roles /\ up \in Channels
  BY DEF Roles, ChannelsOK
<1>2. up[peer.session]["device"] \in Seq(Frames)
      /\ up[peer.session] \in [Roles -> Seq(Frames)]
      /\ up \in [Sessions -> [Roles -> Seq(Frames)]]
  BY <1>1 DEF Channels
<1>3. up[peer.session]["device"] \o <<>> = up[peer.session]["device"]
  BY <1>2
<1>4. [up[peer.session] EXCEPT !["device"] = up[peer.session]["device"]]
        = up[peer.session]
  BY <1>2
<1> QED
  BY <1>2, <1>3, <1>4 DEF Sends, Silent

LEMMA BecomeSends ==
  ASSUME NEW p, NEW ms, Become(p, ms)
  PROVE  peer' = p /\ Sends(ms)
  BY DEF Become, Sends

LEMMA CloseEffect ==
  ASSUME PhoneOK, NEW codes \in SUBSET Codes, NEW code \in codes, CloseActive(code)
  PROVE  ClosesWith(codes)
  BY NoControlsType DEF CloseActive, ClosesWith, PhoneOK, Peer

\* The two reports of a failure, if they report anything.
LEMMA InitialFailureEffect ==
  ASSUME ChannelsOK, peer.session \in Sessions, NEW p \in Peer,
         ReportInitialFailure(p)
  PROVE  \/ (p.failureReported \/ ~p.attempt) /\ peer' = p /\ Silent
         \/ Fails(p, peer') /\ \E n \in Nat : Sends(<<P2PState("failed", n)>>)
<1> DEFINE c == [t \in Carriers |-> IF t = "relay" THEN p.controls[t] ELSE 0]
           n == p.outgoing + 1
           q == [p EXCEPT !.grace = FALSE, !.failureReported = TRUE,
                          !.ready = FALSE, !.candidates = 0,
                          !.sidecar = "none", !.controls = c, !.outgoing = n]
<1>1. peer' = InitialFailure(p) /\ Sends(Failure(p, InitialFailure(p)))
  BY BecomeSends DEF ReportInitialFailure
<1>2. CASE p.failureReported \/ ~p.attempt
  <2>1. InitialFailure(p) = p /\ Failure(p, InitialFailure(p)) = <<>>
    BY <1>2 DEF InitialFailure, Failure
  <2> QED
    BY <1>1, <1>2, <2>1, SilentSend
<1>3. CASE ~p.failureReported /\ p.attempt
  <2>1. InitialFailure(p) = q
    BY <1>3 DEF InitialFailure
  <2>2. c["p2p"] = 0 /\ c["relay"] = p.controls["relay"]
    BY DEF Carriers
  <2> HIDE DEF c, n
  <2>3. /\ q.session = p.session /\ q.version = p.version
        /\ q.closed = p.closed /\ q.code = p.code
        /\ q.attempt = p.attempt /\ q.paired = p.paired /\ q.selected = p.selected
        /\ q.awaiting = p.awaiting /\ q.recovering = p.recovering
        /\ q.bridged = p.bridged /\ q.local = p.local
        /\ q.readyReported = p.readyReported /\ q.failureReported = TRUE
        /\ q.sidecar = "none" /\ q.controls = c
    BY DEF Peer
  <2> HIDE DEF q
  <2>4. Fails(p, q)
    BY <1>3, <2>2, <2>3 DEF Fails, Kept, SameRole, SameLink
  <2>5. Failure(p, q) = <<P2PState("failed", p.outgoing)>> /\ p.outgoing \in Nat
    <3>1. p # q
      BY <1>3, <2>3
    <3> QED
      BY <3>1 DEF Failure, Peer
  <2> QED
    BY <1>1, <2>1, <2>4, <2>5
<1> QED
  BY <1>2, <1>3

LEMMA ActiveFailureFields ==
  ASSUME NEW p \in Peer, p.selected = "p2p", ~p.recovering
  PROVE  /\ Drops(p, ActiveFailure(p)) /\ ActiveFailure(p).local = "none"
         /\ Failure(p, ActiveFailure(p)) = <<P2PState("failed", p.outgoing)>>
         /\ p.outgoing \in Nat
<1> DEFINE n == p.outgoing + 1
           q == [p EXCEPT !.grace = FALSE, !.recovering = TRUE,
                          !.paired = FALSE, !.selected = "none",
                          !.ready = FALSE, !.failureReported = TRUE,
                          !.candidates = 0, !.sidecar = "none",
                          !.local = "none", !.bridged = FALSE,
                          !.controls = NoControls, !.frames = 0,
                          !.outgoing = n]
<1>1. ActiveFailure(p) = q
  BY DEF ActiveFailure
<1> HIDE DEF n
<1>2. /\ q.session = p.session /\ q.version = p.version
      /\ q.closed = p.closed /\ q.code = p.code
      /\ q.attempt = p.attempt /\ q.paired = FALSE /\ q.selected = "none"
      /\ q.awaiting = p.awaiting /\ q.recovering = TRUE
      /\ q.bridged = FALSE /\ q.local = "none"
      /\ q.readyReported = p.readyReported /\ q.failureReported = TRUE
      /\ q.sidecar = "none" /\ q.controls = NoControls
  BY DEF Peer
<1> HIDE DEF q
<1>3. Drops(p, q) /\ q.local = "none"
  BY <1>2 DEF Drops, Kept
<1>4. p # q
  BY <1>2
<1>5. Failure(p, q) = <<P2PState("failed", p.outgoing)>> /\ p.outgoing \in Nat
  BY <1>4 DEF Failure, Peer
<1> QED
  BY <1>1, <1>3, <1>5

LEMMA ActiveFailureEffect ==
  ASSUME ChannelsOK, peer.session \in Sessions, NEW p \in Peer,
         ReportActiveFailure(p)
  PROVE  \/ (p.recovering \/ p.selected # "p2p") /\ peer' = p /\ Silent
         \/ /\ Drops(p, peer') /\ peer'.local = "none"
            /\ \E n \in Nat : Sends(<<P2PState("failed", n)>>)
<1>1. peer' = ActiveFailure(p) /\ Sends(Failure(p, ActiveFailure(p)))
  BY BecomeSends DEF ReportActiveFailure
<1>2. CASE p.recovering \/ p.selected # "p2p"
  <2>1. ActiveFailure(p) = p /\ Failure(p, ActiveFailure(p)) = <<>>
    BY <1>2 DEF ActiveFailure, Failure
  <2> QED
    BY <1>1, <1>2, <2>1, SilentSend
<1>3. CASE ~p.recovering /\ p.selected = "p2p"
  BY <1>1, <1>3, ActiveFailureFields
<1> QED
  BY <1>2, <1>3

-----------------------------------------------------------------------------
(* The phone's handlers of relay frames.                                   *)

TellsFailure == \E n \in Nat : Sends(<<P2PState("failed", n)>>)

\* The session stays what it is for the handlers, whatever its counters.
LEMMA UnchangedStays ==
  ASSUME UNCHANGED <<peer, up>>
  PROVE  Stays(peer, peer') /\ Silent
  BY DEF Stays, Kept, SameRole, SameLink, SameReports, SameSidecar, Silent

LEMMA ConnectFields ==
  ASSUME NEW p \in Peer
  PROVE  LET q == ConnectLocalScrcpy(p) IN
         /\ Kept(p, q) /\ SameRole(p, q) /\ Connected(p, q) /\ SameReports(p, q)
         /\ q.sidecar = p.sidecar /\ q.ready = p.ready /\ q.controls = p.controls
<1> DEFINE q == ConnectLocalScrcpy(p)
<1>1. /\ q.session = p.session /\ q.version = p.version
      /\ q.closed = p.closed /\ q.code = p.code
      /\ q.attempt = p.attempt /\ q.paired = p.paired /\ q.selected = p.selected
      /\ q.awaiting = p.awaiting /\ q.recovering = p.recovering
      /\ q.bridged = p.bridged
      /\ q.local = IF p.local = "none" THEN "connecting" ELSE p.local
      /\ q.readyReported = p.readyReported /\ q.failureReported = p.failureReported
      /\ q.sidecar = p.sidecar /\ q.ready = p.ready /\ q.controls = p.controls
  BY DEF ConnectLocalScrcpy, Peer
<1> HIDE DEF q
<1>2. /\ Kept(p, q) /\ SameRole(p, q) /\ Connected(p, q) /\ SameReports(p, q)
      /\ q.sidecar = p.sidecar /\ q.ready = p.ready /\ q.controls = p.controls
  BY <1>1 DEF Kept, SameRole, Connected, SameReports
<1> QED
  BY <1>2 DEF q

LEMMA StartEffect ==
  ASSUME PhoneInv, NEW starts \in BOOLEAN, StartP2P(starts)
  PROVE  \/ /\ ClosesWith(Faults)
            /\ peer.attempt \/ peer.sidecar # "none" \/ peer.paired
         \/ /\ Starts(peer, peer') /\ Silent /\ ~peer'.failureReported
            /\ peer'.sidecar # "none" /\ peer'.controls = peer.controls
         \/ /\ Starts(peer, peer') /\ TellsFailure /\ peer'.failureReported
            /\ peer'.sidecar = "none" /\ peer'.controls["p2p"] = 0
            /\ peer'.controls["relay"] = peer.controls["relay"]
<1> DEFINE p == [peer EXCEPT !.attempt = TRUE, !.incoming = 0, !.outgoing = 0,
                           !.ready = FALSE, !.readyReported = FALSE,
                           !.failureReported = FALSE, !.candidates = 0,
                           !.answerSent = FALSE, !.sidecar = "started"]
<1>1. /\ peer.session \in Sessions /\ peer \in Peer /\ PhoneOK /\ ChannelsOK
  BY RelayFrameTaken DEF StartP2P, PhoneInv
<1>2. p \in Peer
  BY <1>1, ZenonT(60) DEF Peer
<1>3. \/ /\ CloseActive("REMOTE_P2P_START_INVALID")
         /\ peer.attempt \/ peer.sidecar # "none" \/ peer.paired
      \/ /\ ~peer.attempt /\ peer.sidecar = "none" /\ ~peer.paired
         /\ Become(p, <<>>) \/ ReportInitialFailure(p)
  BY DEF StartP2P
<1>4. /\ p.session = peer.session /\ p.version = peer.version
      /\ p.closed = peer.closed /\ p.code = peer.code
      /\ p.attempt = TRUE /\ p.paired = peer.paired /\ p.selected = peer.selected
      /\ p.awaiting = peer.awaiting /\ p.recovering = peer.recovering
      /\ p.bridged = peer.bridged /\ p.local = peer.local
      /\ p.readyReported = FALSE /\ p.failureReported = FALSE
      /\ p.sidecar = "started" /\ p.controls = peer.controls
  BY <1>1 DEF Peer
<1> HIDE DEF p
<1>5. CASE /\ CloseActive("REMOTE_P2P_START_INVALID")
           /\ peer.attempt \/ peer.sidecar # "none" \/ peer.paired
  <2>1. "REMOTE_P2P_START_INVALID" \in Faults /\ Faults \in SUBSET Codes
    BY DEF Faults, Codes
  <2>2. ClosesWith(Faults)
    BY <1>1, <1>5, <2>1, CloseEffect
  <2> QED
    BY <1>5, <2>2
<1>6. CASE /\ ~peer.attempt /\ peer.sidecar = "none" /\ ~peer.paired
           /\ Become(p, <<>>)
  <2>1. peer' = p /\ Silent
    BY <1>1, <1>6, BecomeSends, SilentSend
  <2> QED
    BY <1>4, <1>6, <2>1 DEF Starts, Kept, SameLink
<1>7. CASE /\ ~peer.attempt /\ peer.sidecar = "none" /\ ~peer.paired
           /\ ReportInitialFailure(p)
  <2>1. Fails(p, peer') /\ TellsFailure
    BY <1>1, <1>2, <1>4, <1>7, InitialFailureEffect DEF TellsFailure
  <2>2. /\ Starts(peer, peer') /\ peer'.failureReported
        /\ peer'.sidecar = "none" /\ peer'.controls["p2p"] = 0
        /\ peer'.controls["relay"] = peer.controls["relay"]
    BY <1>4, <1>7, <2>1 DEF Fails, Starts, Kept, SameLink, SameRole
  <2> QED
    BY <2>1, <2>2
<1> QED
  BY <1>3, <1>5, <1>6, <1>7

\* A report of the failure of a session that is peer but for its counters.
LEMMA FailureOf ==
  ASSUME PhoneInv, peer.session \in Sessions, NEW p \in Peer,
         Stays(peer, p), ReportInitialFailure(p)
  PROVE  \/ Stays(peer, peer') /\ Silent
         \/ Fails(peer, peer') /\ TellsFailure
<1>1. \/ peer' = p /\ Silent
      \/ Fails(p, peer') /\ TellsFailure
  BY InitialFailureEffect DEF PhoneInv, TellsFailure
<1>2. ASSUME Fails(p, peer') PROVE Fails(peer, peer')
  BY <1>2 DEF Fails, Stays, Kept, SameRole, SameLink, SameReports
<1> QED
  BY <1>1, <1>2

LEMMA DropOf ==
  ASSUME PhoneInv, peer.session \in Sessions, NEW p \in Peer,
         Stays(peer, p), ReportActiveFailure(p)
  PROVE  \/ Stays(peer, peer') /\ Silent
         \/ Drops(peer, peer') /\ peer'.local = "none" /\ TellsFailure
<1>1. \/ peer' = p /\ Silent
      \/ Drops(p, peer') /\ peer'.local = "none" /\ TellsFailure
  BY ActiveFailureEffect DEF PhoneInv, TellsFailure
<1>2. ASSUME Drops(p, peer') PROVE Drops(peer, peer')
  BY <1>2 DEF Drops, Stays, Kept, SameRole, SameLink, SameReports
<1> QED
  BY <1>1, <1>2

LEMMA SignalHandled ==
  ASSUME PhoneInv, NEW applies \in BOOLEAN, HandleP2PSignal(applies)
  PROVE  \/ ClosesWith(Benign)
         \/ Stays(peer, peer') /\ Silent
         \/ Fails(peer, peer') /\ TellsFailure
<1> DEFINE n == peer.incoming + 1
           m == Head(down[peer.session]["device"])
           p == [peer EXCEPT !.incoming = n]
           q == [p EXCEPT !.sidecar = IF m.kind = "offer" THEN "offered" ELSE @]
<1>1. peer.session \in Sessions /\ peer \in Peer /\ PhoneOK /\ ChannelsOK
  BY RelayFrameTaken DEF HandleP2PSignal, PhoneInv
<1>2. n \in Nat
  BY <1>1 DEF Peer
<1>3. \/ CloseActive("REMOTE_P2P_SIGNAL_INVALID") \/ Become(p, <<>>)
      \/ ReportInitialFailure(p) \/ ReportInitialFailure(peer)
      \/ Become(q, <<>>) /\ peer.sidecar # "none"
  BY DEF HandleP2PSignal
<1> HIDE DEF n, m
<1>4. p \in Peer /\ Stays(peer, p)
  <2>1. p \in Peer
    BY <1>1, <1>2 DEF Peer
  <2>2. /\ p.session = peer.session /\ p.version = peer.version
        /\ p.closed = peer.closed /\ p.code = peer.code
        /\ p.attempt = peer.attempt /\ p.paired = peer.paired
        /\ p.selected = peer.selected /\ p.awaiting = peer.awaiting
        /\ p.recovering = peer.recovering /\ p.bridged = peer.bridged
        /\ p.local = peer.local /\ p.readyReported = peer.readyReported
        /\ p.failureReported = peer.failureReported /\ p.ready = peer.ready
        /\ p.sidecar = peer.sidecar /\ p.controls = peer.controls
    BY <1>1 DEF Peer
  <2> HIDE DEF p
  <2> QED
    BY <2>1, <2>2
    DEF Stays, Kept, SameRole, SameLink, SameReports, SameSidecar
<1>5. /\ q.session = p.session /\ q.version = p.version
      /\ q.closed = p.closed /\ q.code = p.code
      /\ q.attempt = p.attempt /\ q.paired = p.paired /\ q.selected = p.selected
      /\ q.awaiting = p.awaiting /\ q.recovering = p.recovering
      /\ q.bridged = p.bridged /\ q.local = p.local
      /\ q.readyReported = p.readyReported /\ q.failureReported = p.failureReported
      /\ q.ready = p.ready /\ q.controls = p.controls
      /\ p.sidecar # "none" => q.sidecar # "none"
  <2> HIDE DEF p
  <2> QED
    BY <1>4 DEF Peer
<1> HIDE DEF p, q
<1>6. CASE CloseActive("REMOTE_P2P_SIGNAL_INVALID")
  <2>1. "REMOTE_P2P_SIGNAL_INVALID" \in Benign /\ Benign \in SUBSET Codes
    BY DEF Benign, Faults, Codes
  <2> QED
    BY <1>1, <1>6, <2>1, CloseEffect
<1>7. CASE Become(p, <<>>)
  BY <1>1, <1>4, <1>7, BecomeSends, SilentSend
<1>8. CASE Become(q, <<>>) /\ peer.sidecar # "none"
  <2>1. peer' = q /\ Silent
    BY <1>1, <1>8, BecomeSends, SilentSend
  <2>2. Stays(peer, q)
    BY <1>4, <1>5, <1>8
    DEF Stays, Kept, SameRole, SameLink, SameReports, SameSidecar
  <2> QED
    BY <2>1, <2>2
<1>9. CASE ReportInitialFailure(p)
  BY <1>1, <1>4, <1>9, FailureOf
<1>10. CASE ReportInitialFailure(peer)
  <2>1. Stays(peer, peer)
    BY DEF Stays, Kept, SameRole, SameLink, SameReports, SameSidecar
  <2> QED
    BY <1>1, <1>10, <2>1, FailureOf
<1> QED
  BY <1>3, <1>6, <1>7, <1>8, <1>9, <1>10

LEMMA SelectEffect ==
  ASSUME PhoneInv, SelectInitialTransport
  PROVE  LET t == Head(down[peer.session]["device"]).transport IN
         \/ /\ ClosesWith(Faults)
            /\ \/ peer.paired \/ peer.awaiting \/ Foreign(t)
               \/ /\ t = "p2p" /\ (~peer.ready \/ peer.sidecar = "none")
                  /\ ~(peer.readyReported /\ peer.failureReported)
         \/ Awaits(peer, peer') /\ Silent /\ t = "p2p"
         \/ Selects(peer, peer', t) /\ Silent /\ ~Foreign(t)
<1> DEFINE t == Head(down[peer.session]["device"]).transport
           w == [peer EXCEPT !.awaiting = TRUE]
           p == [peer EXCEPT !.paired = TRUE, !.selected = t,
                             !.sidecar = IF t = "relay" THEN "none" ELSE @]
           unavailable == t = "p2p" /\ (~peer.ready \/ peer.sidecar = "none")
<1>1. peer.session \in Sessions /\ peer \in Peer /\ t \in {"relay", "p2p"}
      /\ PhoneOK /\ ChannelsOK
  BY RelayFrameTaken, FrameFields DEF SelectInitialTransport, PhoneInv
<1>2. \/ /\ CloseActive("REMOTE_RELAY_READY_INVALID")
         /\ \/ peer.paired \/ peer.awaiting \/ Foreign(t)
            \/ unavailable /\ ~(peer.readyReported /\ peer.failureReported)
      \/ /\ Become(w, <<>>) /\ ~peer.paired /\ ~peer.awaiting /\ unavailable
         /\ peer.readyReported /\ peer.failureReported
      \/ /\ Become(ConnectLocalScrcpy(p), <<>>) /\ ~peer.paired
         /\ ~peer.awaiting /\ ~Foreign(t) /\ ~unavailable
  BY DEF SelectInitialTransport
<1> HIDE DEF t
<1>3. /\ w.session = peer.session /\ w.version = peer.version
      /\ w.closed = peer.closed /\ w.code = peer.code
      /\ w.attempt = peer.attempt /\ w.paired = peer.paired
      /\ w.selected = peer.selected /\ w.awaiting = TRUE
      /\ w.recovering = peer.recovering /\ w.bridged = peer.bridged
      /\ w.local = peer.local /\ w.readyReported = peer.readyReported
      /\ w.failureReported = peer.failureReported /\ w.ready = peer.ready
      /\ w.sidecar = peer.sidecar /\ w.controls = peer.controls
  BY <1>1 DEF Peer
<1>4. /\ p.session = peer.session /\ p.version = peer.version
      /\ p.closed = peer.closed /\ p.code = peer.code
      /\ p.attempt = peer.attempt /\ p.paired = TRUE
      /\ p.selected = t /\ p.awaiting = peer.awaiting
      /\ p.recovering = peer.recovering /\ p.bridged = peer.bridged
      /\ p.local = peer.local /\ p.readyReported = peer.readyReported
      /\ p.failureReported = peer.failureReported /\ p.ready = peer.ready
      /\ p.sidecar = IF t = "relay" THEN "none" ELSE peer.sidecar
      /\ p.controls = peer.controls
  BY <1>1 DEF Peer
<1>5. p \in Peer
  BY <1>1, ZenonT(60) DEF Peer, Transports
<1> HIDE DEF w, p
<1>6. CASE /\ CloseActive("REMOTE_RELAY_READY_INVALID")
           /\ \/ peer.paired \/ peer.awaiting \/ Foreign(t)
              \/ unavailable /\ ~(peer.readyReported /\ peer.failureReported)
  <2>1. "REMOTE_RELAY_READY_INVALID" \in Faults /\ Faults \in SUBSET Codes
    BY DEF Faults, Codes
  <2>2. ClosesWith(Faults)
    BY <1>1, <1>6, <2>1, CloseEffect
  <2> QED
    BY <1>6, <2>2 DEF t
<1>7. CASE /\ Become(w, <<>>) /\ ~peer.paired /\ ~peer.awaiting /\ unavailable
           /\ peer.readyReported /\ peer.failureReported
  <2>1. peer' = w /\ Silent
    BY <1>1, <1>7, BecomeSends, SilentSend
  <2>2. Awaits(peer, w)
    BY <1>3, <1>7 DEF Awaits, Kept, SameLink, SameReports, SameSidecar
  <2> QED
    BY <1>7, <2>1, <2>2 DEF t
<1>8. CASE /\ Become(ConnectLocalScrcpy(p), <<>>) /\ ~peer.paired
           /\ ~peer.awaiting /\ ~Foreign(t) /\ ~unavailable
  <2>0. PICK q : q = ConnectLocalScrcpy(p)
    OBVIOUS
  <2>1. peer' = q /\ Silent
    BY <1>1, <1>8, <2>0, BecomeSends, SilentSend
  <2>2. /\ Kept(p, q) /\ SameRole(p, q) /\ Connected(p, q) /\ SameReports(p, q)
        /\ q.sidecar = p.sidecar /\ q.ready = p.ready /\ q.controls = p.controls
    BY <1>5, <2>0, ConnectFields
  <2>3. t \in Carriers
    BY <1>1 DEF Carriers
  <2>4. Selects(peer, q, t)
    BY <1>4, <1>8, <2>2, <2>3
    DEF Selects, Kept, SameRole, Connected, SameReports
  <2> QED
    BY <1>8, <2>1, <2>4 DEF t
<1> QED
  BY <1>2, <1>6, <1>7, <1>8 DEF t

LEMMA RecoveryEffect ==
  ASSUME PhoneInv, RecoveryBegins
  PROVE  \/ /\ ClosesWith(Faults)
            /\ ~peer.awaiting /\ ~peer.recovering /\ peer.selected # "p2p"
         \/ Recovers(peer, peer') /\ Silent
         \/ Drops(peer, peer') /\ peer'.local = "connecting" /\ TellsFailure
<1>1. peer.session \in Sessions /\ peer \in Peer /\ PhoneOK /\ ChannelsOK
  BY RelayFrameTaken DEF RecoveryBegins, PhoneInv
<1>2. CASE peer.awaiting
  <2> DEFINE a == [peer EXCEPT !.awaiting = FALSE, !.recovering = TRUE]
  <2>1. a \in Peer
    BY <1>1 DEF Peer
  <2>2. /\ a.session = peer.session /\ a.version = peer.version
        /\ a.closed = peer.closed /\ a.code = peer.code
        /\ a.attempt = peer.attempt /\ a.paired = peer.paired
        /\ a.selected = peer.selected /\ a.awaiting = FALSE
        /\ a.recovering = TRUE /\ a.bridged = peer.bridged
        /\ a.local = peer.local /\ a.readyReported = peer.readyReported
        /\ a.failureReported = peer.failureReported /\ a.ready = peer.ready
        /\ a.sidecar = peer.sidecar /\ a.controls = peer.controls
    BY <1>1 DEF Peer
  <2>3. a.recovering => Become(ConnectLocalScrcpy(a), <<>>)
    BY <1>2 DEF RecoveryBegins
  <2> HIDE DEF a
  <2>4. PICK q : q = ConnectLocalScrcpy(a)
    OBVIOUS
  <2>5. peer' = q /\ Silent
    BY <1>1, <2>2, <2>3, <2>4, BecomeSends, SilentSend
  <2>6. /\ Kept(a, q) /\ SameRole(a, q) /\ Connected(a, q) /\ SameReports(a, q)
        /\ q.sidecar = a.sidecar /\ q.ready = a.ready /\ q.controls = a.controls
    BY <2>1, <2>4, ConnectFields
  <2>7. Recovers(peer, q)
    BY <1>2, <2>2, <2>6
    DEF Recovers, Kept, SameRole, Connected, SameReports, SameSidecar
  <2> QED
    BY <2>5, <2>7
<1>3. CASE ~peer.awaiting /\ peer.recovering
  <2>1. ActiveFailure(peer) = peer /\ Failure(peer, peer) = <<>>
    BY <1>3 DEF ActiveFailure, Failure
  <2>2. Become(ConnectLocalScrcpy(peer), <<>>)
    BY <1>3, <2>1 DEF RecoveryBegins
  <2>4. PICK q : q = ConnectLocalScrcpy(peer)
    OBVIOUS
  <2>5. peer' = q /\ Silent
    BY <1>1, <2>2, <2>4, BecomeSends, SilentSend
  <2>6. /\ Kept(peer, q) /\ SameRole(peer, q) /\ Connected(peer, q)
        /\ SameReports(peer, q) /\ q.sidecar = peer.sidecar
        /\ q.ready = peer.ready /\ q.controls = peer.controls
    BY <1>1, <2>4, ConnectFields
  <2>7. Recovers(peer, q)
    BY <1>3, <2>6
    DEF Recovers, Kept, SameRole, Connected, SameReports, SameSidecar
  <2> QED
    BY <2>5, <2>7
<1>4. CASE ~peer.awaiting /\ ~peer.recovering /\ peer.selected = "p2p"
  <2> DEFINE a == ActiveFailure(peer)
  <2>1. /\ Drops(peer, a) /\ a.local = "none" /\ peer.outgoing \in Nat
        /\ Failure(peer, a) = <<P2PState("failed", peer.outgoing)>>
        /\ a \in Peer
    BY <1>1, <1>4, ActiveFailureFields, ActiveFailureType
  <2>2. a.recovering
    BY <2>1 DEF Drops
  <2>3. Become(ConnectLocalScrcpy(a), Failure(peer, a))
    BY <1>4, <2>2 DEF RecoveryBegins
  <2> HIDE DEF a
  <2>4. PICK q : q = ConnectLocalScrcpy(a)
    OBVIOUS
  <2>5. peer' = q /\ TellsFailure
    BY <2>1, <2>3, <2>4, BecomeSends DEF TellsFailure
  <2>6. /\ Kept(a, q) /\ SameRole(a, q) /\ Connected(a, q) /\ SameReports(a, q)
        /\ q.sidecar = a.sidecar /\ q.ready = a.ready /\ q.controls = a.controls
    BY <2>1, <2>4, ConnectFields
  <2>7. Drops(peer, q) /\ q.local = "connecting"
    BY <2>1, <2>6 DEF Drops, Kept, SameRole, Connected, SameReports
  <2> QED
    BY <2>5, <2>7
<1>5. CASE ~peer.awaiting /\ ~peer.recovering /\ peer.selected # "p2p"
  <2>1. ActiveFailure(peer) = peer
    BY <1>5 DEF ActiveFailure
  <2>2. CloseActive("REMOTE_RECOVERY_SEQUENCE_INVALID")
    BY <1>5, <2>1 DEF RecoveryBegins
  <2>3. "REMOTE_RECOVERY_SEQUENCE_INVALID" \in Faults /\ Faults \in SUBSET Codes
    BY DEF Faults, Codes
  <2> QED
    BY <1>1, <1>5, <2>2, <2>3, CloseEffect
<1> QED
  BY <1>2, <1>3, <1>4, <1>5

LEMMA CommitEffect ==
  ASSUME PhoneInv, RecoveryCommits
  PROVE  \/ /\ ClosesWith(Faults)
            /\ ~peer.recovering \/ ~peer.bridged \/ peer.local = "none"
         \/ /\ Commits(peer, peer')
            /\ \E ms \in Seq(Frames) :
                 Sends(ms) /\ \A i \in DOMAIN ms : ms[i] = Binary
<1> DEFINE p == [peer EXCEPT !.recovering = FALSE, !.paired = TRUE,
                             !.selected = "relay", !.frames = 0]
           ms == [i \in 1..peer.frames |-> Binary]
<1>1. peer.session \in Sessions /\ peer \in Peer /\ PhoneOK /\ ChannelsOK
  BY RelayFrameTaken DEF RecoveryCommits, PhoneInv
<1>2. \/ /\ CloseActive("REMOTE_RECOVERY_SEQUENCE_INVALID")
         /\ ~peer.recovering \/ ~peer.bridged \/ peer.local = "none"
      \/ /\ peer.recovering /\ peer.bridged /\ peer.local # "none"
         /\ Become(p, ms)
  BY DEF RecoveryCommits
<1>3. CASE /\ CloseActive("REMOTE_RECOVERY_SEQUENCE_INVALID")
           /\ ~peer.recovering \/ ~peer.bridged \/ peer.local = "none"
  <2>1. "REMOTE_RECOVERY_SEQUENCE_INVALID" \in Faults /\ Faults \in SUBSET Codes
    BY DEF Faults, Codes
  <2> QED
    BY <1>1, <1>3, <2>1, CloseEffect
<1>4. CASE /\ peer.recovering /\ peer.bridged /\ peer.local # "none"
           /\ Become(p, ms)
  <2>1. peer' = p /\ Sends(ms)
    BY <1>4, BecomeSends
  <2>2. ms \in Seq(Frames) /\ \A i \in DOMAIN ms : ms[i] = Binary
    <3>1. peer.frames \in Nat
      BY <1>1 DEF Peer
    <3> QED
      BY <3>1, FramesBuilt
  <2> HIDE DEF ms
  <2>3. /\ p.session = peer.session /\ p.version = peer.version
        /\ p.closed = peer.closed /\ p.code = peer.code
        /\ p.attempt = peer.attempt /\ p.paired = TRUE
        /\ p.selected = "relay" /\ p.awaiting = peer.awaiting
        /\ p.recovering = FALSE /\ p.bridged = peer.bridged
        /\ p.local = peer.local /\ p.readyReported = peer.readyReported
        /\ p.failureReported = peer.failureReported /\ p.ready = peer.ready
        /\ p.sidecar = peer.sidecar /\ p.controls = peer.controls
    BY <1>1 DEF Peer
  <2> HIDE DEF p
  <2>4. Commits(peer, p)
    BY <1>4, <2>3 DEF Commits, Kept, SameLink, SameReports, SameSidecar
  <2> QED
    BY <2>1, <2>2, <2>4
<1> QED
  BY <1>2, <1>3, <1>4

Held == ~peer.bridged \/ peer.local # "open"

LEMMA LocalEffect ==
  ASSUME PhoneInv, peer.session \in Sessions, NEW t \in Carriers, SendToLocal(t)
  PROVE  \/ /\ ClosesWith(Faults)
            /\ IF Held THEN peer.selected \notin {"none", t} \/ Foreign(t)
                       ELSE peer.selected # t
         \/ ClosesWith(Benign)
         \/ Stays(peer, peer') /\ Silent
         \/ Buffers(peer, peer', t) /\ Silent /\ ~Foreign(t) /\ Held
<1> DEFINE n == peer.controls[t] + 1
           c == [peer.controls EXCEPT ![t] = n]
           p == [peer EXCEPT !.controls = c]
<1>1. peer \in Peer /\ PhoneOK /\ ChannelsOK
  BY DEF PhoneInv, PhoneOK
<1>2. peer.controls \in [Carriers -> Nat]
  BY <1>1 DEF Peer
<1>3. [peer EXCEPT !.controls[t] = peer.controls[t] + 1] = p
  BY <1>1 DEF Peer
<1>4. \/ /\ CloseActive("REMOTE_CONTROL_TRANSPORT_MISMATCH")
         /\ IF Held THEN peer.selected \notin {"none", t} \/ Foreign(t)
                    ELSE peer.selected # t
      \/ UNCHANGED <<peer, up, events>>
      \/ CloseActive("REMOTE_CONTROL_BUFFER_FULL")
      \/ /\ Become(p, <<>>) /\ Held
         /\ peer.selected \in {"none", t} /\ ~Foreign(t)
  BY <1>3 DEF SendToLocal, Held
<1>5. \A u \in Carriers : c[u] = IF u = t THEN peer.controls[u] + 1
                                          ELSE peer.controls[u]
  BY <1>2
<1> HIDE DEF c, n
<1>6. /\ p.session = peer.session /\ p.version = peer.version
      /\ p.closed = peer.closed /\ p.code = peer.code
      /\ p.attempt = peer.attempt /\ p.paired = peer.paired
      /\ p.selected = peer.selected /\ p.awaiting = peer.awaiting
      /\ p.recovering = peer.recovering /\ p.bridged = peer.bridged
      /\ p.local = peer.local /\ p.readyReported = peer.readyReported
      /\ p.failureReported = peer.failureReported /\ p.ready = peer.ready
      /\ p.sidecar = peer.sidecar /\ p.controls = c
  BY <1>1 DEF Peer
<1> HIDE DEF p
<1>7. CASE CloseActive("REMOTE_CONTROL_TRANSPORT_MISMATCH")
           /\ IF Held THEN peer.selected \notin {"none", t} \/ Foreign(t)
                    ELSE peer.selected # t
  <2>1. "REMOTE_CONTROL_TRANSPORT_MISMATCH" \in Faults /\ Faults \in SUBSET Codes
    BY DEF Faults, Codes
  <2> QED
    BY <1>1, <1>7, <2>1, CloseEffect
<1>8. CASE CloseActive("REMOTE_CONTROL_BUFFER_FULL")
  <2>1. "REMOTE_CONTROL_BUFFER_FULL" \in Benign /\ Benign \in SUBSET Codes
    BY DEF Benign, Faults, Codes
  <2> QED
    BY <1>1, <1>8, <2>1, CloseEffect
<1>9. CASE UNCHANGED <<peer, up, events>>
  BY <1>9, UnchangedStays
<1>10. CASE /\ Become(p, <<>>) /\ Held
            /\ peer.selected \in {"none", t} /\ ~Foreign(t)
  <2>1. peer' = p /\ Silent
    BY <1>1, <1>10, BecomeSends, SilentSend
  <2>2. Buffers(peer, p, t)
    BY <1>5, <1>6, <1>10
    DEF Buffers, Kept, SameRole, SameLink, SameReports, SameSidecar
  <2> QED
    BY <1>10, <2>1, <2>2
<1> QED
  BY <1>4, <1>7, <1>8, <1>9, <1>10

LEMMA RelayBinaryEffect ==
  ASSUME PhoneInv, RelayBinary
  PROVE  \/ /\ ClosesWith(Faults)
            /\ \/ peer.paired /\ peer.selected # "relay"
               \/ ~peer.paired /\ (peer.selected # "none" \/ peer.recovering)
               \/ Held /\ (peer.selected \notin {"none", "relay"} \/ Foreign("relay"))
               \/ ~Held /\ peer.selected # "relay"
         \/ ClosesWith(Benign)
         \/ Stays(peer, peer') /\ Silent
         \/ /\ Buffers(peer, peer', "relay") /\ Silent /\ ~Foreign("relay") /\ Held
            /\ peer.paired => peer.selected = "relay"
            /\ ~peer.paired => ~peer.recovering
<1>1. peer.session \in Sessions /\ peer \in Peer /\ PhoneOK /\ ChannelsOK
  BY RelayFrameTaken DEF RelayBinary, PhoneInv
<1>2. CASE IF peer.paired THEN peer.selected # "relay"
                          ELSE peer.selected # "none" \/ peer.recovering
  <2>1. "REMOTE_RELAY_SEQUENCE_INVALID" \in Faults /\ Faults \in SUBSET Codes
    BY DEF Faults, Codes
  <2>2. ClosesWith(Faults)
    BY <1>1, <1>2, <2>1, CloseEffect DEF RelayBinary
  <2> QED
    BY <1>2, <2>2
<1>3. CASE ~(IF peer.paired THEN peer.selected # "relay"
                            ELSE peer.selected # "none" \/ peer.recovering)
  <2>1. SendToLocal("relay") /\ "relay" \in Carriers
    BY <1>3 DEF RelayBinary, Carriers
  <2> QED
    BY <1>1, <1>3, <2>1, LocalEffect
<1> QED
  BY <1>2, <1>3

LEMMA RelayClosesEffect ==
  ASSUME PhoneInv, RelayCloses
  PROVE  ClosesWith(Benign)
<1>1. PhoneOK /\ CloseActive("PEER_CLOSED")
  BY DEF RelayCloses, PhoneInv
<1>2. "PEER_CLOSED" \in Benign /\ Benign \in SUBSET Codes
  BY DEF Benign, Faults, Codes
<1> QED
  BY <1>1, <1>2, CloseEffect

-----------------------------------------------------------------------------
(* The phone's callbacks.                                                  *)

\* A record with the same fields but for counters is the same session.
LEMMA CountersStay ==
  ASSUME NEW p \in Peer, NEW a, NEW c, NEW o, NEW f, NEW g
  PROVE  Stays(p, [p EXCEPT !.answerSent = a, !.candidates = c, !.outgoing = o,
                            !.frames = f, !.grace = g])
<1> DEFINE q == [p EXCEPT !.answerSent = a, !.candidates = c, !.outgoing = o,
                          !.frames = f, !.grace = g]
<1>1. /\ q.session = p.session /\ q.version = p.version
      /\ q.closed = p.closed /\ q.code = p.code
      /\ q.attempt = p.attempt /\ q.paired = p.paired
      /\ q.selected = p.selected /\ q.awaiting = p.awaiting
      /\ q.recovering = p.recovering /\ q.bridged = p.bridged
      /\ q.local = p.local /\ q.readyReported = p.readyReported
      /\ q.failureReported = p.failureReported /\ q.ready = p.ready
      /\ q.sidecar = p.sidecar /\ q.controls = p.controls
  BY DEF Peer
<1> HIDE DEF q
<1>2. Stays(p, q)
  BY <1>1 DEF Stays, Kept, SameRole, SameLink, SameReports, SameSidecar
<1> QED
  BY <1>2 DEF q

\* What a callback finds.
LEMMA CallbackFinds ==
  ASSUME PhoneInv, Running
  PROVE  /\ peer.session \in Sessions /\ peer \in Peer /\ PhoneOK /\ ChannelsOK
         /\ peer.outgoing \in Nat /\ peer.candidates \in Nat
  BY RunningSession DEF PhoneInv, PhoneOK, Peer

LEMMA DescriptionEffect ==
  ASSUME PhoneInv, LocalDescription
  PROVE  /\ Stays(peer, peer')
         /\ ~peer.readyReported /\ ~peer.failureReported
         /\ \E ms \in Seq(Frames) :
              Sends(ms) /\ \A i \in DOMAIN ms : ms[i].type = "signal"
<1> DEFINE c == peer.candidates
           o == peer.outgoing
           n == o + 1 + c
           p == [peer EXCEPT !.answerSent = TRUE, !.candidates = 0,
                             !.outgoing = n]
           ms == [i \in 1..(1 + c) |->
                   Signal(IF i = 1 THEN "answer" ELSE "ice-candidate", o + i - 1)]
<1>1. Running /\ peer \in Peer /\ c \in Nat /\ o \in Nat
  BY CallbackFinds DEF LocalDescription, Sidecar
<1>2. Become(p, ms) /\ ~peer.readyReported /\ ~peer.failureReported
  BY <1>1 DEF LocalDescription, MaySignal, Peer
<1> HIDE DEF c, o
<1>3. ms \in Seq(Frames) /\ \A i \in DOMAIN ms : ms[i].type = "signal"
  <2>1. \A i \in 1..(1 + c) : o + i - 1 \in Nat
    BY <1>1
  <2>2. \A i \in 1..(1 + c) :
          Signal(IF i = 1 THEN "answer" ELSE "ice-candidate", o + i - 1) \in Frames
    BY <2>1, FramesBuilt DEF SignalKinds
  <2> QED
    BY <1>1, <2>2, FrameTypes
<1> HIDE DEF n, ms
<1>4. p = [peer EXCEPT !.answerSent = TRUE, !.candidates = 0, !.outgoing = n,
                       !.frames = peer.frames, !.grace = peer.grace]
  BY <1>1 DEF Peer
<1> HIDE DEF p
<1>5. Stays(peer, p)
  BY <1>1, <1>4, CountersStay
<1> QED
  BY <1>2, <1>3, <1>5, BecomeSends

LEMMA CandidateEffect ==
  ASSUME PhoneInv, LocalCandidate
  PROVE  \/ Stays(peer, peer') /\ Silent
         \/ /\ Stays(peer, peer')
            /\ \E n \in Nat : Sends(<<Signal("ice-candidate", n)>>)
         \/ Fails(peer, peer') /\ TellsFailure
<1> DEFINE n == peer.outgoing + 1
           k == peer.candidates + 1
           p == [peer EXCEPT !.outgoing = n]
           q == [peer EXCEPT !.candidates = k]
<1>1. /\ peer.session \in Sessions /\ peer \in Peer /\ peer.outgoing \in Nat
      /\ ChannelsOK
  BY CallbackFinds DEF LocalCandidate, Sidecar
<1>2. \/ UNCHANGED <<peer, up, events>>
      \/ Become(p, <<Signal("ice-candidate", peer.outgoing)>>)
      \/ ReportInitialFailure(peer) \/ Become(q, <<>>)
  BY DEF LocalCandidate
<1> HIDE DEF n, k
<1>3. Stays(peer, peer)
  BY DEF Stays, Kept, SameRole, SameLink, SameReports, SameSidecar
<1>4. /\ p = [peer EXCEPT !.answerSent = peer.answerSent,
                !.candidates = peer.candidates, !.outgoing = n,
                !.frames = peer.frames, !.grace = peer.grace]
      /\ q = [peer EXCEPT !.answerSent = peer.answerSent,
                !.candidates = k, !.outgoing = peer.outgoing,
                !.frames = peer.frames, !.grace = peer.grace]
  BY <1>1 DEF Peer
<1> HIDE DEF p, q
<1>5. Stays(peer, p) /\ Stays(peer, q)
  BY <1>1, <1>4, CountersStay
<1>6. CASE UNCHANGED <<peer, up, events>>
  BY <1>6, UnchangedStays
<1>7. CASE Become(p, <<Signal("ice-candidate", peer.outgoing)>>)
  BY <1>1, <1>5, <1>7, BecomeSends
<1>8. CASE ReportInitialFailure(peer)
  BY <1>1, <1>3, <1>8, FailureOf
<1>9. CASE Become(q, <<>>)
  BY <1>1, <1>5, <1>9, BecomeSends, SilentSend
<1> QED
  BY <1>2, <1>6, <1>7, <1>8, <1>9

LEMMA ReadyCallbackEffect ==
  ASSUME PhoneInv, SidecarReady
  PROVE  \/ Stays(peer, peer') /\ Silent
         \/ /\ Announces(peer, peer')
            /\ \E n \in Nat : Sends(<<P2PState("ready", n)>>)
<1> DEFINE n == peer.outgoing + 1
           p == [peer EXCEPT !.grace = FALSE, !.ready = TRUE]
           q == [p EXCEPT !.readyReported = TRUE, !.outgoing = n]
<1>1. /\ peer.session \in Sessions /\ peer \in Peer /\ peer.outgoing \in Nat
      /\ ChannelsOK /\ peer.sidecar # "none"
  BY CallbackFinds DEF SidecarReady, Sidecar
<1>2. \/ Become(p, <<>>)
      \/ /\ Become(q, <<P2PState("ready", peer.outgoing)>>) /\ ~peer.paired
         /\ ~peer.readyReported /\ ~peer.failureReported
  BY <1>1 DEF SidecarReady, MaySignal, Peer
<1> HIDE DEF n
<1>3. /\ p.session = peer.session /\ p.version = peer.version
      /\ p.closed = peer.closed /\ p.code = peer.code
      /\ p.attempt = peer.attempt /\ p.paired = peer.paired
      /\ p.selected = peer.selected /\ p.awaiting = peer.awaiting
      /\ p.recovering = peer.recovering /\ p.bridged = peer.bridged
      /\ p.local = peer.local /\ p.readyReported = peer.readyReported
      /\ p.failureReported = peer.failureReported /\ p.ready = TRUE
      /\ p.sidecar = peer.sidecar /\ p.controls = peer.controls
  BY <1>1 DEF Peer
<1>4. p \in Peer
  BY <1>1 DEF Peer
<1> HIDE DEF p
<1>5. /\ q.session = p.session /\ q.version = p.version
      /\ q.closed = p.closed /\ q.code = p.code
      /\ q.attempt = p.attempt /\ q.paired = p.paired
      /\ q.selected = p.selected /\ q.awaiting = p.awaiting
      /\ q.recovering = p.recovering /\ q.bridged = p.bridged
      /\ q.local = p.local /\ q.readyReported = TRUE
      /\ q.failureReported = p.failureReported /\ q.ready = p.ready
      /\ q.sidecar = p.sidecar /\ q.controls = p.controls
  BY <1>4 DEF Peer
<1> HIDE DEF q
<1>6. CASE Become(p, <<>>)
  <2>1. peer' = p /\ Silent
    BY <1>1, <1>6, BecomeSends, SilentSend
  <2>2. Stays(peer, p)
    BY <1>3 DEF Stays, Kept, SameRole, SameLink, SameReports, SameSidecar
  <2> QED
    BY <2>1, <2>2
<1>7. CASE /\ Become(q, <<P2PState("ready", peer.outgoing)>>) /\ ~peer.paired
           /\ ~peer.readyReported /\ ~peer.failureReported
  <2>1. peer' = q /\ Sends(<<P2PState("ready", peer.outgoing)>>)
    BY <1>7, BecomeSends
  <2>2. Announces(peer, q)
    BY <1>1, <1>3, <1>5, <1>7 DEF Announces, Kept, SameRole, SameLink
  <2> QED
    BY <1>1, <2>1, <2>2
<1> QED
  BY <1>2, <1>6, <1>7

LEMMA FailureCallbackEffect ==
  ASSUME PhoneInv, SidecarDisconnected \/ SidecarFails \/ GraceEnds
  PROVE  \/ Stays(peer, peer') /\ Silent
         \/ Fails(peer, peer') /\ ~peer.paired /\ TellsFailure
         \/ Drops(peer, peer') /\ peer'.local = "none" /\ TellsFailure
<1> DEFINE p == [peer EXCEPT !.grace = FALSE]
           q == [peer EXCEPT !.grace = TRUE]
<1>1. /\ peer.session \in Sessions /\ peer \in Peer /\ ChannelsOK
  BY CallbackFinds DEF SidecarDisconnected, SidecarFails, GraceEnds, Sidecar
<1>0. p.paired = peer.paired
  BY <1>1 DEF Peer
<1>2. \/ UNCHANGED <<peer, up, events>> \/ Become(q, <<>>) \/ Become(p, <<>>)
      \/ ReportActiveFailure(peer) \/ ReportActiveFailure(p)
      \/ ReportInitialFailure(peer) /\ ~peer.paired
      \/ ReportInitialFailure(p) /\ ~peer.paired
  BY <1>0 DEF SidecarDisconnected, SidecarFails, GraceEnds
<1>3. Stays(peer, peer)
  BY DEF Stays, Kept, SameRole, SameLink, SameReports, SameSidecar
<1>4. /\ p = [peer EXCEPT !.answerSent = peer.answerSent,
                !.candidates = peer.candidates, !.outgoing = peer.outgoing,
                !.frames = peer.frames, !.grace = FALSE]
      /\ q = [peer EXCEPT !.answerSent = peer.answerSent,
                !.candidates = peer.candidates, !.outgoing = peer.outgoing,
                !.frames = peer.frames, !.grace = TRUE]
  BY <1>1 DEF Peer
<1>5. p \in Peer /\ q \in Peer
  BY <1>1 DEF Peer
<1> HIDE DEF p, q
<1>6. Stays(peer, p) /\ Stays(peer, q)
  BY <1>1, <1>4, CountersStay
<1>7. CASE UNCHANGED <<peer, up, events>>
  BY <1>7, UnchangedStays
<1>8. CASE Become(q, <<>>) \/ Become(p, <<>>)
  <2>1. (peer' = p \/ peer' = q) /\ Silent
    BY <1>1, <1>8, BecomeSends, SilentSend
  <2> QED
    BY <1>6, <2>1
<1>9. CASE ReportActiveFailure(peer) \/ ReportActiveFailure(p)
  BY <1>1, <1>3, <1>5, <1>6, <1>9, DropOf
<1>10. CASE (ReportInitialFailure(peer) \/ ReportInitialFailure(p)) /\ ~peer.paired
  BY <1>1, <1>3, <1>5, <1>6, <1>10, FailureOf
<1> QED
  BY <1>2, <1>7, <1>8, <1>9, <1>10

LEMMA SidecarBinaryEffect ==
  ASSUME PhoneInv, SidecarBinary
  PROVE  /\ peer.sidecar # "none" /\ pipe > 0
         /\ \/ ClosesWith(Faults) /\ peer.paired /\ peer.selected # "p2p"
            \/ /\ ClosesWith(Faults)
               /\ IF peer.paired THEN peer.selected = "p2p"
                  ELSE /\ peer.selected = "none" /\ ~peer.recovering
                       /\ peer.attempt /\ peer.ready
               /\ IF Held THEN peer.selected \notin {"none", "p2p"} \/ Foreign("p2p")
                          ELSE peer.selected # "p2p"
            \/ ClosesWith(Benign)
            \/ Stays(peer, peer') /\ Silent
            \/ /\ Buffers(peer, peer', "p2p") /\ Silent /\ ~Foreign("p2p")
               /\ Held
               /\ ~peer.paired => ~peer.recovering /\ peer.attempt
            \/ Fails(peer, peer') /\ ~peer.paired /\ TellsFailure
<1>1. /\ peer.session \in Sessions /\ peer \in Peer /\ PhoneOK /\ ChannelsOK
      /\ peer.sidecar # "none" /\ pipe > 0
  BY CallbackFinds DEF SidecarBinary, Sidecar
<1>2. \/ /\ SendToLocal("p2p")
         /\ IF peer.paired THEN peer.selected = "p2p"
            ELSE /\ peer.selected = "none" /\ ~peer.recovering
                 /\ peer.attempt /\ peer.ready
      \/ /\ CloseActive("RTC_CONTROL_SEQUENCE_INVALID")
         /\ peer.paired /\ peer.selected # "p2p"
      \/ ReportInitialFailure(peer) /\ ~peer.paired
  BY DEF SidecarBinary
<1>3. CASE /\ SendToLocal("p2p")
           /\ IF peer.paired THEN peer.selected = "p2p"
              ELSE /\ peer.selected = "none" /\ ~peer.recovering
                   /\ peer.attempt /\ peer.ready
  <2>1. "p2p" \in Carriers
    BY DEF Carriers
  <2> QED
    BY <1>1, <1>3, <2>1, LocalEffect
<1>4. CASE /\ CloseActive("RTC_CONTROL_SEQUENCE_INVALID")
           /\ peer.paired /\ peer.selected # "p2p"
  <2>1. "RTC_CONTROL_SEQUENCE_INVALID" \in Faults /\ Faults \in SUBSET Codes
    BY DEF Faults, Codes
  <2> QED
    BY <1>1, <1>4, <2>1, CloseEffect
<1>5. CASE ReportInitialFailure(peer) /\ ~peer.paired
  <2>1. Stays(peer, peer)
    BY DEF Stays, Kept, SameRole, SameLink, SameReports, SameSidecar
  <2> QED
    BY <1>1, <1>5, <2>1, FailureOf
<1> QED
  BY <1>2, <1>3, <1>4, <1>5

LEMMA OpensEffect ==
  ASSUME PhoneInv, LocalOpens
  PROVE  \/ ClosesWith(Faults) /\ Foreign(peer.selected)
         \/ Opens(peer, peer') /\ peer.recovering /\ Sends(<<TransportReady>>)
         \/ Opens(peer, peer') /\ ~peer.recovering /\ Silent
<1> DEFINE p == [peer EXCEPT !.local = "open", !.bridged = TRUE,
                             !.controls = NoControls]
<1>1. /\ peer.session \in Sessions /\ peer \in Peer /\ PhoneOK /\ ChannelsOK
      /\ peer.local = "connecting"
  BY CallbackFinds DEF LocalOpens
<1>2. \/ CloseActive("REMOTE_CONTROL_TRANSPORT_MISMATCH") /\ Foreign(peer.selected)
      \/ Become(p, IF peer.recovering THEN <<TransportReady>> ELSE <<>>)
  BY DEF LocalOpens
<1>3. /\ p.session = peer.session /\ p.version = peer.version
      /\ p.closed = peer.closed /\ p.code = peer.code
      /\ p.attempt = peer.attempt /\ p.paired = peer.paired
      /\ p.selected = peer.selected /\ p.awaiting = peer.awaiting
      /\ p.recovering = peer.recovering /\ p.bridged = TRUE
      /\ p.local = "open" /\ p.readyReported = peer.readyReported
      /\ p.failureReported = peer.failureReported /\ p.ready = peer.ready
      /\ p.sidecar = peer.sidecar /\ p.controls = NoControls
  BY <1>1 DEF Peer
<1> HIDE DEF p
<1>4. Opens(peer, p)
  BY <1>1, <1>3 DEF Opens, Kept, SameRole, SameReports, SameSidecar
<1>5. CASE CloseActive("REMOTE_CONTROL_TRANSPORT_MISMATCH") /\ Foreign(peer.selected)
  <2>1. "REMOTE_CONTROL_TRANSPORT_MISMATCH" \in Faults /\ Faults \in SUBSET Codes
    BY DEF Faults, Codes
  <2> QED
    BY <1>1, <1>5, <2>1, CloseEffect
<1>6. CASE Become(p, <<TransportReady>>) /\ peer.recovering
  BY <1>4, <1>6, BecomeSends
<1>7. CASE Become(p, <<>>) /\ ~peer.recovering
  BY <1>1, <1>4, <1>7, BecomeSends, SilentSend
<1> QED
  BY <1>2, <1>5, <1>6, <1>7

LEMMA LocalBinaryEffect ==
  ASSUME PhoneInv, NEW sends \in BOOLEAN, LocalBinary(sends)
  PROVE  \/ ClosesWith(Benign)
         \/ Stays(peer, peer') /\ Silent
         \/ Stays(peer, peer') /\ peer.selected = "relay" /\ Sends(<<Binary>>)
         \/ Drops(peer, peer') /\ peer'.local = "none" /\ TellsFailure
<1> DEFINE n == peer.frames + 1
           p == [peer EXCEPT !.frames = n]
<1>1. /\ peer.session \in Sessions /\ peer \in Peer /\ PhoneOK /\ ChannelsOK
  BY CallbackFinds DEF LocalBinary
<1>2. \/ CloseActive("REMOTE_RECOVERY_BUFFER_FULL") \/ Become(p, <<>>)
      \/ Become(peer, <<Binary>>) /\ peer.selected = "relay"
      \/ UNCHANGED <<peer, up, events>>
      \/ ReportActiveFailure(peer)
  BY DEF LocalBinary
<1> HIDE DEF n
<1>3. Stays(peer, peer)
  BY DEF Stays, Kept, SameRole, SameLink, SameReports, SameSidecar
<1>4. p = [peer EXCEPT !.answerSent = peer.answerSent,
                !.candidates = peer.candidates, !.outgoing = peer.outgoing,
                !.frames = n, !.grace = peer.grace]
  BY <1>1 DEF Peer
<1> HIDE DEF p
<1>5. Stays(peer, p)
  BY <1>1, <1>4, CountersStay
<1>6. CASE CloseActive("REMOTE_RECOVERY_BUFFER_FULL")
  <2>1. "REMOTE_RECOVERY_BUFFER_FULL" \in Benign /\ Benign \in SUBSET Codes
    BY DEF Benign, Faults, Codes
  <2> QED
    BY <1>1, <1>6, <2>1, CloseEffect
<1>7. CASE Become(p, <<>>)
  BY <1>1, <1>5, <1>7, BecomeSends, SilentSend
<1>8. CASE Become(peer, <<Binary>>) /\ peer.selected = "relay"
  BY <1>3, <1>8, BecomeSends
<1>9. CASE UNCHANGED <<peer, up, events>>
  BY <1>9, UnchangedStays
<1>10. CASE ReportActiveFailure(peer)
  BY <1>1, <1>3, <1>10, DropOf
<1> QED
  BY <1>2, <1>6, <1>7, <1>8, <1>9, <1>10

LEMMA ClosesEffect ==
  ASSUME PhoneInv, PeerCloses
  PROVE  ClosesWith(Benign)
<1>1. PhoneOK /\ CloseActive("PEER_CLOSED")
  BY DEF PeerCloses, PhoneInv
<1>2. "PEER_CLOSED" \in Benign /\ Benign \in SUBSET Codes
  BY DEF Benign, Faults, Codes
<1> QED
  BY <1>1, <1>2, CloseEffect

-----------------------------------------------------------------------------
(* The other steps of the server.                                          *)

LEMMA EndingEffect ==
  ASSUME ServerInv, NEW s \in Sessions,
         \/ Published(s) \/ PublishFails(s) \/ CloseSession(s)
         \/ RecoveryTimeout(s) \/ DeviceEvent(s) \/ DeadSocketCloses(s)
  PROVE  /\ up' = up /\ invites' \subseteq invites
         /\ \/ halfOpen' = halfOpen
            \/ /\ halfOpen' = halfOpen \ {s}
               /\ ~(lease'[s].executing /\ "device" \in lease'[s].bound)
         /\ \/ Ends(s)
            \/ SameLeases
            \/ /\ OnlyLease(s) /\ SameChoice(s)
               /\ lease'[s].ready = lease[s].ready /\ down' = down
<1>0. ServerOK
  BY DEF ServerInv
<1>1. ASSUME Finish(s) PROVE Ends(s) \/ (SameLeases /\ ~lease[s].executing)
  BY <1>0, <1>1, FinishEffect DEF Finish
<1>2. CASE Published(s)
  <2> DEFINE x == [lease[s] EXCEPT !.publishing = FALSE]
  <2>1. lease[s] \in Lease
    BY <1>0 DEF ServerOK
  <2>2. lease' = [lease EXCEPT ![s] = x]
    BY <1>0, <1>2 DEF Published, ServerOK
  <2>3. /\ x.executing = lease[s].executing /\ x.state = lease[s].state
        /\ x.selected = lease[s].selected /\ x.timer = lease[s].timer
        /\ x.bound = lease[s].bound /\ x.ready = lease[s].ready
    BY <2>1 DEF Lease
  <2> HIDE DEF x
  <2>4. OnlyLease(s) /\ lease'[s] = x
    BY <1>0, <2>2, LeaseSet
  <2>5. SameChoice(s) /\ lease'[s].ready = lease[s].ready
    BY <2>3, <2>4 DEF SameChoice
  <2> QED
    BY <1>2, <2>4, <2>5 DEF Published
<1>3. CASE PublishFails(s)
  BY <1>1, <1>3 DEF PublishFails
<1>4. CASE CloseSession(s) \/ RecoveryTimeout(s) \/ DeviceEvent(s)
  BY <1>1, <1>4 DEF CloseSession, RecoveryTimeout, DeviceEvent
<1>5. CASE DeadSocketCloses(s)
  <2>1. up' = up /\ invites' = invites /\ halfOpen' = halfOpen \ {s}
    BY <1>5 DEF DeadSocketCloses
  <2>2. CASE "device" \in lease[s].bound
    <3>1. Finish(s)
      BY <1>5, <2>2 DEF DeadSocketCloses
    <3>2. ~lease'[s].executing
      BY <1>1, <3>1 DEF Ends, SameLeases
    <3> QED
      BY <1>1, <2>1, <3>1, <3>2
  <2>3. CASE "device" \notin lease[s].bound
    BY <1>5, <2>1, <2>3 DEF DeadSocketCloses, SameLeases
  <2> QED
    BY <2>2, <2>3
<1> QED
  BY <1>2, <1>3, <1>4, <1>5

LEMMA CreateEffect ==
  ASSUME ServerInv, NEW s \in Sessions, NEW b \in BOOLEAN, CreateSession(s, b)
  PROVE  /\ OnlyLease(s) /\ lease[s].state = "NONE"
         /\ lease'[s].executing /\ lease'[s].state = "WAITING_PEERS"
         /\ lease'[s].selected = "none" /\ lease'[s].timer = "none"
         /\ lease'[s].bound = {} /\ lease'[s].ready = {}
         /\ UNCHANGED <<up, down, halfOpen>> /\ invites' = invites \cup {s}
<1> DEFINE x == [NoLease EXCEPT !.executing = TRUE, !.state = "WAITING_PEERS",
                       !.publishing = TRUE, !.p2pAllowed = b,
                       !.p2p = IF b THEN "AVAILABLE" ELSE "DISABLED"]
<1>1. lease' = [lease EXCEPT ![s] = x] /\ lease[s].state = "NONE"
      /\ UNCHANGED <<up, down, halfOpen>> /\ invites' = invites \cup {s}
  BY DEF CreateSession
<1>2. /\ x.executing = TRUE /\ x.state = "WAITING_PEERS" /\ x.selected = "none"
      /\ x.timer = "none" /\ x.bound = {} /\ x.ready = {}
  BY DEF NoLease
<1> HIDE DEF x
<1>3. OnlyLease(s) /\ lease'[s] = x
  BY <1>1, LeaseSet DEF ServerInv
<1> QED
  BY <1>1, <1>2, <1>3

-----------------------------------------------------------------------------
(* The device socket.                                                      *)

Served(s) == peer.session = s /\ peer.version # 0
DeviceBound(s) ==
  lease[s].executing /\ "device" \in lease[s].bound /\ s \notin halfOpen

\* A hello the server has not read is that of the session the phone is in, or
\* the close of its socket follows; the socket of the session the phone is in
\* is not closed; a bound socket is that of this session, or its close is under
\* way.
SocketOf(s) ==
  LET q == up[s]["device"] IN
  /\ Served(s) \/ Ended(q)
  /\ peer.session = s => ~Holds(q, Eof)
  /\ DeviceBound(s) => Served(s) \/ Holds(q, Eof)
SocketOK == \A s \in Sessions : SocketOf(s)

\* A step of the server as the device socket of t sees it.
SocketStep(t) ==
  \/ up'[t]["device"] = up[t]["device"] /\ (DeviceBound(t)' => DeviceBound(t))
  \/ /\ Incoming(t, "device") /\ up'[t]["device"] = Tail(up[t]["device"])
     /\ DeviceBound(t)' =>
          \/ Message(t, "device").type = "hello"
          \/ Message(t, "device") # Eof /\ DeviceBound(t)

LEMMA SocketStepKeeps ==
  ASSUME ChannelsOK, NEW t \in Sessions, SocketOf(t), SocketStep(t), peer' = peer
  PROVE  SocketOf(t)'
<1> DEFINE q == up[t]["device"]
           d == up'[t]["device"]
<1>1. q \in Seq(Frames)
  BY ChannelTyped DEF ChannelsOK, Roles
<1>2. Served(t)' = Served(t)
  BY DEF Served
<1>3. /\ Served(t) \/ Ended(q)
      /\ peer.session = t => ~Holds(q, Eof)
      /\ DeviceBound(t) => Served(t) \/ Holds(q, Eof)
  BY DEF SocketOf
<1>4. SUFFICES /\ Served(t) \/ Ended(d)
               /\ peer.session = t => ~Holds(d, Eof)
               /\ DeviceBound(t)' => Served(t) \/ Holds(d, Eof)
  <2> HIDE DEF q
  <2> QED
    BY <1>2 DEF SocketOf, Holds, Ended
<1>5. CASE d = q /\ (DeviceBound(t)' => DeviceBound(t))
  BY <1>3, <1>5
<1>6. CASE /\ q # <<>> /\ d = Tail(q)
           /\ DeviceBound(t)' => \/ Head(q).type = "hello"
                                 \/ Head(q) # Eof /\ DeviceBound(t)
  <2> HIDE DEF q, d
  <2>1. Ended(q) => Ended(d) /\ (Head(q).type = "hello" => Holds(d, Eof))
    BY <1>1, <1>6, TailEnded
  <2>2. Holds(d, Eof) => Holds(q, Eof)
    BY <1>1, <1>6, TailHolds
  <2>3. Holds(q, Eof) => Head(q) = Eof \/ Holds(d, Eof)
    BY <1>1, <1>6, TailHolds
  <2> QED
    BY <1>3, <1>6, <2>1, <2>2, <2>3
<1> QED
  BY <1>5, <1>6 DEF SocketStep, Incoming, Message

\* A frame of a bound socket.
LEMMA FrameSocket ==
  ASSUME ServerInv, NEW s \in Sessions, NEW r \in Roles, NEW type,
         Frame(s, r, type), OnlyLease(s),
         \/ type # "eof" /\ lease'[s].bound = lease[s].bound
         \/ ~lease'[s].executing,
         NEW t \in Sessions
  PROVE  SocketStep(t)
<1>1. /\ lease[s].executing /\ r \in lease[s].bound /\ Reached(s, r)
      /\ Incoming(s, r) /\ Message(s, r).type = type /\ halfOpen' = halfOpen
  BY FrameEffect DEF Frame
<1>0. up' = [up EXCEPT ![s][r] = Tail(up[s][r])]
  BY DEF Frame, Taken
<1>2. up'[t]["device"] = IF t = s /\ r = "device" THEN Tail(up[t]["device"])
                                                   ELSE up[t]["device"]
  <2>1. "device" \in Roles /\ up \in Channels
    BY DEF Roles, ServerInv, ChannelsOK
  <2>2. up'[t]["device"] = IF t = s /\ "device" = r THEN Tail(up[s][r])
                                                    ELSE up[t]["device"]
    BY <1>0, <2>1, SetAt
  <2> QED
    BY <2>2
<1>3. CASE t # s
  BY <1>1, <1>2, <1>3 DEF SocketStep, DeviceBound, OnlyLease
<1>4. CASE t = s /\ r # "device"
  BY <1>1, <1>2, <1>4 DEF SocketStep, DeviceBound
<1>5. CASE t = s /\ r = "device"
  <2>1. DeviceBound(s)
    BY <1>1, <1>5 DEF DeviceBound, Reached
  <2>2. DeviceBound(s)' => Message(s, r) # Eof
    BY <1>1, FrameTypes DEF DeviceBound
  <2> QED
    BY <1>1, <1>2, <1>5, <2>1, <2>2 DEF SocketStep
<1> QED
  BY <1>3, <1>4, <1>5

LEMMA ReceivedSocket ==
  ASSUME ServerInv, NEW s \in Sessions, NEW r \in Roles,
         \/ ReceiveSignal(s, r) \/ ReceiveFailed(s, r) \/ ReceiveReady(s, r)
         \/ ReceiveTransportState(s, r) \/ PeerDisconnected(s, r)
         \/ \E slow \in BOOLEAN : ReceiveBinary(s, r, slow),
         NEW t \in Sessions
  PROVE  SocketStep(t)
<1>1. ASSUME Ends(s) PROVE OnlyLease(s) /\ ~lease'[s].executing
  BY <1>1 DEF Ends
<1>2. CASE ReceiveSignal(s, r)
  <2>1. /\ OnlyLease(s)
        /\ lease'[s].bound = lease[s].bound \/ ~lease'[s].executing
    BY <1>1, <1>2, SignalEffect DEF SameChoice
  <2> QED
    BY <1>2, <2>1, FrameSocket DEF ReceiveSignal
<1>3. CASE ReceiveFailed(s, r)
  <2>1. /\ OnlyLease(s)
        /\ lease'[s].bound = lease[s].bound \/ ~lease'[s].executing
    BY <1>1, <1>3, FailedEffect DEF SameChoice
  <2> QED
    BY <1>3, <2>1, FrameSocket DEF ReceiveFailed
<1>4. CASE ReceiveReady(s, r)
  <2>1. /\ OnlyLease(s)
        /\ lease'[s].bound = lease[s].bound \/ ~lease'[s].executing
    BY <1>1, <1>4, ReadyEffect DEF SameChoice
  <2> QED
    BY <1>4, <2>1, FrameSocket DEF ReceiveReady
<1>5. CASE ReceiveTransportState(s, r)
  <2>1. /\ OnlyLease(s)
        /\ lease'[s].bound = lease[s].bound \/ ~lease'[s].executing
    BY <1>1, <1>5, TransportEffect DEF SameChoice
  <2> QED
    BY <1>5, <2>1, FrameSocket DEF ReceiveTransportState
<1>6. CASE PeerDisconnected(s, r)
  <2>1. OnlyLease(s) /\ ~lease'[s].executing
    BY <1>1, <1>6, EofEffect
  <2> QED
    BY <1>6, <2>1, FrameSocket DEF PeerDisconnected
<1>7. ASSUME NEW slow \in BOOLEAN, ReceiveBinary(s, r, slow) PROVE SocketStep(t)
  <2>1. /\ OnlyLease(s)
        /\ lease'[s].bound = lease[s].bound \/ ~lease'[s].executing
    BY <1>1, <1>7, BinaryEffect DEF SameChoice
  <2> QED
    BY <1>7, <2>1, FrameSocket DEF ReceiveBinary
<1> QED
  BY <1>2, <1>3, <1>4, <1>5, <1>6, <1>7

LEMMA HelloSocket ==
  ASSUME ServerInv, NEW s \in Sessions, NEW r \in Roles,
         BindHello(s, r) \/ RefuseHello(s, r) \/ Ignored(s, r),
         NEW t \in Sessions
  PROVE  SocketStep(t)
<1>1. /\ Incoming(s, r) /\ up' = [up EXCEPT ![s][r] = Tail(up[s][r])]
      /\ halfOpen' = halfOpen
  BY DEF BindHello, RefuseHello, Ignored, Taken
<1>2. up'[t]["device"] = IF t = s /\ r = "device" THEN Tail(up[t]["device"])
                                                   ELSE up[t]["device"]
  <2>1. "device" \in Roles /\ up \in Channels
    BY DEF Roles, ServerInv, ChannelsOK
  <2>2. up'[t]["device"] = IF t = s /\ "device" = r THEN Tail(up[s][r])
                                                    ELSE up[t]["device"]
    BY <1>1, <2>1, SetAt
  <2> QED
    BY <2>2
<1>3. CASE BindHello(s, r)
  <2>1. /\ OnlyLease(s) /\ lease[s].executing
        /\ lease'[s].bound = lease[s].bound \cup {r}
        /\ Message(s, r).type = "hello"
    BY <1>3, BindEffect
  <2>2. CASE t # s
    BY <1>1, <1>2, <2>1, <2>2 DEF SocketStep, DeviceBound, OnlyLease
  <2>3. CASE t = s /\ r # "device"
    BY <1>1, <1>2, <2>1, <2>3 DEF SocketStep, DeviceBound
  <2>4. CASE t = s /\ r = "device"
    BY <1>1, <1>2, <2>1, <2>4 DEF SocketStep
  <2> QED
    BY <2>2, <2>3, <2>4
<1>4. CASE RefuseHello(s, r)
  <2>1. lease' = lease /\ Message(s, r).type = "hello"
    BY <1>4 DEF RefuseHello
  <2> QED
    BY <1>1, <1>2, <2>1 DEF SocketStep, DeviceBound
<1>5. CASE Ignored(s, r)
  <2>1. /\ lease' = lease
        /\ ~lease[s].executing \/ r \notin lease[s].bound \/ ~Reached(s, r)
    BY <1>5 DEF Ignored
  <2>2. r = "device" => ~DeviceBound(s)
    BY <2>1 DEF DeviceBound, Reached
  <2>3. DeviceBound(t)' <=> DeviceBound(t)
    BY <1>1, <2>1 DEF DeviceBound
  <2> QED
    BY <1>1, <1>2, <2>2, <2>3 DEF SocketStep
<1> QED
  BY <1>3, <1>4, <1>5

LEMMA LifeSocket ==
  ASSUME ServerInv, NEW s \in Sessions,
         \/ \E b \in BOOLEAN : CreateSession(s, b)
         \/ Published(s) \/ PublishFails(s) \/ CloseSession(s)
         \/ NegotiationTimeout(s) \/ RecoveryTimeout(s)
         \/ DeviceEvent(s) \/ DeadSocketCloses(s),
         NEW t \in Sessions
  PROVE  SocketStep(t)
<1>1. ASSUME NEW b \in BOOLEAN, CreateSession(s, b) PROVE SocketStep(t)
  <2>1. OnlyLease(s) /\ lease'[s].bound = {} /\ UNCHANGED <<up, halfOpen>>
    BY <1>1, CreateEffect
  <2> QED
    BY <2>1 DEF SocketStep, DeviceBound, OnlyLease
<1>2. CASE NegotiationTimeout(s)
  <2>1. /\ OnlyLease(s) /\ lease'[s].bound = lease[s].bound
        /\ lease'[s].executing = lease[s].executing /\ UNCHANGED <<up, halfOpen>>
    BY <1>2, TimeoutEffect DEF Becomes
  <2> QED
    BY <2>1 DEF SocketStep, DeviceBound, OnlyLease
<1>3. CASE \/ Published(s) \/ PublishFails(s) \/ CloseSession(s)
           \/ RecoveryTimeout(s) \/ DeviceEvent(s) \/ DeadSocketCloses(s)
  <2>1. /\ up' = up
        /\ \/ halfOpen' = halfOpen
           \/ /\ halfOpen' = halfOpen \ {s}
              /\ ~(lease'[s].executing /\ "device" \in lease'[s].bound)
    BY <1>3, EndingEffect
  <2>2. /\ OnlyLease(s)
        /\ \/ lease'[s].bound = lease[s].bound
              /\ lease'[s].executing = lease[s].executing
           \/ ~lease'[s].executing
    <3>1. \/ Ends(s) \/ SameLeases
          \/ OnlyLease(s) /\ SameChoice(s)
      BY <1>3, EndingEffect
    <3> QED
      BY <3>1 DEF Ends, SameLeases, SameChoice, OnlyLease
  <2> QED
    BY <2>1, <2>2 DEF SocketStep, DeviceBound, OnlyLease
<1> QED
  BY <1>1, <1>2, <1>3

LEMMA ServerSocket ==
  ASSUME ServerInv, ServerStep, SocketOK
  PROVE  SocketOK'
<1>1. ASSUME NEW t \in Sessions PROVE SocketStep(t)
  <2>1. PICK s \in Sessions :
          \/ \E p2pAllowed \in Preferences : CreateSession(s, p2pAllowed)
          \/ Published(s) \/ PublishFails(s) \/ CloseSession(s)
          \/ NegotiationTimeout(s) \/ RecoveryTimeout(s)
          \/ DeviceEvent(s) \/ DeadSocketCloses(s)
          \/ \E r \in Roles : ReceiveFrame(s, r) \/ RefuseHello(s, r)
    BY DEF ServerStep
  <2>2. CASE \E r \in Roles : ReceiveFrame(s, r) \/ RefuseHello(s, r)
    <3>1. PICK r \in Roles : ReceiveFrame(s, r) \/ RefuseHello(s, r)
      BY <2>2
    <3>2. HelloInvalid(s, r) => RefuseHello(s, r)
      BY DEF HelloInvalid
    <3> QED
      BY <1>1, <3>1, <3>2, ReceivedSocket, HelloSocket DEF ReceiveFrame
  <2>3. Preferences \subseteq BOOLEAN
    BY RelayAssumption
  <2> QED
    BY <1>1, <2>1, <2>2, <2>3, LifeSocket
<1>2. peer' = peer /\ ChannelsOK
  BY DEF ServerStep, peerVars, ServerInv
<1> QED
  BY <1>1, <1>2, SocketStepKeeps DEF SocketOK

\* The phone is on the relay, or has been told to go there.
ToRelay ==
  \/ peer.selected = "relay"
  \/ \E m \in {Ready("relay"), Transport("ready")} :
       Holds(down[peer.session]["device"], m)
InSession(ms) ==
  \A i \in DOMAIN ms :
    ms[i].type \notin {"hello", "eof"} /\ (ms[i] = Binary => ToRelay)
PhoneHears ==
  \/ down' = down
  \/ /\ peer.session \in Sessions /\ down[peer.session]["device"] # <<>>
     /\ down' = [down EXCEPT ![peer.session]["device"] =
                      Tail(down[peer.session]["device"])]

\* A step of the phone within a session: no hello, no end.
PhoneCalm ==
  /\ peer'.session = peer.session /\ peer'.version = peer.version
  /\ UNCHANGED <<lease, halfOpen>> /\ invites' \subseteq invites
  /\ PhoneHears
  /\ ~peer'.closed => ~peer.closed /\ (peer'.selected = "relay" => ToRelay)
  /\ \/ Silent
     \/ /\ peer.session \in Sessions /\ ~peer.closed
        /\ \E ms \in Seq(Frames) : Sends(ms) /\ InSession(ms)

LEMMA OneSent ==
  ASSUME NEW m \in Frames, Sends(<<m>>), m.type \notin {"hello", "eof"},
         m = Binary => ToRelay
  PROVE  \E ms \in Seq(Frames) : Sends(ms) /\ InSession(ms)
<1>1. <<m>> \in Seq(Frames) /\ \A i \in DOMAIN <<m>> : <<m>>[i] = m
  OBVIOUS
<1>2. PICK ms : ms = <<m>>
  OBVIOUS
<1> QED
  BY <1>1, <1>2 DEF InSession

LEMMA FailureSent ==
  ASSUME TellsFailure
  PROVE  \E ms \in Seq(Frames) : Sends(ms) /\ InSession(ms)
<1>1. PICK n \in Nat : Sends(<<P2PState("failed", n)>>)
  BY DEF TellsFailure
<1>2. P2PState("failed", n) \in Frames /\ P2PState("failed", n).type = "state"
  BY FramesBuilt, FrameTypes
<1> QED
  BY <1>1, <1>2, FrameTypes, OneSent

LEMMA ConcatSocket ==
  ASSUME NEW q \in Seq(Frames), NEW ms \in Seq(Frames),
         \A i \in DOMAIN ms : ms[i].type \notin {"hello", "eof"}
  PROVE  /\ Ended(q) => Ended(q \o ms)
         /\ Holds(q \o ms, Eof) <=> Holds(q, Eof)
<1>1. ~Holds(ms, Eof)
  BY FrameTypes DEF Holds
<1> QED
  BY <1>1, ConcatEnded, ConcatHolds

LEMMA CalmKeeps ==
  ASSUME ChannelsOK, PhoneCalm, NEW t \in Sessions, SocketOf(t)
  PROVE  SocketOf(t)'
<1> DEFINE q == up[t]["device"]
           d == up'[t]["device"]
<1>1. q \in Seq(Frames) /\ up \in Channels /\ "device" \in Roles
  BY ChannelTyped DEF ChannelsOK, Roles
<1>2. (Served(t)' <=> Served(t)) /\ (DeviceBound(t)' <=> DeviceBound(t))
      /\ peer'.session = peer.session
  BY DEF Served, DeviceBound, PhoneCalm
<1>3. (Ended(q) => Ended(d)) /\ (Holds(d, Eof) <=> Holds(q, Eof))
  <2>1. CASE Silent
    BY <2>1 DEF Silent
  <2>2. ASSUME peer.session \in Sessions, NEW ms \in Seq(Frames), Sends(ms),
               \A i \in DOMAIN ms : ms[i].type \notin {"hello", "eof"}
        PROVE  (Ended(q) => Ended(d)) /\ (Holds(d, Eof) <=> Holds(q, Eof))
    <3>1. up' = [up EXCEPT ![peer.session]["device"] =
                              up[peer.session]["device"] \o ms]
      BY <2>2 DEF Sends
    <3>2. d = IF t = peer.session THEN up[peer.session]["device"] \o ms ELSE q
      BY <1>1, <2>2, <3>1 DEF Channels
    <3>3. CASE t = peer.session
      <4>1. d = q \o ms
        BY <3>2, <3>3
      <4> HIDE DEF q, d
      <4> QED
        BY <1>1, <2>2, <4>1, ConcatSocket
    <3> QED
      BY <3>2, <3>3
  <2> QED
    BY <2>1, <2>2 DEF PhoneCalm, InSession
<1>4. /\ Served(t) \/ Ended(q)
      /\ peer.session = t => ~Holds(q, Eof)
      /\ DeviceBound(t) => Served(t) \/ Holds(q, Eof)
  BY DEF SocketOf
<1>5. /\ Served(t)' \/ Ended(d)
      /\ peer'.session = t => ~Holds(d, Eof)
      /\ DeviceBound(t)' => Served(t)' \/ Holds(d, Eof)
  BY <1>2, <1>3, <1>4
<1> QED
  BY <1>5 DEF SocketOf, Ended, Holds

-----------------------------------------------------------------------------

LEMMA MovesAreCalm ==
  ASSUME PhoneInv, peer.session \in Sessions, ~peer.closed, PhoneHears,
         UNCHANGED <<lease, halfOpen, invites>>,
         \/ \E codes \in SUBSET Codes : ClosesWith(codes)
         \/ /\ Kept(peer, peer') /\ (peer'.selected = "relay" => ToRelay)
            /\ \/ Silent \/ TellsFailure
               \/ \E ms \in Seq(Frames) : Sends(ms) /\ InSession(ms)
  PROVE  PhoneCalm
  BY FailureSent DEF PhoneCalm, ClosesWith, Kept, Silent

\* Only two handlers take the phone to the relay.
LEMMA MovesStay ==
  ASSUME NEW p, NEW q, NEW t,
         \/ Stays(p, q) \/ Fails(p, q) \/ Drops(p, q) \/ Starts(p, q)
         \/ Awaits(p, q) \/ Recovers(p, q)
         \/ Opens(p, q) \/ Announces(p, q) \/ Buffers(p, q, t)
  PROVE  /\ Kept(p, q) /\ (q.selected = "relay" => p.selected = "relay")
  BY DEF Stays, Fails, Drops, Starts, Awaits, Recovers,
         Opens, Announces, Buffers, SameRole

LEMMA RelayFrameCalm ==
  ASSUME PhoneInv, HandleRelayFrame
  PROVE  PhoneCalm
<1>0. /\ Faults \in SUBSET Codes /\ Benign \in SUBSET Codes
  BY DEF Benign, Codes
<1>1. /\ peer.session \in Sessions /\ ~peer.closed
      /\ PhoneHears /\ UNCHANGED <<lease, halfOpen, invites>>
  <2>1. PICK type : RelayFrame(type)
    BY DEF HandleRelayFrame, StartP2P, HandleP2PSignal, SelectInitialTransport,
           RecoveryBegins, RecoveryCommits, RelayBinary, RelayCloses
  <2> QED
    BY <2>1, RelayFrameTaken DEF RelayFrame, Running, PhoneHears, others
<1>11. ASSUME peer.selected = "relay" PROVE ToRelay
  BY <1>11 DEF ToRelay
<1> DEFINE d == down[peer.session]["device"]
<1>12. ASSUME NEW m \in {Ready("relay"), Transport("ready")}, d # <<>>,
              Head(d) = m
       PROVE  ToRelay
  <2>1. d \in Seq(Frames)
    BY <1>1, ChannelTyped DEF PhoneInv, ChannelsOK, Roles
  <2>2. Holds(d, m)
    BY <1>12, <2>1, TailAt DEF Holds
  <2> QED
    BY <1>12, <2>2 DEF ToRelay
<1>2. ASSUME NEW works \in BOOLEAN, StartP2P(works) PROVE PhoneCalm
  BY <1>0, <1>1, <1>2, <1>11, StartEffect, MovesAreCalm, MovesStay
<1>3. ASSUME NEW works \in BOOLEAN, HandleP2PSignal(works) PROVE PhoneCalm
  BY <1>0, <1>1, <1>3, <1>11, SignalHandled, MovesAreCalm, MovesStay
<1>4. CASE SelectInitialTransport
  <2> DEFINE m == Head(d)
  <2>1. d # <<>> /\ m \in Frames /\ m.type = "ready"
    BY <1>4, RelayFrameTaken DEF SelectInitialTransport, RelayFrame
  <2>2. m.transport = "relay" => ToRelay
    BY <1>12, <2>1, FrameIs
  <2> HIDE DEF m, d
  <2>3. ASSUME Selects(peer, peer', m.transport), Silent PROVE PhoneCalm
    <3>1. Kept(peer, peer') /\ peer'.selected = m.transport
      BY <2>3 DEF Selects
    <3> QED
      BY <1>1, <2>2, <2>3, <3>1, MovesAreCalm
  <2> QED
    BY <1>0, <1>1, <1>4, <1>11, <2>3, SelectEffect, MovesAreCalm, MovesStay DEF m, d
<1>5. CASE RecoveryBegins
  BY <1>0, <1>1, <1>5, <1>11, RecoveryEffect, MovesAreCalm, MovesStay
<1>6. CASE RecoveryCommits
  <2>1. ASSUME NEW ms \in Seq(Frames), Sends(ms), \A i \in DOMAIN ms : ms[i] = Binary,
               Commits(peer, peer')
        PROVE  PhoneCalm
    <3>1. /\ d # <<>> /\ Head(d) \in Frames
          /\ Head(d).type = "transport" /\ Head(d).phase = "ready"
      BY <1>6, RelayFrameTaken DEF RecoveryCommits, RelayFrame
    <3>2. ToRelay
      BY <1>12, <3>1, FrameIs
    <3>3. InSession(ms)
      BY <2>1, <3>2, FrameTypes DEF InSession
    <3>4. Kept(peer, peer')
      BY <2>1 DEF Commits
    <3> QED
      BY <1>1, <2>1, <3>2, <3>3, <3>4, MovesAreCalm
  <2> QED
    BY <1>0, <1>1, <1>6, <2>1, CommitEffect, MovesAreCalm
<1>7. CASE RelayBinary
  BY <1>0, <1>1, <1>7, <1>11, RelayBinaryEffect, MovesAreCalm, MovesStay
<1>8. CASE RelayCloses
  BY <1>0, <1>1, <1>8, RelayClosesEffect, MovesAreCalm
<1> QED
  BY <1>2, <1>3, <1>4, <1>5, <1>6, <1>7, <1>8 DEF HandleRelayFrame

LEMMA CallbackCalm ==
  ASSUME PhoneInv,
         \/ LocalDescription \/ LocalCandidate \/ SidecarReady
         \/ SidecarDisconnected \/ SidecarFails \/ GraceEnds \/ SidecarBinary
         \/ LocalOpens \/ PeerCloses
         \/ \E sends \in BOOLEAN : LocalBinary(sends)
  PROVE  PhoneCalm
<1>0. /\ Faults \in SUBSET Codes /\ Benign \in SUBSET Codes
  BY DEF Benign, Codes
<1>1. /\ peer.session \in Sessions /\ ~peer.closed
      /\ PhoneHears /\ UNCHANGED <<lease, halfOpen, invites>>
  BY CallbackFinds
  DEF LocalDescription, LocalCandidate, SidecarReady, SidecarDisconnected,
      SidecarFails, GraceEnds, SidecarBinary, LocalOpens, PeerCloses,
      LocalBinary, Sidecar, others, Running, PhoneHears
<1>11. ASSUME peer.selected = "relay" PROVE ToRelay
  BY <1>11 DEF ToRelay
<1>2. CASE LocalDescription
  <2>1. PICK ms \in Seq(Frames) :
          Sends(ms) /\ \A i \in DOMAIN ms : ms[i].type = "signal"
    BY <1>2, DescriptionEffect
  <2>2. InSession(ms)
    BY <2>1, FrameTypes DEF InSession
  <2> QED
    BY <1>1, <1>2, <1>11, <2>1, <2>2, DescriptionEffect, MovesAreCalm, MovesStay
<1>3. CASE LocalCandidate
  <2>1. ASSUME NEW n \in Nat, Sends(<<Signal("ice-candidate", n)>>),
               Stays(peer, peer')
        PROVE  PhoneCalm
    <3>1. /\ Signal("ice-candidate", n) \in Frames
          /\ Signal("ice-candidate", n).type = "signal"
      BY FramesBuilt, FrameTypes DEF SignalKinds
    <3>2. \E ms \in Seq(Frames) : Sends(ms) /\ InSession(ms)
      BY <2>1, <3>1, FrameTypes, OneSent
    <3>3. Kept(peer, peer') /\ (peer'.selected = "relay" => ToRelay)
      BY <1>11, <2>1, MovesStay
    <3> QED
      BY <1>1, <3>2, <3>3, MovesAreCalm
  <2> QED
    BY <1>0, <1>1, <1>3, <1>11, <2>1, CandidateEffect, MovesAreCalm, MovesStay
<1>4. CASE SidecarReady
  <2>1. ASSUME NEW n \in Nat, Sends(<<P2PState("ready", n)>>),
               Announces(peer, peer')
        PROVE  PhoneCalm
    <3>1. P2PState("ready", n) \in Frames /\ P2PState("ready", n).type = "state"
      BY FramesBuilt, FrameTypes
    <3>2. \E ms \in Seq(Frames) : Sends(ms) /\ InSession(ms)
      BY <2>1, <3>1, FrameTypes, OneSent
    <3>3. Kept(peer, peer') /\ (peer'.selected = "relay" => ToRelay)
      BY <1>11, <2>1, MovesStay
    <3> QED
      BY <1>1, <3>2, <3>3, MovesAreCalm
  <2> QED
    BY <1>0, <1>1, <1>4, <1>11, <2>1, ReadyCallbackEffect, MovesAreCalm, MovesStay
<1>5. CASE SidecarDisconnected \/ SidecarFails \/ GraceEnds
  BY <1>0, <1>1, <1>5, <1>11, FailureCallbackEffect, MovesAreCalm, MovesStay
<1>6. CASE SidecarBinary
  BY <1>0, <1>1, <1>6, <1>11, SidecarBinaryEffect, MovesAreCalm, MovesStay
<1>7. CASE LocalOpens
  <2>1. ASSUME Sends(<<TransportReady>>), Opens(peer, peer')
        PROVE  PhoneCalm
    <3>1. TransportReady \in Frames /\ TransportReady.type = "transport.state"
      BY FramesBuilt, FrameTypes
    <3>2. \E ms \in Seq(Frames) : Sends(ms) /\ InSession(ms)
      BY <2>1, <3>1, FrameTypes, OneSent
    <3>3. Kept(peer, peer') /\ (peer'.selected = "relay" => ToRelay)
      BY <1>11, <2>1, MovesStay
    <3> QED
      BY <1>1, <3>2, <3>3, MovesAreCalm
  <2> QED
    BY <1>0, <1>1, <1>7, <1>11, <2>1, OpensEffect, MovesAreCalm, MovesStay
<1>8. CASE PeerCloses
  BY <1>0, <1>1, <1>8, <1>11, ClosesEffect, MovesAreCalm
<1>9. ASSUME NEW sends \in BOOLEAN, LocalBinary(sends) PROVE PhoneCalm
  <2>1. ASSUME Sends(<<Binary>>), Stays(peer, peer'), peer.selected = "relay"
        PROVE  PhoneCalm
    <3>1. Binary \in Frames /\ Binary.type = "binary"
      BY FramesBuilt, FrameTypes
    <3>2. \E ms \in Seq(Frames) : Sends(ms) /\ InSession(ms)
      BY <1>11, <2>1, <3>1, OneSent
    <3>3. Kept(peer, peer') /\ (peer'.selected = "relay" => ToRelay)
      BY <1>11, <2>1, MovesStay
    <3> QED
      BY <1>1, <3>2, <3>3, MovesAreCalm
  <2> QED
    BY <1>0, <1>1, <1>9, <1>11, <2>1, LocalBinaryEffect, MovesAreCalm, MovesStay
<1> QED
  BY <1>2, <1>3, <1>4, <1>5, <1>6, <1>7, <1>8, <1>9

-----------------------------------------------------------------------------
(* The beginning and the end of a session.                                 *)

LEMMA AcceptSocket ==
  ASSUME PhoneInv, NEW s \in Sessions, AcceptInvitation(s), SocketOK
  PROVE  SocketOK'
<1>1. SUFFICES ASSUME NEW t \in Sessions PROVE SocketOf(t)'
  BY DEF SocketOK
<1>2. /\ peer.session = NoSession /\ peer' = Fresh(s)
      /\ UNCHANGED <<lease, halfOpen, up>>
      /\ ~Holds(up[s]["device"], Eof)
  BY DEF AcceptInvitation, Invited, Holds
<1>3. peer'.session = s /\ NoSession \notin Sessions
  BY <1>2, RelayAssumption DEF Fresh
<1>4. SocketOf(t) /\ ~Served(t)
  BY <1>2, <1>3 DEF SocketOK, Served
<1>5. DeviceBound(t)' <=> DeviceBound(t)
  BY <1>2 DEF DeviceBound
<1>6. /\ Ended(up[t]["device"])
      /\ peer'.session = t => ~Holds(up[t]["device"], Eof)
      /\ DeviceBound(t) => Holds(up[t]["device"], Eof)
  BY <1>2, <1>3, <1>4 DEF SocketOf
<1>7. up' = up
  BY <1>2
<1>8. /\ Ended(up[t]["device"])'
      /\ peer'.session = t => ~Holds(up[t]["device"], Eof)'
      /\ DeviceBound(t)' => Holds(up[t]["device"], Eof)'
  BY <1>5, <1>6, <1>7 DEF Ended, Holds
<1> QED
  BY <1>8 DEF SocketOf

LEMMA RelayOpensSocket ==
  ASSUME PhoneInv, RelayOpens, SocketOK
  PROVE  SocketOK'
<1>1. SUFFICES ASSUME NEW t \in Sessions PROVE SocketOf(t)'
  BY DEF SocketOK
<1>2. peer.session \in Sessions /\ peer \in Peer /\ up \in Channels
      /\ "device" \in Roles
  BY CallbackFinds DEF RelayOpens, ChannelsOK, Roles
<1>3. PICK v \in Versions : Become([peer EXCEPT !.version = v], <<Hello(v)>>)
  BY DEF RelayOpens
<1>4. v \in {1, 2} /\ Hello(v) \in Frames
  BY RelayAssumption, FramesBuilt
<1>5. peer'.session = peer.session /\ peer'.version = v
      /\ UNCHANGED <<lease, halfOpen>>
  BY <1>2, <1>3 DEF Become, Peer, RelayOpens, others
<1>6. up' = [up EXCEPT ![peer.session]["device"] =
                 up[peer.session]["device"] \o <<Hello(v)>>]
  BY <1>3 DEF Become
<1>7. up'[t]["device"] = IF t = peer.session
                           THEN up[peer.session]["device"] \o <<Hello(v)>>
                           ELSE up[t]["device"]
  BY <1>2, <1>6 DEF Channels
<1>8. SocketOf(t) /\ (DeviceBound(t)' <=> DeviceBound(t))
  BY <1>5 DEF SocketOK, DeviceBound
<1>9. CASE t # peer.session
  <2>1. up'[t]["device"] = up[t]["device"]
    BY <1>7, <1>9
  <2>2. ~Served(t) /\ ~Served(t)' /\ peer.session # t /\ peer'.session # t
    BY <1>5, <1>9 DEF Served
  <2> QED
    BY <1>8, <2>1, <2>2 DEF SocketOf, Ended, Holds
<1>10. CASE t = peer.session
  <2>1. up[t]["device"] \in Seq(Frames) /\ <<Hello(v)>> \in Seq(Frames)
    BY <1>2, <1>4, ChannelTyped, ShortSequences
  <2>2. ~Holds(<<Hello(v)>>, Eof)
    BY ShortHolds, FrameTypes
  <2>3. ~Holds(up[t]["device"], Eof)
    BY <1>8, <1>10 DEF SocketOf
  <2>4. ~Holds(up'[t]["device"], Eof)
    <3>1. ~Holds(up[t]["device"] \o <<Hello(v)>>, Eof)
      BY <2>1, <2>2, <2>3, ConcatHolds
    <3> QED
      BY <1>7, <1>10, <3>1
  <2>5. Served(t)'
    BY <1>4, <1>5, <1>10 DEF Served
  <2> QED
    BY <2>4, <2>5 DEF SocketOf, Holds
<1> QED
  BY <1>9, <1>10

LEMMA TeardownSocket ==
  ASSUME PhoneInv, Teardown, SocketOK
  PROVE  SocketOK'
<1>1. SUFFICES ASSUME NEW t \in Sessions PROVE SocketOf(t)'
  BY DEF SocketOK
<1>2. /\ peer.session \in Sessions /\ up \in Channels /\ "device" \in Roles
      /\ peer' = Idle /\ UNCHANGED <<lease, halfOpen>>
  BY DEF Teardown, PhoneInv, PhoneOK, ChannelsOK, Peer, Roles, others
<1>3. peer'.session = NoSession /\ NoSession \notin Sessions
  BY <1>2, RelayAssumption DEF Idle, Fresh
<1>4. SocketOf(t) /\ (DeviceBound(t)' <=> DeviceBound(t)) /\ peer'.session # t
  BY <1>2, <1>3 DEF SocketOK, DeviceBound
<1>5. CASE peer.version = 0 \/ t # peer.session
  <2>1. ~Served(t)
    BY <1>5 DEF Served
  <2>2. up'[t]["device"] = up[t]["device"]
    <3>1. CASE peer.version = 0
      BY <3>1 DEF Teardown
    <3>2. CASE peer.version # 0
      <4>1. up' = [up EXCEPT ![peer.session]["device"] =
                       Append(up[peer.session]["device"], Eof)]
        BY <3>2 DEF Teardown
      <4> QED
        BY <1>2, <1>5, <3>2, <4>1, SetAt
    <3> QED
      BY <3>1, <3>2
  <2>3. /\ Ended(up[t]["device"])
        /\ DeviceBound(t) => Holds(up[t]["device"], Eof)
    BY <1>4, <2>1 DEF SocketOf
  <2>4. /\ Ended(up'[t]["device"])
        /\ DeviceBound(t)' => Holds(up'[t]["device"], Eof)
    BY <1>4, <2>2, <2>3
  <2> QED
    BY <1>4, <2>4 DEF SocketOf, Ended, Holds
<1>6. CASE peer.version # 0 /\ t = peer.session
  <2>1. up' = [up EXCEPT ![peer.session]["device"] =
                   Append(up[peer.session]["device"], Eof)]
    BY <1>6 DEF Teardown
  <2>2. up'[t]["device"] = Append(up[t]["device"], Eof)
    BY <1>2, <1>6, <2>1 DEF Channels
  <2>3. up[t]["device"] \in Seq(Frames)
    BY <1>2, ChannelTyped
  <2>4. Ended(up'[t]["device"]) /\ Holds(up'[t]["device"], Eof)
    BY <2>2, <2>3, EofEnds
  <2> QED
    BY <1>4, <2>4 DEF SocketOf, Ended, Holds
<1> QED
  BY <1>5, <1>6

LEMMA CrashSocket ==
  ASSUME PhoneInv, Crash, SocketOK
  PROVE  SocketOK'
<1>1. SUFFICES ASSUME NEW t \in Sessions PROVE SocketOf(t)'
  BY DEF SocketOK
<1>2. /\ up \in Channels /\ "device" \in Roles
      /\ peer.session \in Sessions \cup {NoSession}
      /\ peer' = Idle /\ lease' = lease
  BY DEF Crash, PhoneInv, PhoneOK, ChannelsOK, Peer, Roles
<1>3. peer'.session = NoSession /\ NoSession \notin Sessions /\ peer'.session # t
  BY <1>2, RelayAssumption DEF Idle, Fresh
<1>4. SocketOf(t)
  BY DEF SocketOK
<1>5. CASE t # peer.session
  <2>1. ~Served(t)
    BY <1>5 DEF Served
  <2>2. up'[t]["device"] = up[t]["device"]
    <3>1. CASE peer.session = NoSession
      BY <3>1 DEF Crash
    <3>2. CASE peer.session # NoSession
      <4>1. up' = [up EXCEPT ![peer.session]["device"] = <<>>]
        BY <3>2 DEF Crash
      <4> QED
        BY <1>2, <1>5, <3>2, <4>1, SetAt
    <3> QED
      BY <3>1, <3>2
  <2>3. DeviceBound(t)' => DeviceBound(t)
    BY <1>2 DEF Crash, DeviceBound
  <2>4. /\ Ended(up[t]["device"])
        /\ DeviceBound(t) => Holds(up[t]["device"], Eof)
    BY <1>4, <2>1 DEF SocketOf
  <2>5. /\ Ended(up'[t]["device"])
        /\ DeviceBound(t)' => Holds(up'[t]["device"], Eof)
    BY <2>2, <2>3, <2>4
  <2> QED
    BY <1>3, <2>5 DEF SocketOf, Ended, Holds
<1>6. CASE t = peer.session
  <2>1. /\ up' = [up EXCEPT ![peer.session]["device"] = <<>>]
        /\ halfOpen' = IF "device" \in lease[peer.session].bound
                         THEN halfOpen \cup {peer.session} ELSE halfOpen
    BY <1>3, <1>6 DEF Crash
  <2>2. up'[t]["device"] = <<>>
    BY <1>2, <1>6, <2>1 DEF Channels
  <2>3. ~DeviceBound(t)'
    BY <1>2, <1>6, <2>1 DEF DeviceBound
  <2>4. Ended(up'[t]["device"])
    BY <2>2 DEF Ended
  <2> QED
    BY <1>3, <2>3, <2>4 DEF SocketOf, Ended, Holds
<1> QED
  BY <1>5, <1>6

LEMMA PhoneSteps ==
  ASSUME PhoneInv, PeerStep
  PROVE  \/ PhoneCalm \/ RelayOpens \/ Teardown \/ Crash
         \/ \E s \in Sessions : AcceptInvitation(s)
<1>1. ASSUME NEW s \in Sessions,
             DropInvitation(s) \/ RejectInvitation(s) \/ EventLost(s)
      PROVE  PhoneCalm
  BY <1>1
  DEF DropInvitation, RejectInvitation, EventLost, Invited, PhoneCalm, Silent,
      others, PhoneHears, ToRelay
<1>2. CASE HandleRelayFrame
  BY <1>2, RelayFrameCalm
<1>3. CASE \/ LocalDescription \/ LocalCandidate \/ OpenChannel
           \/ SidecarDisconnected \/ SidecarFails \/ GraceEnds \/ SidecarBinary
           \/ LocalOpens \/ PeerCloses
           \/ \E sends \in BOOLEAN : LocalBinary(sends)
  BY <1>3, CallbackCalm DEF OpenChannel
<1> QED
  BY <1>1, <1>2, <1>3 DEF PeerStep

LEMMA PhoneSocket ==
  ASSUME PhoneInv, PeerStep, SocketOK
  PROVE  SocketOK'
<1>1. CASE PhoneCalm
  BY <1>1, CalmKeeps DEF PhoneInv, SocketOK
<1>2. ASSUME NEW s \in Sessions, AcceptInvitation(s) PROVE SocketOK'
  BY <1>2, AcceptSocket
<1>3. CASE RelayOpens
  BY <1>3, RelayOpensSocket
<1>4. CASE Teardown
  BY <1>4, TeardownSocket
<1>5. CASE Crash
  BY <1>5, CrashSocket
<1> QED
  BY <1>1, <1>2, <1>3, <1>4, <1>5, PhoneSteps

LEMMA BrowserSocket ==
  ASSUME ChannelsOK, NEW s \in Sessions, BrowserStep(s), SocketOK
  PROVE  SocketOK'
<1>1. SUFFICES ASSUME NEW t \in Sessions PROVE SocketOf(t)'
  BY DEF SocketOK
<1>2. PICK b, ms : BrowserSends(s, b, ms)
  BY DEF BrowserStep, BrowserConnects, BrowserLeaves, BrowserReceives,
     BrowserOffers, BrowserCandidate, BrowserReady, BrowserFails, BrowserControls
<1>3. /\ up' = [up EXCEPT ![s]["controller"] = up[s]["controller"] \o ms]
      /\ UNCHANGED <<lease, halfOpen, peer>>
  BY <1>2 DEF BrowserSends
<1>4. up'[t]["device"] = up[t]["device"]
  BY <1>3, SetAt DEF ChannelsOK, Roles
<1>5. SocketOf(t) /\ (Served(t)' <=> Served(t)) /\ (DeviceBound(t)' <=> DeviceBound(t))
  BY <1>3 DEF SocketOK, Served, DeviceBound
<1> QED
  BY <1>3, <1>4, <1>5 DEF SocketOf, Ended, Holds

LEMMA StepSocket ==
  ASSUME IInv, SocketOK, [Next]_vars
  PROVE  SocketOK'
<1>1. ServerInv /\ PhoneInv /\ ChannelsOK
  BY TypeParts DEF IInv, ServerInv, PhoneInv
<1>2. CASE ServerStep
  BY <1>1, <1>2, ServerSocket
<1>3. CASE PeerStep
  BY <1>1, <1>3, PhoneSocket
<1>4. ASSUME NEW s \in Sessions, BrowserStep(s) PROVE SocketOK'
  BY <1>1, <1>4, BrowserSocket
<1>5. CASE UNCHANGED vars
  BY <1>5
  DEF vars, relayVars, peerVars, SocketOK, SocketOf, Served, DeviceBound,
      Ended, Holds
<1> QED
  BY <1>2, <1>3, <1>4, <1>5 DEF Next

LEMMA InitSocket == Init => SocketOK
<1>1. SUFFICES ASSUME Init, NEW t \in Sessions PROVE SocketOf(t)
  BY DEF SocketOK
<1>2. lease[t] = NoLease /\ up[t]["device"] = <<>>
  BY <1>1 DEF Init, RelayInit, NoMessages, Roles
<1>3. ~DeviceBound(t) /\ Ended(up[t]["device"])
  BY <1>2 DEF DeviceBound, NoLease, Ended
<1>4. ~Holds(up[t]["device"], Eof)
  BY <1>2, ShortHolds
<1> QED
  BY <1>3, <1>4 DEF SocketOf

\* The device socket of a running lease is that of the session the phone is in,
\* or its end is about to be noticed: however closing, crashing and taking the
\* same invitation again interleave (closeActive, onInvitation), no lease stays
\* bound to a socket nobody serves.
THEOREM LeaseIsServed == Spec => []BoundToThePhone
<1>1. Init => IInv /\ SocketOK
  BY InitIInv, InitSocket
<1>2. IInv /\ SocketOK /\ [Next]_vars => (IInv /\ SocketOK)'
  BY StepIInv, StepSocket
<1>3. IInv /\ SocketOK => BoundToThePhone
  BY DEF SocketOK, SocketOf, BoundToThePhone, DeviceBound, Served, Holds
<1> QED
  BY <1>1, <1>2, <1>3, PTL DEF Spec

-----------------------------------------------------------------------------
(* What a step of the server does, to the lease s and its channels.        *)

Takes(s, r) == Incoming(s, r) /\ up' = Taken(s, r)
Listening(s, r) == lease[s].executing /\ r \in lease[s].bound /\ Reached(s, r)
SameReady(s) == lease'[s].ready = lease[s].ready
SameBound(s) == lease'[s].bound = lease[s].bound
Unmoved(s) == OnlyLease(s) /\ SameChoice(s) /\ SameReady(s) /\ down' = down

Closes(s) == Ends(s) /\ (up' = up \/ \E r \in Roles : Takes(s, r))
Idles(s) == Unmoved(s) /\ up' = up
Skips(s, r) ==
  /\ Unmoved(s) /\ Takes(s, r) /\ Message(s, r).type # "hello"
  /\ \/ ~Listening(s, r)
     \/ /\ Message(s, r).type = "state"
        /\ \/ Message(s, r).state = "ready"
           \/ lease[s].state = "RECOVERING_TRANSPORT"
           \/ OnRelayNow(s)
Refuses(s, r) ==
  /\ lease' = lease /\ Takes(s, r) /\ Message(s, r).type = "hello"
  /\ down' = [down EXCEPT ![s][r] = Append(@, Eof)]
Forwards(s, r) ==
  /\ OnlyLease(s) /\ SameChoice(s) /\ SameReady(s) /\ Takes(s, r)
  /\ lease[s].state = "SELECTING_TRANSPORT" /\ Message(s, r).type = "signal"
  /\ down' = Sent(s, {Other(r)}, Message(s, r))
Relays(s, r) ==
  /\ OnlyLease(s) /\ SameChoice(s) /\ SameReady(s) /\ Takes(s, r)
  /\ OnRelayNow(s) /\ Message(s, r).type = "binary"
  /\ down' = Sent(s, {Other(r)}, Binary)
HearsReady(s, r) ==
  /\ OnlyLease(s) /\ SameChoice(s) /\ Takes(s, r) /\ down' = down
  /\ lease[s].state = "SELECTING_TRANSPORT"
  /\ Message(s, r).type = "state" /\ Message(s, r).state = "ready"
  /\ lease'[s].ready = lease[s].ready \cup {r}
ChoosesP2P(s, r) ==
  /\ OnlyLease(s) /\ Takes(s, r) /\ SameBound(s)
  /\ lease[s].state = "SELECTING_TRANSPORT"
  /\ Message(s, r).type = "state" /\ Message(s, r).state = "ready"
  /\ Becomes(s, "ACTIVE", "p2p", "none")
  /\ lease'[s].ready = Roles /\ lease[s].ready \cup {r} = Roles
  /\ down' = Sent(s, Roles, Ready("p2p"))
FallsBack(s) ==
  /\ OnlyLease(s) /\ SameBound(s)
  /\ lease[s].state = "SELECTING_TRANSPORT" \/ lease[s].timer = "negotiation"
  /\ Becomes(s, "ACTIVE", "relay", "none") /\ lease'[s].ready = {}
  /\ \/ up' = up /\ down' = Sent(s, lease[s].bound, Ready("relay"))
     \/ /\ \E r \in Roles : Takes(s, r) /\ Message(s, r).type = "state"
        /\ down' = Sent(s, Roles, Ready("relay"))
BeginsRecovery(s, r) ==
  /\ OnlyLease(s) /\ Takes(s, r) /\ SameBound(s) /\ SameReady(s)
  /\ Message(s, r).type = "state"
  /\ lease[s].state = "ACTIVE" /\ lease[s].selected = "p2p"
  /\ Becomes(s, "RECOVERING_TRANSPORT", "none", "recovery")
  /\ down' = Sent(s, Roles, Transport("recovering"))
CommitsRecovery(s) ==
  /\ OnlyLease(s) /\ Takes(s, "device") /\ SameBound(s) /\ SameReady(s)
  /\ lease[s].state = "RECOVERING_TRANSPORT" /\ "device" \in lease[s].bound
  /\ Reached(s, "device") /\ Message(s, "device").type = "transport.state"
  /\ Becomes(s, "ACTIVE", "relay", "none")
  /\ down' = Sent(s, Roles, Transport("ready"))
Binds(s, r) ==
  /\ OnlyLease(s) /\ Takes(s, r) /\ lease[s].executing /\ r \notin lease[s].bound
  /\ Message(s, r).type = "hello" /\ lease'[s].bound = lease[s].bound \cup {r}
Waits(s, r) ==
  /\ Binds(s, r) /\ lease'[s].bound # Roles
  /\ \E w \in {"WAITING_DEVICE", "WAITING_CONTROLLER"} :
       Becomes(s, w, "none", lease[s].timer)
  /\ SameReady(s) /\ down' = down
Negotiates(s, r) ==
  /\ Binds(s, r) /\ lease'[s].bound = Roles /\ lease'[s].ready = {}
  /\ Becomes(s, "SELECTING_TRANSPORT", "none", "negotiation")
  /\ down' = Sent(s, Roles, Start)
Joins(s, r) ==
  /\ Binds(s, r) /\ lease'[s].bound = Roles /\ lease'[s].ready = {}
  /\ Becomes(s, "ACTIVE", "relay", "none")
  /\ down' = Sent(s, Roles, Ready("relay"))
Creates(s) ==
  /\ OnlyLease(s) /\ lease[s].state = "NONE" /\ UNCHANGED <<up, down>>
  /\ lease'[s].executing /\ lease'[s].state = "WAITING_PEERS"
  /\ lease'[s].selected = "none" /\ lease'[s].timer = "none"
  /\ lease'[s].bound = {} /\ lease'[s].ready = {}

ServerMove(s) ==
  \/ Closes(s) \/ Idles(s) \/ FallsBack(s) \/ CommitsRecovery(s) \/ Creates(s)
  \/ \E r \in Roles :
       \/ Skips(s, r) \/ Refuses(s, r) \/ Forwards(s, r) \/ Relays(s, r)
       \/ HearsReady(s, r) \/ ChoosesP2P(s, r) \/ BeginsRecovery(s, r)
       \/ Waits(s, r) \/ Negotiates(s, r) \/ Joins(s, r)
HalfOpenMove(s) ==
  \/ halfOpen' = halfOpen
  \/ /\ halfOpen' = halfOpen \ {s}
     /\ ~(lease'[s].executing /\ "device" \in lease'[s].bound)

LEMMA SameIsUnmoved ==
  ASSUME NEW s \in Sessions, SameLeases
  PROVE  Unmoved(s)
  BY DEF SameLeases, Unmoved, OnlyLease, SameChoice, SameReady

LEMMA ReceivedMove ==
  ASSUME ServerInv, NEW s \in Sessions, NEW r \in Roles, ReceiveFrame(s, r)
  PROVE  ServerMove(s) /\ halfOpen' = halfOpen /\ invites' = invites
<1>1. ASSUME NEW type, Frame(s, r, type)
      PROVE  /\ Takes(s, r) /\ Listening(s, r) /\ Message(s, r).type = type
             /\ UNCHANGED <<halfOpen, invites>>
  BY <1>1 DEF Frame, Takes, Listening
<1>2. ASSUME Ends(s), Takes(s, r) PROVE Closes(s)
  BY <1>2 DEF Closes
<1>3. CASE ReceiveSignal(s, r)
  <2>1. Takes(s, r) /\ Message(s, r).type = "signal"
        /\ UNCHANGED <<halfOpen, invites>>
    BY <1>1, <1>3 DEF ReceiveSignal
  <2>2. Closes(s) \/ Forwards(s, r)
    BY <1>2, <1>3, <2>1, SignalEffect DEF Forwards, SameReady
  <2> QED
    BY <2>1, <2>2 DEF ServerMove
<1>4. CASE ReceiveFailed(s, r)
  <2>1. Takes(s, r) /\ Message(s, r).type = "state" /\ Message(s, r).state = "failed"
        /\ UNCHANGED <<halfOpen, invites>>
    BY <1>1, <1>4 DEF ReceiveFailed
  <2>2. Closes(s) \/ FallsBack(s) \/ BeginsRecovery(s, r) \/ Skips(s, r)
    BY <1>2, <1>4, <2>1, FailedEffect
    DEF FallsBack, BeginsRecovery, Skips, Unmoved, SameReady, SameBound, OnRelayNow
  <2> QED
    BY <2>1, <2>2 DEF ServerMove
<1>5. CASE ReceiveReady(s, r)
  <2>1. Takes(s, r) /\ Message(s, r).type = "state" /\ Message(s, r).state = "ready"
        /\ UNCHANGED <<halfOpen, invites>>
    BY <1>1, <1>5 DEF ReceiveReady
  <2>2. Closes(s) \/ HearsReady(s, r) \/ ChoosesP2P(s, r) \/ Skips(s, r)
    BY <1>2, <1>5, <2>1, ReadyEffect
    DEF HearsReady, ChoosesP2P, Skips, Unmoved, SameReady, SameBound
  <2> QED
    BY <2>1, <2>2 DEF ServerMove
<1>6. CASE ReceiveTransportState(s, r)
  <2>1. Takes(s, r) /\ Message(s, r).type = "transport.state" /\ Listening(s, r)
        /\ UNCHANGED <<halfOpen, invites>>
    BY <1>1, <1>6 DEF ReceiveTransportState
  <2>2. Closes(s) \/ CommitsRecovery(s)
    BY <1>2, <1>6, <2>1, TransportEffect
    DEF CommitsRecovery, Listening, SameReady, SameBound
  <2> QED
    BY <2>1, <2>2 DEF ServerMove
<1>7. ASSUME NEW slow \in BOOLEAN, ReceiveBinary(s, r, slow)
      PROVE  ServerMove(s) /\ UNCHANGED <<halfOpen, invites>>
  <2>1. Takes(s, r) /\ Message(s, r).type = "binary"
        /\ UNCHANGED <<halfOpen, invites>>
    BY <1>1, <1>7 DEF ReceiveBinary
  <2>2. Closes(s) \/ Relays(s, r)
    BY <1>2, <1>7, <2>1, BinaryEffect DEF Relays, SameReady
  <2> QED
    BY <2>1, <2>2 DEF ServerMove
<1>8. CASE PeerDisconnected(s, r)
  <2>1. Takes(s, r) /\ UNCHANGED <<halfOpen, invites>>
    BY <1>1, <1>8 DEF PeerDisconnected
  <2>2. Closes(s)
    BY <1>2, <1>8, <2>1, EofEffect
  <2> QED
    BY <2>1, <2>2 DEF ServerMove
<1>9. CASE BindHello(s, r)
  <2>1. Binds(s, r) /\ UNCHANGED <<halfOpen, invites>>
    BY <1>9, BindEffect DEF Binds, Takes
  <2>2. Waits(s, r) \/ Negotiates(s, r) \/ Joins(s, r)
    BY <1>9, <2>1, BindEffect DEF Waits, Negotiates, Joins, SameReady
  <2> QED
    BY <2>1, <2>2 DEF ServerMove
<1>10. CASE HelloInvalid(s, r)
  <2>1. Refuses(s, r) /\ UNCHANGED <<halfOpen, invites>>
    BY <1>10 DEF HelloInvalid, RefuseHello, Refuses, Takes
  <2> QED
    BY <2>1 DEF ServerMove
<1>11. CASE Ignored(s, r)
  <2>1. Takes(s, r) /\ ~Listening(s, r) /\ Message(s, r).type # "hello"
        /\ UNCHANGED <<lease, down, halfOpen, invites>>
    BY <1>11 DEF Ignored, Takes, Listening
  <2>2. Skips(s, r)
    BY <2>1, SameIsUnmoved DEF Skips, SameLeases
  <2> QED
    BY <2>1, <2>2 DEF ServerMove
<1> QED
  BY <1>3, <1>4, <1>5, <1>6, <1>7, <1>8, <1>9, <1>10, <1>11 DEF ReceiveFrame

LEMMA ServerMoves ==
  ASSUME ServerInv, ServerStep
  PROVE  /\ UNCHANGED <<peer, consumed, pipe, budget, browser>>
         /\ \E s \in Sessions :
              /\ ServerMove(s) /\ HalfOpenMove(s)
              /\ invites' \subseteq invites \/ (Creates(s) /\ invites' = invites \cup {s})
<1>1. UNCHANGED <<peer, consumed, pipe, budget, browser>>
  BY DEF ServerStep, peerVars
<1>2. PICK s \in Sessions :
          \/ \E p2pAllowed \in Preferences : CreateSession(s, p2pAllowed)
          \/ Published(s) \/ PublishFails(s) \/ CloseSession(s)
          \/ NegotiationTimeout(s) \/ RecoveryTimeout(s)
          \/ DeviceEvent(s) \/ DeadSocketCloses(s)
          \/ \E r \in Roles : ReceiveFrame(s, r) \/ RefuseHello(s, r)
  BY DEF ServerStep
<1> SUFFICES /\ ServerMove(s) /\ HalfOpenMove(s)
             /\ invites' \subseteq invites \/ (Creates(s) /\ invites' = invites \cup {s})
  BY <1>1
<1>3. ASSUME NEW b \in Preferences, CreateSession(s, b)
      PROVE  Creates(s) /\ halfOpen' = halfOpen /\ invites' = invites \cup {s}
  <2>1. b \in BOOLEAN
    BY RelayAssumption
  <2> QED
    BY <1>3, <2>1, CreateEffect DEF Creates
<1>4. CASE NegotiationTimeout(s)
  <2>1. FallsBack(s) /\ UNCHANGED <<halfOpen, invites>>
    BY <1>4, TimeoutEffect DEF FallsBack, SameBound
  <2> QED
    BY <2>1 DEF ServerMove, HalfOpenMove
<1>5. CASE \/ Published(s) \/ PublishFails(s) \/ CloseSession(s)
           \/ RecoveryTimeout(s) \/ DeviceEvent(s) \/ DeadSocketCloses(s)
  <2>1. HalfOpenMove(s) /\ up' = up /\ invites' \subseteq invites
    BY <1>5, EndingEffect DEF HalfOpenMove
  <2>2. Ends(s) \/ SameLeases \/ Unmoved(s)
    BY <1>5, EndingEffect DEF Unmoved, SameReady
  <2>3. Closes(s) \/ Idles(s)
    BY <2>1, <2>2, SameIsUnmoved DEF Closes, Idles
  <2> QED
    BY <2>1, <2>3 DEF ServerMove
<1>6. ASSUME NEW r \in Roles, RefuseHello(s, r)
      PROVE  Refuses(s, r) /\ UNCHANGED <<halfOpen, invites>>
  BY <1>6 DEF RefuseHello, Refuses, Takes
<1> QED
  BY <1>2, <1>3, <1>4, <1>5, <1>6, ReceivedMove DEF ServerMove, HalfOpenMove

-----------------------------------------------------------------------------
(* What a step of the browser does: x becomes b, and ms is sent.           *)

SameView(x, b) ==
  b.selected = x.selected /\ b.report = x.report /\ b.started = x.started
Connects(x, b, ms) ==
  /\ x.state = "idle" /\ b.state = "open" /\ SameView(x, b)
  /\ \E v \in {1, 2} : ms = <<Hello(v)>>
Leaves(x, b, ms) ==
  /\ x.state = "open" /\ b.state = "gone" /\ SameView(x, b) /\ ms = <<Eof>>
Hears(x, b, m) ==
  /\ x.state = "open" /\ b.report = x.report
  /\ b.started = (IF m.type = "start" THEN TRUE ELSE x.started)
  /\ b.state = (IF m.type \in {"closed", "eof"} THEN "gone" ELSE "open")
  /\ b.selected = CASE m.type = "ready" ->
                         IF m.transport = "p2p" /\ x.report = "failed"
                           THEN "none" ELSE m.transport
                    [] m.type = "transport" ->
                         IF m.phase = "ready" THEN "relay" ELSE "none"
                    [] OTHER -> x.selected
Speaks(x, b, ms) ==
  /\ x.state = "open" /\ b.state = "open" /\ SameView(x, b)
  /\ \E k \in SignalKinds, n \in Nat : ms = <<Signal(k, n)>>
Reports(x, b, ms) ==
  /\ x.state = "open" /\ b.state = "open" /\ x.selected = "none" /\ x.report = "none"
  /\ b.selected = "none" /\ b.report = "ready"
  /\ x.started /\ b.started
  /\ \E n \in Nat : ms = <<P2PState("ready", n)>>
GivesUp(x, b, ms) ==
  /\ x.state = "open" /\ b.state = "open" /\ x.selected \in {"p2p", "none"}
  /\ b.selected = "none" /\ x.report # "failed" /\ b.report = "failed"
  /\ x.started /\ b.started
  /\ \E n \in Nat : ms = <<P2PState("failed", n)>>
Controls(x, b, ms) ==
  /\ x.state = "open" /\ x.selected = "relay" /\ b = x /\ ms = <<Binary>>

BrowserSets(s, b, ms) ==
  /\ browser' = [browser EXCEPT ![s] = b] /\ b \in Browser /\ ms \in Seq(Frames)
  /\ up' = [up EXCEPT ![s]["controller"] = up[s]["controller"] \o ms]
  /\ UNCHANGED <<lease, halfOpen, invites, peer>>
BrowserMove(s) ==
  \E b \in Browser, ms \in Seq(Frames) :
    /\ BrowserSets(s, b, ms)
    /\ \/ /\ Connects(browser[s], b, ms) /\ lease[s].state # "NONE"
          /\ UNCHANGED <<down, pipe>>
       \/ /\ Leaves(browser[s], b, ms) /\ pipe' = pipe
          /\ down' = [down EXCEPT ![s]["controller"] = <<>>]
       \/ /\ Hears(browser[s], b, Head(down[s]["controller"])) /\ ms = <<>>
          /\ down[s]["controller"] # <<>> /\ pipe' = pipe
          /\ down' = [down EXCEPT ![s]["controller"] = Tail(down[s]["controller"])]
       \/ /\ \/ Speaks(browser[s], b, ms) \/ Reports(browser[s], b, ms)
             \/ GivesUp(browser[s], b, ms) \/ Controls(browser[s], b, ms)
          /\ UNCHANGED <<down, pipe>>
       \/ /\ browser[s].state = "open" /\ browser[s].selected = "p2p"
          /\ b = browser[s] /\ ms = <<>> /\ down' = down
          /\ pipe' = IF peer.session = s THEN pipe + 1 ELSE pipe

LEMMA BrowserSetsWith ==
  ASSUME NEW s \in Sessions, NEW b \in Browser, NEW ms \in Seq(Frames),
         BrowserSends(s, b, ms)
  PROVE  BrowserSets(s, b, ms)
  BY DEF BrowserSends, BrowserSets

LEMMA BrowserSpeaks ==
  ASSUME TypeOK, NEW s \in Sessions,
         BrowserConnects(s) \/ BrowserOffers(s) \/ BrowserCandidate(s)
  PROVE  BrowserMove(s)
<1> DEFINE x == browser[s]
           n == x.seq + 1
<1>1. x \in Browser /\ x.seq \in Nat /\ n \in Nat
  BY DEF TypeOK, Browser
<1>2. CASE BrowserConnects(s)
  <2> DEFINE b == [x EXCEPT !.state = "open"]
  <2>1. PICK v \in Versions : BrowserSends(s, b, <<Hello(v)>>)
    BY <1>2 DEF BrowserConnects
  <2>2. /\ UNCHANGED <<down, pipe>> /\ lease[s].state # "NONE"
        /\ x.state = "idle" /\ v \in {1, 2}
    BY <1>2, RelayAssumption DEF BrowserConnects
  <2>3. PICK ms : ms = <<Hello(v)>>
    OBVIOUS
  <2>4. ms \in Seq(Frames)
    BY <2>2, <2>3, FramesBuilt, ShortSequences
  <2>5. b \in Browser /\ b.state = "open" /\ b.selected = x.selected
        /\ b.report = x.report /\ b.started = x.started
    BY <1>1 DEF Browser
  <2> HIDE DEF b
  <2>6. Connects(x, b, ms)
    BY <2>2, <2>3, <2>5 DEF Connects, SameView
  <2>7. BrowserSets(s, b, ms)
    BY <2>1, <2>3, <2>4, <2>5, BrowserSetsWith
  <2> QED
    BY <2>2, <2>4, <2>5, <2>6, <2>7 DEF BrowserMove
<1>3. CASE BrowserOffers(s) \/ BrowserCandidate(s)
  <2> DEFINE b == [x EXCEPT !.offered = TRUE, !.seq = n]
             c == [x EXCEPT !.seq = n]
  <2>1. \/ BrowserSends(s, b, <<Signal("offer", x.seq)>>)
        \/ BrowserSends(s, c, <<Signal("ice-candidate", x.seq)>>)
    BY <1>3 DEF BrowserOffers, BrowserCandidate
  <2>2. UNCHANGED <<down, pipe>> /\ x.state = "open"
    BY <1>3 DEF BrowserOffers, BrowserCandidate, MaySend
  <2>3. /\ b \in Browser /\ b.state = x.state /\ b.selected = x.selected
        /\ b.report = x.report /\ b.started = x.started
        /\ c \in Browser /\ c.state = x.state /\ c.selected = x.selected
        /\ c.report = x.report /\ c.started = x.started
    BY <1>1 DEF Browser
  <2> HIDE DEF b, c, n
  <2>4. PICK d \in {b, c}, k \in SignalKinds :
          BrowserSends(s, d, <<Signal(k, x.seq)>>)
    BY <2>1 DEF SignalKinds
  <2>5. PICK ms : ms = <<Signal(k, x.seq)>>
    OBVIOUS
  <2>6. ms \in Seq(Frames)
    BY <1>1, <2>5, FramesBuilt, ShortSequences
  <2>7. Speaks(x, d, ms)
    BY <1>1, <2>2, <2>3, <2>4, <2>5 DEF Speaks, SameView
  <2>8. BrowserSets(s, d, ms)
    BY <2>3, <2>4, <2>5, <2>6, BrowserSetsWith
  <2> QED
    BY <2>2, <2>3, <2>6, <2>7, <2>8 DEF BrowserMove
<1> QED
  BY <1>2, <1>3

LEMMA BrowserReports ==
  ASSUME TypeOK, NEW s \in Sessions,
         BrowserReady(s) \/ BrowserFails(s) \/ BrowserControls(s)
  PROVE  BrowserMove(s)
<1> DEFINE x == browser[s]
           n == x.seq + 1
<1>1. x \in Browser /\ x.seq \in Nat /\ n \in Nat
  BY DEF TypeOK, Browser
<1>2. CASE BrowserReady(s)
  <2> DEFINE b == [x EXCEPT !.report = "ready", !.seq = n]
  <2>1. /\ BrowserSends(s, b, <<P2PState("ready", x.seq)>>)
        /\ UNCHANGED <<down, pipe>>
        /\ x.state = "open" /\ x.selected = "none" /\ x.report = "none"
        /\ x.started
    BY <1>2 DEF BrowserReady, MaySend
  <2>2. b \in Browser /\ b.state = x.state /\ b.selected = x.selected
        /\ b.report = "ready" /\ b.started = x.started
    BY <1>1 DEF Browser
  <2> HIDE DEF b
  <2>3. PICK ms : ms = <<P2PState("ready", x.seq)>>
    OBVIOUS
  <2>4. ms \in Seq(Frames)
    BY <1>1, <2>3, FramesBuilt, ShortSequences
  <2>5. Reports(x, b, ms)
    BY <1>1, <2>1, <2>2, <2>3 DEF Reports
  <2>6. BrowserSets(s, b, ms)
    BY <2>1, <2>2, <2>3, <2>4, BrowserSetsWith
  <2> QED
    BY <2>1, <2>2, <2>4, <2>5, <2>6 DEF BrowserMove
<1>3. CASE BrowserFails(s)
  <2> DEFINE b == [x EXCEPT !.report = "failed", !.seq = n, !.selected = "none"]
  <2>1. /\ BrowserSends(s, b, <<P2PState("failed", x.seq)>>)
        /\ UNCHANGED <<down, pipe>>
        /\ x.state = "open" /\ x.selected \in {"p2p", "none"} /\ x.report # "failed"
        /\ x.started
    BY <1>3 DEF BrowserFails
  <2>2. b \in Browser /\ b.state = x.state /\ b.selected = "none"
        /\ b.report = "failed" /\ b.started = x.started
    BY <1>1 DEF Browser, Transports
  <2> HIDE DEF b
  <2>3. PICK ms : ms = <<P2PState("failed", x.seq)>>
    OBVIOUS
  <2>4. ms \in Seq(Frames)
    BY <1>1, <2>3, FramesBuilt, ShortSequences
  <2>5. GivesUp(x, b, ms)
    BY <1>1, <2>1, <2>2, <2>3 DEF GivesUp
  <2>6. BrowserSets(s, b, ms)
    BY <2>1, <2>2, <2>3, <2>4, BrowserSetsWith
  <2> QED
    BY <2>1, <2>2, <2>4, <2>5, <2>6 DEF BrowserMove
<1>4. CASE BrowserControls(s)
  <2>1. \/ /\ x.selected = "relay" /\ BrowserSends(s, x, <<Binary>>)
           /\ UNCHANGED <<down, pipe>>
        \/ /\ x.selected = "p2p" /\ BrowserSends(s, x, <<>>) /\ down' = down
           /\ pipe' = IF peer.session = s THEN pipe + 1 ELSE pipe
    BY <1>4 DEF BrowserControls
  <2>2. x.state = "open"
    BY <1>4 DEF BrowserControls
  <2> HIDE DEF x
  <2>3. CASE /\ x.selected = "relay" /\ BrowserSends(s, x, <<Binary>>)
             /\ UNCHANGED <<down, pipe>>
    <3>1. PICK ms : ms = <<Binary>>
      OBVIOUS
    <3>2. ms \in Seq(Frames)
      BY <3>1, FramesBuilt, ShortSequences
    <3>3. BrowserSets(s, x, ms)
      BY <1>1, <2>3, <3>1, <3>2, BrowserSetsWith
    <3>4. Controls(x, x, ms)
      BY <2>2, <2>3, <3>1 DEF Controls
    <3> QED
      BY <1>1, <2>3, <3>2, <3>3, <3>4 DEF BrowserMove, x
  <2>4. CASE /\ x.selected = "p2p" /\ BrowserSends(s, x, <<>>) /\ down' = down
             /\ pipe' = IF peer.session = s THEN pipe + 1 ELSE pipe
    <3>1. PICK ms : ms = <<>>
      OBVIOUS
    <3>2. ms \in Seq(Frames)
      BY <3>1, ShortSequences
    <3>3. BrowserSets(s, x, ms)
      BY <1>1, <2>4, <3>1, <3>2, BrowserSetsWith
    <3> QED
      BY <1>1, <2>2, <2>4, <3>1, <3>2, <3>3 DEF BrowserMove, x
  <2> QED
    BY <2>1, <2>3, <2>4
<1> QED
  BY <1>2, <1>3, <1>4

LEMMA BrowserHears ==
  ASSUME TypeOK, NEW s \in Sessions, BrowserReceives(s)
  PROVE  BrowserMove(s)
<1> DEFINE x == browser[s]
           m == Head(down[s]["controller"])
           k == x.answered \/ m.kind = "answer"
           t == IF m.transport = "p2p" /\ x.report = "failed"
                  THEN "none" ELSE m.transport
           c == [x EXCEPT !.started = TRUE]
           d == [x EXCEPT !.answered = k]
           e == [x EXCEPT !.selected = t]
           f == [x EXCEPT !.selected = IF m.phase = "ready" THEN "relay" ELSE "none"]
           g == [x EXCEPT !.state = "gone"]
<1>1. x \in Browser /\ down \in Channels /\ "controller" \in Roles
  BY DEF TypeOK, Roles
<1>2. /\ x.state = "open" /\ down[s]["controller"] # <<>> /\ pipe' = pipe
      /\ down' = [down EXCEPT ![s]["controller"] = Tail(down[s]["controller"])]
  BY DEF BrowserReceives
<1>3. m \in Frames
  BY <1>1, <1>2, FirstFrame
<1>4. \/ m.type = "start" /\ BrowserSends(s, c, <<>>)
      \/ m.type = "signal" /\ BrowserSends(s, d, <<>>)
      \/ m.type = "ready" /\ BrowserSends(s, e, <<>>)
      \/ m.type = "transport" /\ BrowserSends(s, f, <<>>)
      \/ m.type \in {"closed", "eof"} /\ BrowserSends(s, g, <<>>)
      \/ /\ m.type \notin {"start", "signal", "ready", "transport", "closed", "eof"}
         /\ BrowserSends(s, x, <<>>)
  BY DEF BrowserReceives
<1>5. k \in BOOLEAN
  BY <1>1 DEF Browser
<1>6. m.type = "ready" => t \in Transports
  BY <1>3, FrameFields DEF Transports
<1> HIDE DEF k
<1>7. /\ m.type = "start" => c \in Browser /\ Hears(x, c, m)
      /\ m.type = "signal" => d \in Browser /\ Hears(x, d, m)
  <2>1. /\ c \in Browser /\ c.state = x.state /\ c.selected = x.selected
        /\ c.report = x.report /\ c.started = TRUE
        /\ d \in Browser /\ d.state = x.state /\ d.selected = x.selected
        /\ d.report = x.report /\ d.started = x.started
    BY <1>1, <1>5 DEF Browser
  <2> HIDE DEF c, d, x, m
  <2> QED
    BY <1>2, <2>1 DEF Hears, x
<1>8. m.type = "ready" => e \in Browser /\ Hears(x, e, m)
  <2> SUFFICES ASSUME m.type = "ready" PROVE e \in Browser /\ Hears(x, e, m)
    OBVIOUS
  <2>0. PICK v : v = t
    OBVIOUS
  <2>1. /\ e \in Browser /\ e.state = x.state /\ e.selected = v
        /\ e.report = x.report /\ e.started = x.started
    BY <1>1, <1>6, <2>0 DEF Browser
  <2> HIDE DEF e
  <2> QED
    BY <1>2, <2>0, <2>1 DEF Hears
<1>9. m.type = "transport" => f \in Browser /\ Hears(x, f, m)
  <2> SUFFICES ASSUME m.type = "transport" PROVE f \in Browser /\ Hears(x, f, m)
    OBVIOUS
  <2>1. /\ f \in Browser /\ f.state = x.state
        /\ f.selected = IF m.phase = "ready" THEN "relay" ELSE "none"
        /\ f.report = x.report /\ f.started = x.started
    BY <1>1 DEF Browser, Transports
  <2> HIDE DEF f
  <2> QED
    BY <1>2, <2>1 DEF Hears
<1>10. m.type \in {"closed", "eof"} => g \in Browser /\ Hears(x, g, m)
  <2>1. /\ g \in Browser /\ g.state = "gone" /\ g.selected = x.selected
        /\ g.report = x.report /\ g.started = x.started
    BY <1>1 DEF Browser
  <2> HIDE DEF g
  <2> QED
    BY <1>2, <2>1 DEF Hears
<1>11. m.type \notin {"start", "signal", "ready", "transport", "closed", "eof"}
         => Hears(x, x, m)
  BY <1>2 DEF Hears
<1>12. PICK b \in Browser : Hears(x, b, m) /\ BrowserSends(s, b, <<>>)
  <2> HIDE DEF c, d, e, f, g, m, t, x
  <2> QED
    BY <1>1, <1>4, <1>7, <1>8, <1>9, <1>10, <1>11
<1>13. PICK ms : ms = <<>>
  OBVIOUS
<1>14. ms \in Seq(Frames)
  BY <1>13, ShortSequences
<1>15. BrowserSets(s, b, ms)
  BY <1>12, <1>13, <1>14, BrowserSetsWith
<1>16. Hears(browser[s], b, Head(down[s]["controller"]))
  BY <1>12
<1> HIDE DEF x, m
<1> QED
  BY <1>2, <1>13, <1>14, <1>15, <1>16 DEF BrowserMove

LEMMA BrowserMoves ==
  ASSUME TypeOK, NEW s \in Sessions, BrowserStep(s)
  PROVE  BrowserMove(s)
<1>1. CASE BrowserLeaves(s)
  <2> DEFINE x == browser[s]
             b == [x EXCEPT !.state = "gone"]
  <2>1. x \in Browser
    BY DEF TypeOK
  <2>2. b \in Browser /\ b.state = "gone" /\ b.selected = x.selected
        /\ b.report = x.report /\ b.started = x.started
    BY <2>1 DEF Browser
  <2>3. /\ BrowserSends(s, b, <<Eof>>) /\ x.state = "open" /\ pipe' = pipe
        /\ down' = [down EXCEPT ![s]["controller"] = <<>>]
    BY <1>1 DEF BrowserLeaves
  <2> HIDE DEF b
  <2>4. PICK ms : ms = <<Eof>>
    OBVIOUS
  <2>5. ms \in Seq(Frames)
    BY <2>4, FramesBuilt, ShortSequences
  <2>6. BrowserSets(s, b, ms)
    BY <2>2, <2>3, <2>4, <2>5, BrowserSetsWith
  <2>7. Leaves(x, b, ms)
    BY <2>2, <2>3, <2>4 DEF Leaves, SameView
  <2> QED
    BY <2>2, <2>3, <2>5, <2>6, <2>7 DEF BrowserMove
<1> QED
  BY <1>1, BrowserSpeaks, BrowserReports, BrowserHears DEF BrowserStep

-----------------------------------------------------------------------------
(* Who uses the relay.                                                     *)

\* A lease not yet asked for has no peers and no messages.
Untouched(s) ==
  /\ ~lease[s].executing
  /\ \A r \in Roles : up[s][r] = <<>> /\ down[s][r] = <<>>
  /\ browser[s].state = "idle" /\ browser[s].selected = "none"
  /\ peer.session # s /\ s \notin invites

\* The fields of a lease that go together.
Shape(s) ==
  LET l == lease[s] IN
  /\ l.executing <=> l.state \notin {"NONE", "ENDED"}
  /\ l.state \in {"SELECTING_TRANSPORT", "RECOVERING_TRANSPORT", "ACTIVE"}
       <=> l.bound = Roles
  /\ l.timer = "negotiation" <=> l.state = "SELECTING_TRANSPORT"
  /\ l.timer = "recovery" <=> l.state = "RECOVERING_TRANSPORT"
  /\ l.state = "ACTIVE" <=> l.selected # "none"
  /\ l.ready # {} => l.bound = Roles

\* The frames that are sent, or send their receiver, over the relay.
RelayFrames == {Ready("relay"), Transport("ready"), Binary}
UsesRelay(s) ==
  \/ browser[s].selected = "relay"
  \/ ~peer.closed /\ peer.session = s /\ peer.selected = "relay"
  \/ \E r \in Roles : Holds(up[s][r], Binary)
  \/ \E r \in Roles, m \in RelayFrames : Holds(down[s][r], m)

RelayOf(s) ==
  /\ lease[s].state = "NONE" => Untouched(s)
  /\ Shape(s)
  /\ lease[s].executing /\ UsesRelay(s) => OnRelayNow(s)
RelayOK == \A s \in Sessions : RelayOf(s)

-----------------------------------------------------------------------------
(* The server.                                                             *)

LEMMA TakenHolds ==
  ASSUME ChannelsOK, NEW s \in Sessions, NEW r \in Roles, Takes(s, r),
         NEW w \in Roles, NEW m, Holds(up'[s][w], m)
  PROVE  Holds(up[s][w], m)
<1>1. up \in Channels /\ up[s][r] # <<>> /\ up[s][r] \in Seq(Frames)
  BY ChannelTyped DEF ChannelsOK, Takes, Incoming
<1>2. up' = [up EXCEPT ![s][r] = Tail(up[s][r])]
  BY DEF Takes, Taken
<1>3. up'[s][w] = IF w = r THEN Tail(up[s][r]) ELSE up[s][w]
  BY <1>1, <1>2, SetAt
<1>4. CASE w = r
  <2>1. Holds(Tail(up[s][w]), m)
    BY <1>3, <1>4
  <2> QED
    BY <1>1, <1>4, <2>1, TailHolds
<1> QED
  BY <1>3, <1>4

LEMMA SentHolds ==
  ASSUME ChannelsOK, NEW s \in Sessions, NEW to, NEW n \in Frames,
         down' = Sent(s, to, n), NEW w \in Roles, NEW m, Holds(down'[s][w], m)
  PROVE  Holds(down[s][w], m) \/ n = m
<1>1. down \in Channels /\ down[s][w] \in Seq(Frames)
  BY ChannelTyped DEF ChannelsOK
<1>2. \/ down'[s][w] = down[s][w]
      \/ down'[s][w] = Append(down[s][w], n)
  <2>1. Sent(s, to, n)[s][w] = IF w \in to /\ ~(w = "device" /\ s \in halfOpen)
                                 THEN Append(down[s][w], n) ELSE down[s][w]
    BY <1>1, SentAt
  <2> QED
    BY <2>1
<1>3. ASSUME down'[s][w] = Append(down[s][w], n)
      PROVE  Holds(down[s][w], m) \/ n = m
  <2>1. Holds(Append(down[s][w], n), m)
    BY <1>3
  <2> QED
    BY <1>1, <2>1, AppendHolds
<1> QED
  BY <1>2, <1>3

LEMMA RefusedHolds ==
  ASSUME ChannelsOK, NEW s \in Sessions, NEW r \in Roles, Refuses(s, r),
         NEW w \in Roles, NEW m, Holds(down'[s][w], m)
  PROVE  Holds(down[s][w], m) \/ m = Eof
<1>1. down \in Channels /\ down[s][r] \in Seq(Frames) /\ Eof \in Frames
  BY ChannelTyped, FramesBuilt DEF ChannelsOK
<1>2. down' = [down EXCEPT ![s][r] = Append(down[s][r], Eof)]
  BY DEF Refuses
<1>3. down'[s][w] = IF w = r THEN Append(down[s][r], Eof) ELSE down[s][w]
  BY <1>1, <1>2 DEF Channels
<1>4. CASE w = r
  <2>1. Holds(Append(down[s][w], Eof), m)
    BY <1>3, <1>4
  <2> QED
    BY <1>1, <1>4, <2>1, AppendHolds
<1> QED
  BY <1>3, <1>4

\* A step of the server for one lease is one for no other.
LEMMA ServerAlone ==
  ASSUME ChannelsOK, NEW s \in Sessions, ServerMove(s), NEW t \in Sessions, t # s
  PROVE  lease'[t] = lease[t] /\ up'[t] = up[t] /\ down'[t] = down[t]
<1>1. up \in [Sessions -> [Roles -> Seq(Frames)]]
      /\ down \in [Sessions -> [Roles -> Seq(Frames)]]
  BY DEF ChannelsOK, Channels
<1>2. \A r \in Roles : Takes(s, r) => up'[t] = up[t]
  BY <1>1 DEF Takes, Taken
<1>3. \A to, m : down' = Sent(s, to, m) => down'[t] = down[t]
  BY <1>1 DEF Sent
<1>4. \A r \in Roles : Refuses(s, r) => down'[t] = down[t]
  BY <1>1 DEF Refuses
<1>5. OnlyLease(s) => lease'[t] = lease[t]
  BY DEF OnlyLease
<1>6. CASE Closes(s) \/ Idles(s) \/ FallsBack(s) \/ CommitsRecovery(s) \/ Creates(s)
  BY <1>2, <1>3, <1>5, <1>6
  DEF Closes, Ends, Idles, Unmoved, FallsBack, CommitsRecovery, Creates, Roles
<1>7. ASSUME NEW r \in Roles,
             \/ Skips(s, r) \/ Refuses(s, r) \/ Forwards(s, r) \/ Relays(s, r)
             \/ HearsReady(s, r) \/ ChoosesP2P(s, r) \/ BeginsRecovery(s, r)
             \/ Waits(s, r) \/ Negotiates(s, r) \/ Joins(s, r)
      PROVE  lease'[t] = lease[t] /\ up'[t] = up[t] /\ down'[t] = down[t]
  BY <1>2, <1>3, <1>4, <1>5, <1>7
  DEF Skips, Unmoved, Refuses, Forwards, Relays, HearsReady, ChoosesP2P,
      BeginsRecovery, Waits, Negotiates, Joins, Binds
<1> QED
  BY <1>6, <1>7 DEF ServerMove

LEMMA ServerShape ==
  ASSUME NEW s \in Sessions, ServerMove(s), Shape(s)
  PROVE  Shape(s)'
<1>1. Roles # {}
  BY DEF Roles
<1>2. CASE Closes(s) \/ Idles(s) \/ FallsBack(s) \/ CommitsRecovery(s) \/ Creates(s)
  BY <1>1, <1>2
  DEF Closes, Ends, Idles, Unmoved, SameChoice, SameReady, SameBound, Becomes,
      FallsBack, CommitsRecovery, Creates, Shape
<1>3. ASSUME NEW r \in Roles,
             \/ Skips(s, r) \/ Refuses(s, r) \/ Forwards(s, r) \/ Relays(s, r)
             \/ HearsReady(s, r) \/ ChoosesP2P(s, r) \/ BeginsRecovery(s, r)
             \/ Waits(s, r) \/ Negotiates(s, r) \/ Joins(s, r)
      PROVE  Shape(s)'
  <2>1. CASE \/ Skips(s, r) \/ Refuses(s, r) \/ Forwards(s, r) \/ Relays(s, r)
             \/ HearsReady(s, r)
    BY <2>1
    DEF Skips, Unmoved, SameChoice, SameReady, Refuses, Forwards, Relays,
        HearsReady, Shape
  <2>2. CASE ChoosesP2P(s, r) \/ BeginsRecovery(s, r)
    BY <2>2 DEF ChoosesP2P, BeginsRecovery, Becomes, SameBound, SameReady, Shape
  <2>3. CASE Waits(s, r) \/ Negotiates(s, r) \/ Joins(s, r)
    <3>1. lease[s].bound # Roles /\ lease[s].executing
      BY <2>3 DEF Waits, Negotiates, Joins, Binds
    <3>2. CASE Waits(s, r)
      BY <3>1, <3>2 DEF Waits, Becomes, SameReady, Shape
    <3>3. CASE Negotiates(s, r)
      BY <3>3 DEF Negotiates, Becomes, Binds, Shape
    <3>4. CASE Joins(s, r)
      BY <3>4 DEF Joins, Becomes, Binds, Shape
    <3> QED
      BY <2>3, <3>2, <3>3, <3>4
  <2> QED
    BY <1>3, <2>1, <2>2, <2>3
<1> QED
  BY <1>2, <1>3 DEF ServerMove

\* The server does not leave the relay.
LEMMA RelayIsKept ==
  ASSUME NEW s \in Sessions, ServerMove(s), Shape(s), lease'[s].executing
  PROVE  /\ lease[s].executing \/ Creates(s)
         /\ OnRelayNow(s) => OnRelayNow(s)'
<1>1. CASE Closes(s) \/ Idles(s) \/ FallsBack(s) \/ CommitsRecovery(s) \/ Creates(s)
  BY <1>1
  DEF Closes, Ends, Idles, Unmoved, SameChoice, Becomes,
      FallsBack, CommitsRecovery, Creates, Shape, OnRelayNow
<1>2. ASSUME NEW r \in Roles,
             \/ Skips(s, r) \/ Refuses(s, r) \/ Forwards(s, r) \/ Relays(s, r)
             \/ HearsReady(s, r) \/ ChoosesP2P(s, r) \/ BeginsRecovery(s, r)
             \/ Waits(s, r) \/ Negotiates(s, r) \/ Joins(s, r)
      PROVE  lease[s].executing /\ (OnRelayNow(s) => OnRelayNow(s)')
  <2>1. CASE \/ Skips(s, r) \/ Refuses(s, r) \/ Forwards(s, r) \/ Relays(s, r)
             \/ HearsReady(s, r)
    BY <2>1
    DEF Skips, Unmoved, SameChoice, Refuses, Forwards, Relays,
        HearsReady, OnRelayNow
  <2>2. CASE ChoosesP2P(s, r) \/ BeginsRecovery(s, r)
    BY <2>2 DEF ChoosesP2P, BeginsRecovery, Becomes, OnRelayNow
  <2>3. CASE Waits(s, r) \/ Negotiates(s, r) \/ Joins(s, r)
    BY <2>3 DEF Waits, Negotiates, Joins, Binds, Shape, OnRelayNow
  <2> QED
    BY <1>2, <2>1, <2>2, <2>3
<1> QED
  BY <1>1, <1>2 DEF ServerMove

\* It sends no one there before it is there itself.
ServerQuiet(s) ==
  /\ up' = up \/ \E r \in Roles : Takes(s, r)
  /\ \/ down' = down \/ \E r \in Roles : Refuses(s, r)
     \/ \E to \in SUBSET Roles, n \in Frames \ RelayFrames :
          down' = Sent(s, to, n)

LEMMA ServerIsQuiet ==
  ASSUME ServerInv, NEW s \in Sessions, ServerMove(s)
  PROVE  ServerQuiet(s) \/ OnRelayNow(s)'
<1>1. {Closed, Start, Ready("p2p"), Transport("recovering")} \subseteq Frames \ RelayFrames
  <2>1. {Closed, Start, Ready("p2p"), Transport("recovering")} \subseteq Frames
    BY FramesBuilt
  <2>2. \A m \in RelayFrames :
          /\ m.type \in {"ready", "transport", "binary"}
          /\ m.type = "ready" => m.transport = "relay"
          /\ m.type = "transport" => m.phase = "ready"
    BY FrameTypes DEF RelayFrames
  <2> QED
    BY <2>1, <2>2, FrameTypes
<1>2. ASSUME NEW r \in Roles, Takes(s, r), Message(s, r).type = "signal"
      PROVE  Message(s, r) \in Frames \ RelayFrames
  BY <1>2, FrameTaken, FrameTypes DEF RelayFrames, Takes
<1>3. CASE FallsBack(s) \/ CommitsRecovery(s)
  BY <1>3 DEF Becomes, FallsBack, CommitsRecovery, OnRelayNow
<1>5. CASE Idles(s) \/ Creates(s)
  BY <1>5 DEF Idles, Unmoved, Creates, ServerQuiet
<1>6. CASE Closes(s)
  <2>1. down' = Sent(s, lease[s].bound, Closed) /\ lease[s].bound \in SUBSET Roles
    BY <1>6 DEF Closes, Ends, ServerInv, ServerOK, Lease
  <2>2. up' = up \/ \E r \in Roles : Takes(s, r)
    BY <1>6 DEF Closes
  <2> QED
    BY <1>1, <2>1, <2>2 DEF ServerQuiet
<1>4. ASSUME NEW r \in Roles,
             \/ Skips(s, r) \/ Refuses(s, r) \/ Forwards(s, r) \/ Relays(s, r)
             \/ HearsReady(s, r) \/ ChoosesP2P(s, r) \/ BeginsRecovery(s, r)
             \/ Waits(s, r) \/ Negotiates(s, r) \/ Joins(s, r)
      PROVE  ServerQuiet(s) \/ OnRelayNow(s)'
  <2>1. CASE Skips(s, r) \/ Refuses(s, r) \/ HearsReady(s, r) \/ Waits(s, r)
    <3>1. Takes(s, r) /\ (down' = down \/ Refuses(s, r))
      BY <2>1 DEF Skips, Unmoved, Refuses, HearsReady, Waits, Binds
    <3> QED
      BY <3>1 DEF ServerQuiet
  <2>2. CASE Forwards(s, r)
    <3>1. /\ Takes(s, r) /\ Message(s, r).type = "signal"
          /\ down' = Sent(s, {Other(r)}, Message(s, r))
          /\ {Other(r)} \in SUBSET Roles
      BY <2>2 DEF Forwards, Other, Roles
    <3> QED
      BY <1>2, <3>1 DEF ServerQuiet
  <2>3. CASE Relays(s, r) \/ Joins(s, r)
    BY <2>3 DEF Relays, Joins, SameChoice, Becomes, OnRelayNow
  <2>4. CASE ChoosesP2P(s, r)
    BY <1>1, <2>4 DEF ChoosesP2P, ServerQuiet
  <2>5. CASE BeginsRecovery(s, r)
    BY <1>1, <2>5 DEF BeginsRecovery, ServerQuiet
  <2>6. CASE Negotiates(s, r)
    BY <1>1, <2>6 DEF Negotiates, Binds, ServerQuiet
  <2> QED
    BY <1>4, <2>1, <2>2, <2>3, <2>4, <2>5, <2>6
<1> QED
  BY <1>3, <1>4, <1>5, <1>6 DEF ServerMove

LEMMA QuietUses ==
  ASSUME ChannelsOK, NEW s \in Sessions, ServerQuiet(s),
         UNCHANGED <<peer, browser>>, UsesRelay(s)'
  PROVE  UsesRelay(s)
<1>1. ASSUME NEW r \in Roles, Holds(up'[s][r], Binary)
      PROVE  Holds(up[s][r], Binary)
  BY <1>1, TakenHolds DEF ServerQuiet
<1>2. ASSUME NEW r \in Roles, NEW m \in RelayFrames, Holds(down'[s][r], m)
      PROVE  Holds(down[s][r], m)
  <2>1. m # Eof
    BY FrameTypes DEF RelayFrames
  <2> QED
    BY <1>2, <2>1, SentHolds, RefusedHolds DEF ServerQuiet
<1>3. \/ \E r \in Roles : Holds(up'[s][r], Binary)
      \/ \E r \in Roles, m \in RelayFrames : Holds(down'[s][r], m)
      \/ browser[s].selected = "relay"
      \/ ~peer.closed /\ peer.session = s /\ peer.selected = "relay"
  BY DEF UsesRelay, RelayFrames, Holds, Roles
<1> QED
  BY <1>1, <1>2, <1>3 DEF UsesRelay

LEMMA SetHolds ==
  ASSUME NEW c \in Channels, NEW s \in Sessions, NEW r \in Roles, NEW q, NEW m,
         Holds(q, m) => Holds(c[s][r], m),
         NEW t \in Sessions, NEW w \in Roles,
         Holds([c EXCEPT ![s][r] = q][t][w], m)
  PROVE  Holds(c[t][w], m)
<1>1. [c EXCEPT ![s][r] = q][t][w] = IF t = s /\ w = r THEN q ELSE c[t][w]
  BY SetAt
<1>2. CASE t = s /\ w = r
  <2>1. Holds(q, m)
    BY <1>1, <1>2
  <2> QED
    BY <1>2, <2>1
<1>3. CASE ~(t = s /\ w = r)
  BY <1>1, <1>3
<1> QED
  BY <1>2, <1>3

LEMMA SetAlone ==
  ASSUME NEW c \in Channels, NEW s, NEW r, NEW q, NEW t \in Sessions, t # s
  PROVE  [c EXCEPT ![s][r] = q][t] = c[t]
  BY DEF Channels

\* What leaves the lease alone keeps RelayOf if nobody comes to the relay and
\* an untouched lease stays so.
LEMMA RelayKept ==
  ASSUME NEW t \in Sessions, RelayOf(t), lease'[t] = lease[t],
         UsesRelay(t)' => UsesRelay(t),
         lease[t].state = "NONE" /\ Untouched(t) => Untouched(t)'
  PROVE  RelayOf(t)'
  BY DEF RelayOf, Shape, OnRelayNow

LEMMA ServerUntouched ==
  ASSUME ServerInv, NEW s \in Sessions, ServerMove(s), RelayOf(s),
         UNCHANGED <<peer, browser>>,
         invites' \subseteq invites \/ (Creates(s) /\ invites' = invites \cup {s}),
         lease'[s].state = "NONE"
  PROVE  Untouched(s)'
<1>1. ~Creates(s) /\ invites' \subseteq invites
  BY DEF Creates
<1>2. ASSUME lease[s].state = "NONE", NEW r \in Roles, Takes(s, r) PROVE FALSE
  BY <1>2 DEF RelayOf, Untouched, Takes, Incoming
<1>3. CASE /\ lease[s].state = "NONE" /\ lease'[s].executing = lease[s].executing
           /\ UNCHANGED <<up, down>>
  <2>1. Untouched(s) /\ up' = up /\ down' = down
    BY <1>3 DEF RelayOf
  <2> QED
    BY <1>1, <1>3, <2>1 DEF Untouched
<1>4. CASE Closes(s) \/ Idles(s) \/ FallsBack(s) \/ CommitsRecovery(s)
  BY <1>3, <1>4
  DEF Closes, Ends, Idles, Unmoved, SameChoice, Becomes, FallsBack, CommitsRecovery
<1>5. ASSUME NEW r \in Roles,
             \/ Skips(s, r) \/ Refuses(s, r) \/ Forwards(s, r) \/ Relays(s, r)
             \/ HearsReady(s, r) \/ ChoosesP2P(s, r) \/ BeginsRecovery(s, r)
             \/ Waits(s, r) \/ Negotiates(s, r) \/ Joins(s, r)
      PROVE  FALSE
  <2>1. CASE \/ Skips(s, r) \/ Refuses(s, r) \/ Forwards(s, r) \/ Relays(s, r)
             \/ HearsReady(s, r)
    BY <1>2, <2>1
    DEF Skips, Unmoved, SameChoice, Refuses, Forwards, Relays, HearsReady
  <2>2. CASE \/ ChoosesP2P(s, r) \/ BeginsRecovery(s, r)
             \/ Waits(s, r) \/ Negotiates(s, r) \/ Joins(s, r)
    BY <2>2 DEF ChoosesP2P, BeginsRecovery, Waits, Negotiates, Joins, Becomes
  <2> QED
    BY <1>5, <2>1, <2>2
<1> QED
  BY <1>1, <1>4, <1>5 DEF ServerMove

LEMMA ServerRelay ==
  ASSUME ServerInv, ServerStep, RelayOK
  PROVE  RelayOK'
<1>1. PICK s \in Sessions :
        /\ ServerMove(s) /\ HalfOpenMove(s)
        /\ invites' \subseteq invites \/ (Creates(s) /\ invites' = invites \cup {s})
  BY ServerMoves
<1>2. UNCHANGED <<peer, browser>> /\ ChannelsOK
  BY ServerMoves DEF ServerInv
<1>3. SUFFICES ASSUME NEW t \in Sessions PROVE RelayOf(t)'
  BY DEF RelayOK
<1>4. RelayOf(t) /\ RelayOf(s)
  BY DEF RelayOK
<1>5. CASE t # s
  <2>1. lease'[t] = lease[t] /\ up'[t] = up[t] /\ down'[t] = down[t]
    BY <1>1, <1>2, <1>5, ServerAlone
  <2>2. UsesRelay(t)' => UsesRelay(t)
    BY <1>2, <2>1 DEF UsesRelay, RelayFrames, Holds
  <2>3. Untouched(t) => Untouched(t)'
    BY <1>1, <1>2, <1>5, <2>1 DEF Untouched, Roles
  <2> QED
    BY <1>4, <2>1, <2>2, <2>3, RelayKept
<1>6. CASE t = s
  <2>1. Shape(s)'
    BY <1>1, <1>4, ServerShape DEF RelayOf
  <2>2. (lease[s].state = "NONE")' => Untouched(s)'
    BY <1>1, <1>2, <1>4, ServerUntouched
  <2>3. ASSUME lease'[s].executing, UsesRelay(s)' PROVE OnRelayNow(s)'
    <3>1. CASE OnRelayNow(s)
      BY <1>1, <1>4, <2>3, <3>1, RelayIsKept DEF RelayOf
    <3>2. CASE ~OnRelayNow(s) /\ ServerQuiet(s)
      <4>1. UsesRelay(s)
        BY <1>2, <2>3, <3>2, QuietUses
      <4>2. Creates(s)
        BY <1>1, <1>4, <2>3, <3>2, <4>1, RelayIsKept DEF RelayOf
      <4>3. Untouched(s)
        BY <1>4, <4>2 DEF Creates, RelayOf
      <4>4. ~UsesRelay(s)
        BY <4>3, ShortHolds DEF Untouched, UsesRelay
      <4> QED
        BY <4>1, <4>4
    <3> QED
      BY <1>1, <3>1, <3>2, ServerIsQuiet
  <2> QED
    BY <1>6, <2>1, <2>2, <2>3 DEF RelayOf
<1> QED
  BY <1>5, <1>6

-----------------------------------------------------------------------------
(* The phone.                                                              *)

LEMMA CalmRelay ==
  ASSUME PhoneInv, PhoneCalm, browser' = browser, NEW t \in Sessions, RelayOf(t)
  PROVE  RelayOf(t)'
<1>1. /\ peer'.session = peer.session /\ lease' = lease
      /\ invites' \subseteq invites /\ up \in Channels /\ down \in Channels
      /\ "device" \in Roles
  BY DEF PhoneCalm, PhoneInv, ChannelsOK, Roles
<1>2. ASSUME NEW r \in Roles, Holds(up'[t][r], Binary)
      PROVE  UsesRelay(t)
  <2>1. CASE Holds(up[t][r], Binary)
    BY <2>1 DEF UsesRelay
  <2>2. CASE ~Holds(up[t][r], Binary)
    <3>1. PICK ms \in Seq(Frames) :
            Sends(ms) /\ InSession(ms) /\ peer.session \in Sessions /\ ~peer.closed
      BY <1>2, <2>2 DEF PhoneCalm, Silent
    <3>2. up' = [up EXCEPT ![peer.session]["device"] =
                             up[peer.session]["device"] \o ms]
      BY <3>1 DEF Sends
    <3>3. up'[t][r] = IF t = peer.session /\ r = "device"
                        THEN up[peer.session]["device"] \o ms ELSE up[t][r]
      BY <1>1, <3>1, <3>2 DEF Channels
    <3>4. t = peer.session /\ r = "device" /\ up[t][r] \in Seq(Frames)
      BY <1>1, <1>2, <2>2, <3>3, ChannelTyped
    <3>5. Holds(up[t][r] \o ms, Binary)
      BY <1>2, <3>3, <3>4
    <3>6. Holds(ms, Binary)
      BY <2>2, <3>1, <3>4, <3>5, ConcatHolds
    <3>7. ToRelay
      BY <3>1, <3>6 DEF InSession, Holds
    <3> QED
      BY <1>1, <3>1, <3>4, <3>7 DEF ToRelay, UsesRelay, RelayFrames
  <2> QED
    BY <2>1, <2>2
<1>3. ASSUME NEW r \in Roles, NEW m, Holds(down'[t][r], m)
      PROVE  Holds(down[t][r], m)
  <2>1. CASE down' = down
    BY <1>3, <2>1
  <2>2. CASE down' # down
    <3> DEFINE d == down[peer.session]["device"]
    <3>1. /\ peer.session \in Sessions /\ d # <<>>
          /\ down' = [down EXCEPT ![peer.session]["device"] = Tail(d)]
      BY <2>2 DEF PhoneCalm, PhoneHears
    <3>2. d \in Seq(Frames)
      BY <1>1, <3>1, ChannelTyped
    <3> HIDE DEF d
    <3>3. Holds(Tail(d), m) => Holds(d, m)
      BY <3>1, <3>2, TailHolds
    <3> QED
      BY <1>1, <1>3, <3>1, <3>3, SetHolds DEF d
  <2> QED
    BY <2>1, <2>2
<1>4. ASSUME ~peer'.closed, peer'.session = t, peer'.selected = "relay"
      PROVE  UsesRelay(t)
  BY <1>1, <1>4 DEF PhoneCalm, ToRelay, UsesRelay, RelayFrames, Roles
<1>5. UsesRelay(t)' => UsesRelay(t)
  <2> SUFFICES ASSUME UsesRelay(t)' PROVE UsesRelay(t)
    OBVIOUS
  <2>1. \/ \E r \in Roles : Holds(up'[t][r], Binary)
        \/ \E r \in Roles, m \in RelayFrames : Holds(down'[t][r], m)
        \/ browser[t].selected = "relay"
        \/ ~peer'.closed /\ peer'.session = t /\ peer'.selected = "relay"
    BY DEF UsesRelay, RelayFrames, Holds, Roles
  <2>2. CASE \E r \in Roles, m \in RelayFrames : Holds(down'[t][r], m)
    BY <1>3, <2>2 DEF UsesRelay
  <2> QED
    BY <1>2, <1>4, <2>1, <2>2 DEF UsesRelay
<1>6. Untouched(t) => Untouched(t)'
  <2> SUFFICES ASSUME Untouched(t) PROVE Untouched(t)'
    OBVIOUS
  <2>1. t # peer.session
    BY DEF Untouched
  <2>2. up'[t] = up[t]
    <3>1. CASE Silent
      BY <3>1 DEF Silent
    <3>2. ASSUME NEW ms \in Seq(Frames), Sends(ms) PROVE up'[t] = up[t]
      BY <1>1, <2>1, <3>2 DEF Sends, Channels
    <3> QED
      BY <3>1, <3>2 DEF PhoneCalm
  <2>3. down'[t] = down[t]
    BY <1>1, <2>1 DEF PhoneCalm, PhoneHears, Channels
  <2> QED
    BY <1>1, <2>2, <2>3 DEF Untouched, Roles
<1> QED
  BY <1>1, <1>5, <1>6, RelayKept

\* A step that leaves the session, or begins another.
LEMMA TurnRelay ==
  ASSUME ChannelsOK, lease' = lease, browser' = browser,
         invites' \subseteq invites, NEW s \in Sessions,
         NEW q \in Seq(Frames), NEW d \in Seq(Frames),
         up' = [up EXCEPT ![s]["device"] = q],
         down' = [down EXCEPT ![s]["device"] = d],
         Holds(q, Binary) => Holds(up[s]["device"], Binary),
         \A m \in RelayFrames : Holds(d, m) => Holds(down[s]["device"], m),
         NEW t \in Sessions, RelayOf(t),
         peer'.session # t \/ peer'.selected # "relay" \/ peer' = peer,
         Untouched(t) => peer'.session # t /\ t # s
  PROVE  RelayOf(t)'
<1>1. up \in Channels /\ down \in Channels /\ "device" \in Roles
  BY DEF ChannelsOK, Roles
<1>2. ASSUME NEW r \in Roles, Holds(up'[t][r], Binary)
      PROVE  Holds(up[t][r], Binary)
  BY <1>1, <1>2, SetHolds
<1>3. ASSUME NEW r \in Roles, NEW m \in RelayFrames, Holds(down'[t][r], m)
      PROVE  Holds(down[t][r], m)
  BY <1>1, <1>3, SetHolds
<1>4. UsesRelay(t)' => UsesRelay(t)
  <2> SUFFICES ASSUME UsesRelay(t)' PROVE UsesRelay(t)
    OBVIOUS
  <2>1. \/ \E r \in Roles : Holds(up'[t][r], Binary)
        \/ \E r \in Roles, m \in RelayFrames : Holds(down'[t][r], m)
        \/ browser[t].selected = "relay"
        \/ ~peer'.closed /\ peer'.session = t /\ peer'.selected = "relay"
    BY DEF UsesRelay, RelayFrames, Holds, Roles
  <2> QED
    BY <1>2, <1>3, <2>1 DEF UsesRelay
<1>5. Untouched(t) => Untouched(t)'
  <2> SUFFICES ASSUME Untouched(t) PROVE Untouched(t)'
    OBVIOUS
  <2>1. up'[t] = up[t] /\ down'[t] = down[t]
    BY <1>1, SetAlone
  <2> QED
    BY <2>1 DEF Untouched, Roles
<1> QED
  BY <1>4, <1>5, RelayKept

LEMMA AcceptRelay ==
  ASSUME PhoneInv, NEW s \in Sessions, AcceptInvitation(s), browser' = browser,
         NEW t \in Sessions, RelayOf(t)
  PROVE  RelayOf(t)'
<1>1. up \in Channels /\ down \in Channels /\ "device" \in Roles
  BY DEF PhoneInv, ChannelsOK, Roles
<1>2. /\ s \in invites /\ invites' \subseteq invites /\ lease' = lease /\ up' = up
      /\ down' = [down EXCEPT ![s]["device"] = <<>>]
      /\ peer'.session = s /\ peer'.selected = "none"
  BY DEF AcceptInvitation, Invited, Fresh
<1>3. [up EXCEPT ![s]["device"] = up[s]["device"]] = up
      /\ up[s]["device"] \in Seq(Frames)
  BY <1>1 DEF Channels
<1>4. \A m : ~Holds(<<>>, m)
  BY ShortHolds
<1>5. Untouched(t) => peer'.session # t /\ t # s
  BY <1>2 DEF Untouched
<1> QED
  BY <1>2, <1>3, <1>4, <1>5, ShortSequences, TurnRelay DEF PhoneInv

LEMMA RelayOpensRelay ==
  ASSUME PhoneInv, RelayOpens, browser' = browser, NEW t \in Sessions, RelayOf(t)
  PROVE  RelayOf(t)'
<1>1. peer.session \in Sessions /\ peer \in Peer /\ up \in Channels
      /\ down \in Channels /\ "device" \in Roles /\ ~peer.closed
  BY CallbackFinds DEF RelayOpens, ChannelsOK, Roles, Running
<1>2. PICK v \in Versions : Become([peer EXCEPT !.version = v], <<Hello(v)>>)
  BY DEF RelayOpens
<1>3. Hello(v) \in Frames
  BY RelayAssumption, FramesBuilt
<1> DEFINE q == up[peer.session]["device"]
<1>4. /\ peer'.session = peer.session /\ peer'.selected = peer.selected
      /\ UNCHANGED <<lease, invites, down>>
      /\ up' = [up EXCEPT ![peer.session]["device"] = q \o <<Hello(v)>>]
  BY <1>1, <1>2 DEF Become, Peer, RelayOpens, others
<1>5. q \in Seq(Frames) /\ <<Hello(v)>> \in Seq(Frames)
  BY <1>1, <1>3, ChannelTyped, ShortSequences
<1> HIDE DEF q
<1>6. q \o <<Hello(v)>> \in Seq(Frames)
      /\ (Holds(q \o <<Hello(v)>>, Binary) => Holds(q, Binary))
  <2>1. ~Holds(<<Hello(v)>>, Binary)
    BY ShortHolds, FrameTypes
  <2>2. q \o <<Hello(v)>> \in Seq(Frames)
    BY <1>5, ConcatAt
  <2> QED
    BY <1>5, <2>1, <2>2, ConcatHolds
<1>7. UsesRelay(t)' => UsesRelay(t)
  <2> SUFFICES ASSUME UsesRelay(t)' PROVE UsesRelay(t)
    OBVIOUS
  <2>1. \/ \E r \in Roles : Holds(up'[t][r], Binary)
        \/ \E r \in Roles, m \in RelayFrames : Holds(down[t][r], m)
        \/ browser[t].selected = "relay"
        \/ peer.session = t /\ peer.selected = "relay"
    BY <1>4 DEF UsesRelay, RelayFrames, Holds, Roles
  <2>2. ASSUME NEW r \in Roles, Holds(up'[t][r], Binary) PROVE UsesRelay(t)
    <3>1. Holds(up[t][r], Binary)
      BY <1>1, <1>4, <1>6, <2>2, SetHolds DEF q
    <3> QED
      BY <3>1 DEF UsesRelay
  <2> QED
    BY <1>1, <2>1, <2>2 DEF UsesRelay
<1>8. Untouched(t) => Untouched(t)'
  <2> SUFFICES ASSUME Untouched(t) PROVE Untouched(t)'
    OBVIOUS
  <2>1. t # peer.session
    BY DEF Untouched
  <2>2. up'[t] = up[t]
    BY <1>1, <1>4, <2>1, SetAlone
  <2> QED
    BY <1>4, <2>1, <2>2 DEF Untouched, Roles
<1> QED
  BY <1>4, <1>7, <1>8, RelayKept

LEMMA LeavingRelay ==
  ASSUME PhoneInv, Teardown \/ Crash, browser' = browser,
         NEW t \in Sessions, RelayOf(t)
  PROVE  RelayOf(t)'
<1>1. /\ up \in Channels /\ down \in Channels /\ "device" \in Roles
      /\ peer.session \in Sessions \cup {NoSession}
  BY DEF PhoneInv, PhoneOK, ChannelsOK, Roles, Peer
<1>2. peer' = Idle /\ UNCHANGED <<lease, invites>>
  BY DEF Teardown, Crash, others
<1>3. peer'.session # t /\ peer'.selected = "none"
  BY <1>2, RelayAssumption DEF Idle, Fresh
<1>4. Untouched(t) => t # peer.session
  BY DEF Untouched
<1>5. CASE peer.session = NoSession
  <2>1. UNCHANGED <<up, down>>
    BY <1>5 DEF Teardown, Crash
  <2>2. UsesRelay(t)' => UsesRelay(t)
    BY <1>3, <2>1 DEF UsesRelay, RelayFrames, Holds
  <2>3. Untouched(t) => Untouched(t)'
    BY <1>2, <1>3, <2>1 DEF Untouched, Roles
  <2> QED
    BY <1>2, <2>2, <2>3, RelayKept
<1>6. CASE peer.session # NoSession
  <2> DEFINE q == up[peer.session]["device"]
  <2>1. peer.session \in Sessions /\ q \in Seq(Frames)
    BY <1>1, <1>6, ChannelTyped
  <2>2. down' = [down EXCEPT ![peer.session]["device"] = <<>>]
    BY <1>6 DEF Teardown, Crash
  <2>3. up = [up EXCEPT ![peer.session]["device"] = q]
    BY <1>1, <2>1 DEF Channels
  <2>4. PICK n \in {q, Append(q, Eof), <<>>} :
          up' = [up EXCEPT ![peer.session]["device"] = n]
    BY <1>6, <2>3 DEF Teardown, Crash
  <2>5. n \in Seq(Frames) /\ (Holds(n, Binary) => Holds(q, Binary))
    <3> HIDE DEF q
    <3>1. Eof \in Frames /\ Eof # Binary
      BY FramesBuilt, FrameTypes
    <3>2. Append(q, Eof) \in Seq(Frames)
          /\ (Holds(Append(q, Eof), Binary) => Holds(q, Binary))
      BY <2>1, <3>1, AppendAt, AppendHolds
    <3>3. ~Holds(<<>>, Binary)
      BY ShortHolds
    <3> QED
      BY <2>1, <2>4, <3>2, <3>3, ShortSequences
  <2>6. \A m : ~Holds(<<>>, m)
    BY ShortHolds
  <2> HIDE DEF q
  <2> QED
    BY <1>2, <1>3, <1>4, <2>1, <2>2, <2>4, <2>5, <2>6, ShortSequences, TurnRelay
    DEF PhoneInv, q
<1> QED
  BY <1>5, <1>6

LEMMA PhoneRelay ==
  ASSUME PhoneInv, PeerStep, RelayOK
  PROVE  RelayOK'
<1>1. SUFFICES ASSUME NEW t \in Sessions PROVE RelayOf(t)'
  BY DEF RelayOK
<1>2. RelayOf(t) /\ browser' = browser
  BY DEF RelayOK, PeerStep
<1>3. CASE PhoneCalm
  BY <1>2, <1>3, CalmRelay
<1>4. ASSUME NEW s \in Sessions, AcceptInvitation(s) PROVE RelayOf(t)'
  BY <1>2, <1>4, AcceptRelay
<1>5. CASE RelayOpens
  BY <1>2, <1>5, RelayOpensRelay
<1>6. CASE Teardown \/ Crash
  BY <1>2, <1>6, LeavingRelay
<1> QED
  BY <1>3, <1>4, <1>5, <1>6, PhoneSteps

-----------------------------------------------------------------------------
(* The browser.                                                            *)

LEMMA BrowserRelay ==
  ASSUME TypeOK, NEW s \in Sessions, BrowserStep(s), RelayOK
  PROVE  RelayOK'
<1>1. PICK b \in Browser, ms \in Seq(Frames) :
        /\ BrowserSets(s, b, ms)
        /\ \/ /\ Connects(browser[s], b, ms) /\ lease[s].state # "NONE"
              /\ UNCHANGED <<down, pipe>>
           \/ /\ Leaves(browser[s], b, ms) /\ pipe' = pipe
              /\ down' = [down EXCEPT ![s]["controller"] = <<>>]
           \/ /\ Hears(browser[s], b, Head(down[s]["controller"])) /\ ms = <<>>
              /\ down[s]["controller"] # <<>> /\ pipe' = pipe
              /\ down' = [down EXCEPT ![s]["controller"] = Tail(down[s]["controller"])]
           \/ /\ \/ Speaks(browser[s], b, ms) \/ Reports(browser[s], b, ms)
                 \/ GivesUp(browser[s], b, ms) \/ Controls(browser[s], b, ms)
              /\ UNCHANGED <<down, pipe>>
           \/ /\ browser[s].state = "open" /\ browser[s].selected = "p2p"
              /\ b = browser[s] /\ ms = <<>> /\ down' = down
              /\ pipe' = IF peer.session = s THEN pipe + 1 ELSE pipe
  BY BrowserMoves DEF BrowserMove
<1>2. SUFFICES ASSUME NEW t \in Sessions PROVE RelayOf(t)'
  BY DEF RelayOK
<1>3. /\ up \in Channels /\ down \in Channels /\ "controller" \in Roles
      /\ browser \in [Sessions -> Browser] /\ RelayOf(t) /\ RelayOf(s)
  BY DEF TypeOK, Roles, RelayOK
<1> DEFINE q == up[s]["controller"]
           d == down[s]["controller"]
<1>4. /\ browser' = [browser EXCEPT ![s] = b]
      /\ up' = [up EXCEPT ![s]["controller"] = q \o ms]
      /\ UNCHANGED <<lease, halfOpen, invites, peer>>
  BY <1>1 DEF BrowserSets
<1>5. q \in Seq(Frames) /\ d \in Seq(Frames)
  BY <1>3, ChannelTyped
<1>6. ASSUME NEW r \in Roles, NEW m, Holds(down'[t][r], m)
      PROVE  Holds(down[t][r], m)
  <2>1. CASE down' = down
    BY <1>6, <2>1
  <2>2. CASE down' = [down EXCEPT ![s]["controller"] = <<>>]
    <3>1. ~Holds(<<>>, m)
      BY ShortHolds
    <3> QED
      BY <1>3, <1>6, <2>2, <3>1, SetHolds
  <2>3. CASE d # <<>> /\ down' = [down EXCEPT ![s]["controller"] = Tail(d)]
    <3> HIDE DEF d
    <3>1. Holds(Tail(d), m) => Holds(d, m)
      BY <1>5, <2>3, TailHolds
    <3> QED
      BY <1>3, <1>6, <2>3, <3>1, SetHolds DEF d
  <2> QED
    BY <1>1, <2>1, <2>2, <2>3
<1>7. b.selected = "relay" => UsesRelay(s)
  <2> SUFFICES ASSUME b.selected = "relay" PROVE UsesRelay(s)
    OBVIOUS
  <2>1. CASE browser[s].selected = "relay"
    BY <2>1 DEF UsesRelay
  <2>2. CASE Hears(browser[s], b, Head(d)) /\ d # <<>> /\ browser[s].selected # "relay"
    <3> DEFINE m == Head(d)
    <3>1. m \in Frames
      BY <1>5, <2>2, TailAt
    <3>2. \/ m.type = "ready" /\ m.transport = "relay"
          \/ m.type = "transport" /\ m.phase = "ready"
      BY <2>2 DEF Hears
    <3>3. m \in RelayFrames
      BY <3>1, <3>2, FrameIs DEF RelayFrames
    <3>4. Holds(d, m)
      BY <1>5, <2>2, TailAt DEF Holds
    <3> HIDE DEF m
    <3> QED
      BY <1>3, <3>3, <3>4 DEF UsesRelay
  <2> QED
    BY <1>1, <2>1, <2>2
    DEF Connects, Leaves, Speaks, Reports, GivesUp, Controls, SameView
<1>8. Holds(ms, Binary) => UsesRelay(s)
  <2>1. ms = <<Binary>> => browser[s].selected = "relay"
    BY <1>1, FrameTypes
    DEF Connects, Leaves, Speaks, Reports, GivesUp, Controls
  <2>2. \/ ms = <<>> \/ ms = <<Binary>> \/ ms = <<Eof>>
        \/ \E v \in {1, 2} : ms = <<Hello(v)>>
        \/ \E k \in SignalKinds, n \in Nat : ms = <<Signal(k, n)>>
        \/ \E x \in {"ready", "failed"}, n \in Nat : ms = <<P2PState(x, n)>>
    BY <1>1 DEF Connects, Leaves, Speaks, Reports, GivesUp, Controls
  <2>3. Holds(ms, Binary) => ms = <<Binary>>
    BY <2>2, ShortHolds, FrameTypes
  <2> QED
    BY <2>1, <2>3 DEF UsesRelay
<1>9. ASSUME NEW r \in Roles, Holds(up'[t][r], Binary) PROVE UsesRelay(t)
  <2>1. up'[t][r] = IF t = s /\ r = "controller" THEN q \o ms ELSE up[t][r]
    BY <1>3, <1>4 DEF Channels
  <2>2. CASE t = s /\ r = "controller"
    <3> HIDE DEF q
    <3>1. Holds(q \o ms, Binary)
      BY <1>9, <2>1, <2>2
    <3>2. Holds(q, Binary) \/ Holds(ms, Binary)
      BY <1>5, <3>1, ConcatHolds
    <3> QED
      BY <1>8, <2>2, <3>2 DEF UsesRelay, q
  <2>3. CASE ~(t = s /\ r = "controller")
    <3>1. Holds(up[t][r], Binary)
      BY <1>9, <2>1, <2>3
    <3> QED
      BY <3>1 DEF UsesRelay
  <2> QED
    BY <2>2, <2>3
<1>10. UsesRelay(t)' => UsesRelay(t)
  <2> SUFFICES ASSUME UsesRelay(t)' PROVE UsesRelay(t)
    OBVIOUS
  <2>1. \/ \E r \in Roles : Holds(up'[t][r], Binary)
        \/ \E r \in Roles, m \in RelayFrames : Holds(down'[t][r], m)
        \/ browser'[t].selected = "relay"
        \/ ~peer.closed /\ peer.session = t /\ peer.selected = "relay"
    BY <1>4 DEF UsesRelay, RelayFrames, Holds, Roles
  <2>2. ASSUME NEW r \in Roles, NEW m \in RelayFrames, Holds(down'[t][r], m)
        PROVE  UsesRelay(t)
    <3>1. Holds(down[t][r], m)
      BY <1>6, <2>2
    <3> QED
      BY <3>1 DEF UsesRelay
  <2>3. browser'[t] = IF t = s THEN b ELSE browser[t]
    BY <1>3, <1>4
  <2>4. CASE browser'[t].selected = "relay"
    BY <1>7, <2>3, <2>4 DEF UsesRelay
  <2> QED
    BY <1>9, <2>1, <2>2, <2>4 DEF UsesRelay
<1>11. lease[t].state = "NONE" /\ Untouched(t) => Untouched(t)'
  <2> SUFFICES ASSUME lease[t].state = "NONE", Untouched(t) PROVE Untouched(t)'
    OBVIOUS
  <2>1. browser[t].state = "idle"
    BY DEF Untouched
  <2>2. t # s
    BY <1>1, <2>1
    DEF Connects, Leaves, Hears, Speaks, Reports, GivesUp, Controls
  <2>3. browser'[t] = browser[t] /\ up'[t] = up[t] /\ down'[t] = down[t]
    <3>1. browser'[t] = browser[t]
      BY <1>3, <1>4, <2>2
    <3>2. up'[t] = up[t]
      BY <1>3, <1>4, <2>2, SetAlone
    <3>3. down'[t] = down[t]
      BY <1>1, <1>3, <2>2 DEF Channels
    <3> QED
      BY <3>1, <3>2, <3>3
  <2> QED
    BY <1>4, <2>3 DEF Untouched, Roles
<1> QED
  BY <1>3, <1>4, <1>10, <1>11, RelayKept

LEMMA StepRelay ==
  ASSUME IInv, RelayOK, [Next]_vars
  PROVE  RelayOK'
<1>1. ServerInv /\ PhoneInv /\ ChannelsOK /\ TypeOK
  BY TypeParts DEF IInv, ServerInv, PhoneInv
<1>2. CASE ServerStep
  BY <1>1, <1>2, ServerRelay
<1>3. CASE PeerStep
  BY <1>1, <1>3, PhoneRelay
<1>4. ASSUME NEW s \in Sessions, BrowserStep(s) PROVE RelayOK'
  BY <1>1, <1>4, BrowserRelay
<1>5. CASE UNCHANGED vars
  BY <1>5
  DEF vars, relayVars, peerVars, RelayOK, RelayOf, Untouched, Shape, UsesRelay,
      RelayFrames, OnRelayNow, Holds, Roles
<1> QED
  BY <1>2, <1>3, <1>4, <1>5 DEF Next

LEMMA InitRelay == Init => RelayOK
<1>1. SUFFICES ASSUME Init, NEW t \in Sessions PROVE RelayOf(t)
  BY DEF RelayOK
<1>2. /\ lease[t] = NoLease /\ peer = Idle /\ invites = {}
      /\ \A r \in Roles : up[t][r] = <<>> /\ down[t][r] = <<>>
      /\ browser[t].state = "idle" /\ browser[t].selected = "none"
  BY <1>1 DEF Init, RelayInit, PeerInit, NoMessages
<1>3. peer.session # t
  BY <1>2, RelayAssumption DEF Idle, Fresh
<1>4. Roles # {}
  BY DEF Roles
<1> QED
  BY <1>2, <1>3, <1>4 DEF RelayOf, Untouched, Shape, NoLease

\* Whoever writes to the relay finds it selected: the phone and the browser go
\* there only with what the server sends once it is there itself
\* (completeInitialRelaySelection, handleTransportState), and the server never
\* leaves it (handleP2PState): no frame written to the relay is refused for the
\* choice of the transport (relayBinary), whoever failed first.
THEOREM RelayIsOpen == Spec => []RelayOpenForItsUsers
<1>1. Init => IInv /\ RelayOK
  BY InitIInv, InitRelay
<1>2. IInv /\ RelayOK /\ [Next]_vars => (IInv /\ RelayOK)'
  BY StepIInv, StepRelay
<1>3. IInv /\ RelayOK => RelayOpenForItsUsers
  <2> SUFFICES ASSUME IInv, RelayOK, NEW s \in Sessions,
                      lease[s].executing, MayWriteRelay(s)
               PROVE  OnRelayNow(s)
    BY DEF RelayOpenForItsUsers
  <2>1. ASSUME NEW r \in Roles, Incoming(s, r), Message(s, r) = Binary
        PROVE  Holds(up[s][r], Binary)
    <3>1. up[s][r] \in Seq(Frames) /\ up[s][r] # <<>>
      BY <2>1, ChannelTyped DEF IInv, TypeOK, Incoming
    <3>2. 1 \in DOMAIN up[s][r] /\ up[s][r][1] = Binary
      BY <2>1, <3>1, TailAt DEF Message
    <3> QED
      BY <3>2 DEF Holds
  <2>2. UsesRelay(s)
    BY <2>1 DEF MayWriteRelay, Running, UsesRelay
  <2> QED
    BY <2>2 DEF RelayOK, RelayOf
<1> QED
  BY <1>1, <1>2, <1>3, PTL DEF Spec
=============================================================================
