---------------------------- MODULE RemoteControl ----------------------------
(***************************************************************************)
(* A remote-control lease with everyone who takes part in it: the server   *)
(* (RelayService), the phone (RemotePeer) and the browser.  The browser's  *)
(* code is not in the repository: the model's does whatever                *)
(* pc/docs/remote-control-relay.md allows a controller to do.              *)
(***************************************************************************)
EXTENDS RemotePeer

CONSTANT Viewers   \* leases whose browser ever connects

ASSUME ViewersAssumption == Viewers \subseteq Sessions

VARIABLE browser   \* the controllers, one per lease

vars == <<relayVars, peerVars, browser>>

Browser ==
  [state : {"idle", "open", "gone"}, started : BOOLEAN,
   selected : Transports, seq : Nat, offered : BOOLEAN, answered : BOOLEAN,
   report : {"none", "ready", "failed"}]

Init ==
  /\ RelayInit /\ PeerInit
  /\ browser = [s \in Sessions |->
       [state |-> "idle", started |-> FALSE, selected |-> "none", seq |-> 0,
        offered |-> FALSE, answered |-> FALSE, report |-> "none"]]

-----------------------------------------------------------------------------
(* The browser.                                                            *)

BrowserSends(s, x, ms) ==
  /\ browser' = [browser EXCEPT ![s] = x]
  /\ up' = [up EXCEPT ![s]["controller"] = @ \o ms]
  /\ UNCHANGED <<lease, holder, halfOpen, invites, events, peer, consumed>>

\* It has its ticket once createSession has returned.
BrowserConnects(s) ==
  /\ s \in Viewers /\ browser[s].state = "idle"
  /\ lease[s].state # "NONE" /\ ~lease[s].publishing
  /\ \E v \in Versions :
       BrowserSends(s, [browser[s] EXCEPT !.state = "open"], <<Hello(v)>>)
  /\ UNCHANGED <<down, pipe, budget>>

BrowserLeaves(s) ==
  /\ browser[s].state = "open"
  /\ BrowserSends(s, [browser[s] EXCEPT !.state = "gone"], <<Eof>>)
  /\ down' = [down EXCEPT ![s]["controller"] = <<>>]
  /\ UNCHANGED <<pipe, budget>>

\* One frame from the relay.  A browser whose P2P has failed already waits
\* for the recovery.
BrowserReceives(s) ==
  /\ browser[s].state = "open" /\ down[s]["controller"] # <<>>
  /\ LET b == browser[s]
         m == Head(down[s]["controller"])
     IN /\ down' = [down EXCEPT ![s]["controller"] = Tail(@)]
        /\ BrowserSends(s,
             CASE m.type = "start" -> [b EXCEPT !.started = TRUE]
               [] m.type = "signal" ->
                    [b EXCEPT !.answered = @ \/ m.kind = "answer"]
               [] m.type = "ready" ->
                    [b EXCEPT !.selected = IF m.transport = "p2p"
                                              /\ b.report = "failed"
                                             THEN "none" ELSE m.transport]
               [] m.type = "transport" ->
                    [b EXCEPT !.selected = IF m.phase = "ready"
                                             THEN "relay" ELSE "none"]
               [] m.type \in {"closed", "eof"} -> [b EXCEPT !.state = "gone"]
               [] OTHER -> b,
             <<>>)
  /\ UNCHANGED <<pipe, budget>>

\* Negotiation: signals until a state has been reported or relay was chosen.
MaySend(s) ==
  /\ browser[s].state = "open" /\ browser[s].started
  /\ browser[s].selected = "none" /\ browser[s].report = "none"

BrowserOffers(s) ==
  /\ MaySend(s) /\ ~browser[s].offered
  /\ BrowserSends(s, [browser[s] EXCEPT !.offered = TRUE, !.seq = @ + 1],
                  <<Signal("offer", browser[s].seq)>>)
  /\ UNCHANGED <<down, pipe, budget>>

BrowserCandidate(s) ==
  /\ MaySend(s) /\ browser[s].offered
  /\ Spend("candidate")
  /\ BrowserSends(s, [browser[s] EXCEPT !.seq = @ + 1],
                  <<Signal("ice-candidate", browser[s].seq)>>)
  /\ UNCHANGED <<down, pipe>>

BrowserReady(s) ==
  /\ MaySend(s) /\ browser[s].answered
  /\ BrowserSends(s, [browser[s] EXCEPT !.report = "ready", !.seq = @ + 1],
                  <<P2PState("ready", browser[s].seq)>>)
  /\ UNCHANGED <<down, pipe, budget>>

\* During the negotiation or while P2P is in use; the input freezes.
BrowserFails(s) ==
  /\ browser[s].state = "open" /\ browser[s].started
  /\ browser[s].report # "failed"
  /\ \/ browser[s].selected = "p2p"
     \/ browser[s].selected = "none"
  /\ BrowserSends(s, [browser[s] EXCEPT !.report = "failed", !.seq = @ + 1,
                                        !.selected = "none"],
                  <<P2PState("failed", browser[s].seq)>>)
  /\ UNCHANGED <<down, pipe, budget>>

\* Input, on the transport the relay has announced.
BrowserControls(s) ==
  /\ browser[s].state = "open"
  /\ Spend("control")
  /\ \/ /\ browser[s].selected = "relay"
        /\ BrowserSends(s, browser[s], <<Binary>>)
        /\ UNCHANGED <<down, pipe>>
     \/ /\ browser[s].selected = "p2p"
        /\ pipe' = IF peer.session = s THEN pipe + 1 ELSE pipe
        /\ BrowserSends(s, browser[s], <<>>)
        /\ UNCHANGED down

BrowserStep(s) ==
  \/ BrowserConnects(s) \/ BrowserLeaves(s) \/ BrowserReceives(s)
  \/ BrowserOffers(s) \/ BrowserCandidate(s) \/ BrowserReady(s)
  \/ BrowserFails(s) \/ BrowserControls(s)

-----------------------------------------------------------------------------

ServerStep ==
  /\ \E s \in Sessions :
          \/ \E p2pAllowed \in Preferences : CreateSession(s, p2pAllowed)
          \/ Published(s) \/ PublishFails(s)
          \/ CloseSession(s)
          \/ NegotiationTimeout(s) \/ RecoveryTimeout(s)
          \/ DeviceEvent(s) \/ DeadSocketCloses(s)
          \/ \E r \in Roles : ReceiveFrame(s, r) \/ RefuseHello(s, r)
  /\ UNCHANGED <<peerVars, browser>>

HandleRelayFrame ==
  \/ \E works \in BOOLEAN : StartP2P(works) \/ HandleP2PSignal(works)
  \/ SelectInitialTransport \/ RecoveryBegins \/ RecoveryCommits
  \/ RelayBinary \/ RelayCloses

\* The sidecar's data channel opens once the browser has the answer.
OpenChannel ==
  /\ Running /\ browser[peer.session].answered
  /\ SidecarReady

PeerStep ==
  /\ \/ \E s \in Sessions :
          \/ DropInvitation(s) \/ RejectInvitation(s) \/ AcceptInvitation(s)
          \/ EventLost(s)
     \/ RelayOpens \/ PeerCloses \/ Teardown \/ Crash
     \/ HandleRelayFrame
     \/ LocalDescription \/ LocalCandidate \/ OpenChannel
     \/ SidecarDisconnected \/ SidecarFails \/ GraceEnds \/ SidecarBinary
     \/ LocalOpens
     \/ \E sends \in BOOLEAN : LocalBinary(sends)
  /\ UNCHANGED browser

Next == ServerStep \/ PeerStep \/ \E s \in Sessions : BrowserStep(s)

Spec == Init /\ [][Next]_vars

\* The event loops of the server and of the phone run, with the server's
\* timers; nobody has to close a lease, and no lease has to expire.
ServerReacts ==
  /\ \E s \in Sessions :
       \/ NegotiationTimeout(s) \/ RecoveryTimeout(s) \/ DeadSocketCloses(s)
       \/ \E r \in Roles : ReceiveFrame(s, r)
  /\ UNCHANGED <<peerVars, browser>>
PeerReacts ==
  /\ RelayOpens \/ HandleRelayFrame \/ Teardown
  /\ UNCHANGED browser
Fairness == WF_vars(ServerReacts) /\ WF_vars(PeerReacts)

FairSpec == Spec /\ Fairness

-----------------------------------------------------------------------------
(* Properties.                                                             *)

\* Every variable has its type.
TypeOK ==
  /\ lease \in [Sessions -> Lease]
  /\ holder \in Sessions \cup {NoSession}
  /\ up \in Channels /\ down \in Channels
  /\ peer \in Peer
  /\ browser \in [Sessions -> Browser]
  /\ halfOpen \subseteq Sessions /\ invites \subseteq Sessions
  /\ consumed \subseteq Sessions
  /\ events \subseteq Sessions
  /\ pipe \in Nat /\ budget \in [Budget -> Nat]

\* activeSessionByDevice is the lease being executed, and there is at most one
\* for the device: finish frees the device whatever ended the lease, and a
\* late end of an old lease never frees the device of a new one.
OneLease == \A s \in Sessions : lease[s].executing <=> holder = s

\* Whoever writes binary frames to the relay finds the relay selected: the
\* phone and the browser go to the relay only after the server did, and the
\* server does not leave it again while the lease lasts.
OnRelayNow(s) == lease[s].state = "ACTIVE" /\ lease[s].selected = "relay"
MayWriteRelay(s) ==
  \/ browser[s].selected = "relay"
  \/ Running /\ peer.session = s /\ peer.selected = "relay"
  \/ \E r \in Roles : Incoming(s, r) /\ Message(s, r) = Binary
RelayOpenForItsUsers ==
  \A s \in Sessions : lease[s].executing /\ MayWriteRelay(s) => OnRelayNow(s)

\* The phone never ends a session for a fault in the order of the transport
\* frames, the recovery or the data: pairing, P2P failures of either side at
\* any moment, the timeout and the recovery interleave without one.
NoTransportFault == peer.code \notin Faults

\* Once nothing is in flight, server, phone and browser agree on where an
\* active lease carries its data, whoever failed first.
Quiet(s) == \A r \in Roles : up[s][r] = <<>> /\ down[s][r] = <<>>
QuietAgreement ==
  \A s \in Sessions :
    lease[s].executing /\ lease[s].state = "ACTIVE"
      /\ s \notin halfOpen /\ Quiet(s)
    => /\ browser[s].selected = lease[s].selected
       /\ peer.session = s
       /\ ~peer.closed => peer.selected = lease[s].selected

\* The device socket of a running lease is that of the session the phone is in,
\* or its end is about to be noticed: closing, crashing and taking the same
\* invitation again never leave a lease bound to a socket nobody serves.
BoundToThePhone ==
  \A s \in Sessions :
    lease[s].executing /\ "device" \in lease[s].bound /\ s \notin halfOpen =>
      \/ peer.session = s /\ peer.version # 0
      \/ \E i \in DOMAIN up[s]["device"] : up[s]["device"][i] = Eof

EndTogether ==
  \A s \in Sessions :
    /\ (peer.session = s /\ ~lease[s].executing) ~> (peer.session # s)
    /\ (lease[s].executing /\ "device" \in lease[s].bound
         /\ peer.session # s)
       ~> ~lease[s].executing

Choosing == {"SELECTING_TRANSPORT", "RECOVERING_TRANSPORT"}
SelectionEnds ==
  \A s \in Sessions :
    lease[s].state \in Choosing ~> lease[s].state \notin Choosing

\* Without waiting for the expiry of the lease: when a lease is over the phone
\* leaves the session and frees its slot, when the phone is gone a lease it was
\* bound to ends, and choosing or recovering a transport comes to an end.
SessionsSettle == EndTogether /\ SelectionEnds

\* pc/README.md: a negotiation that fails or times out leads to the relay; it
\* never ends the lease, neither by a signal the server then refuses nor by
\* one the phone does.
FailedNegotiationFallsBack ==
  /\ \A s \in Sessions : ~lease[s].refused
  /\ peer.code # "REMOTE_P2P_SIGNAL_INVALID"
=============================================================================
