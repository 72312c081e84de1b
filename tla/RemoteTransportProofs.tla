----------------------- MODULE RemoteTransportProofs -----------------------
(***************************************************************************)
(* The transport of a remote-control lease, for any number of leases, any  *)
(* budget and any browser: the phone never finds a fault in the order of   *)
(* what it is sent, and once nothing is in flight server, phone and        *)
(* browser agree on the transport.                                         *)
(***************************************************************************)
EXTENDS RemoteControlProofs

-----------------------------------------------------------------------------
(* The phone and the server agree on a session.                            *)

\* What the phone and the server make of a session, p being the phone's view of
\* it, l the lease, b whether the phone's socket is bound to it, u what the
\* phone has sent and the server not yet read, d what goes the other way.
Stage0(p) ==
  /\ ~p.attempt /\ ~p.paired /\ ~p.awaiting /\ ~p.recovering /\ ~p.bridged
  /\ p.selected = "none" /\ p.sidecar = "none" /\ p.local = "none"
  /\ p.controls["relay"] = 0 /\ p.controls["p2p"] = 0
  /\ ~p.readyReported /\ ~p.failureReported

\* The flags of the phone that go together.
PhoneShape(p) ==
  /\ ~p.attempt => /\ p.sidecar = "none" /\ ~p.readyReported
                   /\ ~p.failureReported /\ ~p.awaiting /\ ~p.recovering
  /\ p.readyReported /\ ~p.failureReported /\ ~p.paired =>
       p.ready /\ p.sidecar # "none"
  /\ p.failureReported /\ ~p.paired => p.sidecar = "none" /\ p.controls["p2p"] = 0
  /\ p.selected = "relay" => p.sidecar = "none" /\ p.controls["p2p"] = 0
  /\ p.paired <=> p.selected # "none"
  /\ p.paired => ~p.recovering /\ ~p.awaiting
  /\ p.recovering \/ p.awaiting => p.failureReported
  /\ ~(p.recovering /\ p.awaiting)
  /\ p.bridged <=> p.local = "open"
  /\ ~p.paired /\ ~p.recovering => p.local = "none"
  /\ p.controls["relay"] > 0 => p.selected = "relay"
  /\ p.selected = "p2p" => p.attempt

\* Every m in q has one of Y before it.
Preceded(q, m, Y) ==
  \A i \in DOMAIN q : q[i] = m => \E j \in DOMAIN q : j < i /\ q[j] \in Y
ToTransport == {Ready("relay"), Transport("ready")}
HasReady(q) == Holds(q, Ready("relay")) \/ Holds(q, Ready("p2p"))
HasHello(q) == \E i \in DOMAIN q : q[i].type = "hello"
HasState(q, x) == \E i \in DOMAIN q : q[i].type = "state" /\ q[i].state = x
OnlyEof(q) == \A i \in DOMAIN q : q[i] = Eof
Undecided(q) == \A i \in DOMAIN q : q[i].type \in {"start", "signal", "eof"}

\* What the server sends comes in this order.
Ordered(d) ==
  /\ \A i, j \in DOMAIN d : d[i] = Start /\ j < i => d[j] = Eof
  /\ \A i, j \in DOMAIN d : d[i].type = "ready" /\ d[j].type = "ready" => i = j
  /\ \A i, j \in DOMAIN d :
       d[i] = Transport("ready") /\ i < j => d[j].type # "transport"
\* And it finds the phone ready for it.
Told(p, d) ==
  /\ Holds(d, Start) => Stage0(p)
  /\ HasReady(d) => ~p.paired /\ ~p.awaiting /\ ~p.recovering
  /\ Holds(d, Ready("p2p")) => p.readyReported
  /\ \/ p.awaiting \/ p.recovering \/ p.selected = "p2p"
     \/ Preceded(d, Transport("recovering"), {Ready("p2p")})
  /\ Holds(d, Transport("ready")) => p.recovering /\ p.local = "open"
  /\ p.selected = "relay" \/ Preceded(d, Binary, ToTransport)
  /\ p.selected = "relay" =>
       ~Holds(d, Transport("recovering")) /\ ~Holds(d, Transport("ready"))
\* What the phone sends is what it did, and some of it once.
Once(u) ==
  \A i, j \in DOMAIN u :
    /\ u[i] = TransportReady /\ u[j] = TransportReady => i = j
    /\ u[i].type = "hello" /\ u[j].type = "hello" => i = j
Telling(p, u, d) ==
  /\ Holds(u, TransportReady) =>
       p.recovering /\ p.local = "open" /\ ~Holds(d, Transport("ready"))
  /\ HasState(u, "ready") => p.readyReported

\* Until the server has both peers, nothing has begun.
Early(l, b, p, u) ==
  \/ p.version = 0 \/ HasHello(u)
  \/ l.executing /\ ~(b /\ l.bound = Roles)
OnP2P(l) == l.state = "ACTIVE" /\ l.selected = "p2p"
OnTheRelay(l) == l.state = "ACTIVE" /\ l.selected = "relay"
Agreed(l, p, u, d) ==
  /\ l.state = "SELECTING_TRANSPORT" =>
       /\ ~p.paired /\ ~p.awaiting /\ ~p.recovering
       /\ Undecided(d)
  /\ OnP2P(l) =>
       Holds(d, Ready("p2p")) \/ p.awaiting \/ p.recovering \/ p.selected = "p2p"
  /\ OnTheRelay(l) => p.selected = "relay" \/ \E m \in ToTransport : Holds(d, m)
  /\ Holds(d, Transport("ready")) => OnTheRelay(l)
  /\ "device" \in l.ready => p.readyReported
  /\ (l.state = "SELECTING_TRANSPORT" \/ OnP2P(l)) /\ p.failureReported =>
       HasState(u, "failed")
Link(l, b, p, u, d) ==
  /\ PhoneShape(p) /\ Ordered(d) /\ Once(u) /\ Told(p, d) /\ Telling(p, u, d)
  /\ Early(l, b, p, u) => Stage0(p) /\ OnlyEof(d)
  /\ HasHello(u) => ~b
  /\ b => l.executing /\ Agreed(l, p, u, d)

\* Whoever uses P2P does so after the server chose it, and no relay was chosen
\* before.
UsesP2P(s) ==
  \/ browser[s].selected = "p2p" \/ Holds(down[s]["controller"], Ready("p2p"))
  \/ peer.session = s /\ (pipe > 0 \/ peer.controls["p2p"] > 0)
P2POf(s) ==
  UsesP2P(s) =>
    /\ lease[s].state \in {"ACTIVE", "RECOVERING_TRANSPORT", "ENDED"}
    /\ peer.session = s /\ ~peer.closed => ~Holds(down[s]["device"], Ready("relay"))
\* The last frame of a socket nobody serves is its close.
Over(s) ==
  LET u == up[s]["device"] IN ~Served(s) /\ u # <<>> => u[Len(u)] = Eof
LinkOf(s) ==
  peer.session = s /\ ~peer.closed =>
    Link(lease[s], DeviceBound(s), peer, up[s]["device"], down[s]["device"])
LinkOK ==
  /\ peer.session = NoSession => pipe = 0
  /\ \A s \in Sessions : P2POf(s) /\ Over(s) /\ LinkOf(s)

-----------------------------------------------------------------------------
(* Channels as sequences, once more.                                       *)

LEMMA TailKinds ==
  ASSUME NEW q \in Seq(Frames), q # <<>>
  PROVE  /\ HasHello(Tail(q)) => HasHello(q)
         /\ \A x : HasState(Tail(q), x) => HasState(q, x)
         /\ \A x : HasState(q, x) =>
              \/ HasState(Tail(q), x)
              \/ Head(q).type = "state" /\ Head(q).state = x
         /\ OnlyEof(q) => Head(q) = Eof /\ OnlyEof(Tail(q))
<1>1. ASSUME NEW i \in DOMAIN Tail(q)
      PROVE  i + 1 \in DOMAIN q /\ Tail(q)[i] = q[i + 1]
  BY TailAt
<1>2. HasHello(Tail(q)) => HasHello(q)
  BY <1>1 DEF HasHello
<1>3. ASSUME NEW x, HasState(Tail(q), x) PROVE HasState(q, x)
  BY <1>1, <1>3 DEF HasState
<1>4. ASSUME NEW x, HasState(q, x)
      PROVE  HasState(Tail(q), x) \/ (Head(q).type = "state" /\ Head(q).state = x)
  <2>1. PICK i \in DOMAIN q : q[i].type = "state" /\ q[i].state = x
    BY <1>4 DEF HasState
  <2>2. CASE i = 1
    BY <2>1, <2>2, TailAt
  <2>3. CASE i # 1
    <3>1. i - 1 \in DOMAIN Tail(q) /\ Tail(q)[i - 1] = q[i]
      BY <2>3, TailAt
    <3> QED
      BY <2>1, <3>1 DEF HasState
  <2> QED
    BY <2>2, <2>3
<1>5. OnlyEof(q) => Head(q) = Eof /\ OnlyEof(Tail(q))
  <2>1. 1 \in DOMAIN q /\ Head(q) = q[1]
    BY TailAt
  <2> QED
    BY <1>1, <2>1 DEF OnlyEof
<1> QED
  BY <1>2, <1>3, <1>4, <1>5

LEMMA TailOrdered ==
  ASSUME NEW q \in Seq(Frames), q # <<>>, Ordered(q)
  PROVE  /\ Ordered(Tail(q))
         /\ Head(q) # Eof => ~Holds(Tail(q), Start)
         /\ Head(q).type = "ready" => ~HasReady(Tail(q))
         /\ Head(q) = Transport("ready") =>
              \A x : ~Holds(Tail(q), Transport(x))
<1>1. ASSUME NEW i \in DOMAIN Tail(q)
      PROVE  /\ i + 1 \in DOMAIN q /\ Tail(q)[i] = q[i + 1] /\ i + 1 > 1
             /\ i \in Int
  BY TailAt
<1>2. 1 \in DOMAIN q /\ Head(q) = q[1]
  BY TailAt
<1>3. ASSUME NEW i \in DOMAIN Tail(q), NEW j \in DOMAIN Tail(q)
      PROVE  /\ Tail(q)[i] = Start /\ j < i => Tail(q)[j] = Eof
             /\ Tail(q)[i].type = "ready" /\ Tail(q)[j].type = "ready" => i = j
             /\ Tail(q)[i] = Transport("ready") /\ i < j
                  => Tail(q)[j].type # "transport"
  <2> DEFINE k == i + 1
             n == j + 1
  <2>1. /\ k \in DOMAIN q /\ n \in DOMAIN q /\ (j < i => n < k) /\ (i < j => k < n)
        /\ (k = n => i = j) /\ Tail(q)[i] = q[k] /\ Tail(q)[j] = q[n]
    BY <1>1
  <2> HIDE DEF k, n
  <2> QED
    BY <2>1 DEF Ordered
<1>4. Ordered(Tail(q))
  BY <1>3 DEF Ordered
<1>5. ASSUME NEW i \in DOMAIN Tail(q)
      PROVE  /\ Tail(q)[i] = Start => Head(q) = Eof
             /\ Tail(q)[i].type = "ready" => Head(q).type # "ready"
             /\ Head(q) = Transport("ready") => Tail(q)[i].type # "transport"
  <2> DEFINE k == i + 1
  <2>1. k \in DOMAIN q /\ 1 < k /\ Tail(q)[i] = q[k] /\ k # 1
    BY <1>1
  <2> HIDE DEF k
  <2> QED
    BY <1>2, <2>1 DEF Ordered
<1>6. Head(q) # Eof => ~Holds(Tail(q), Start)
  BY <1>5 DEF Holds
<1>7. Head(q).type = "ready" => ~HasReady(Tail(q))
  BY <1>5, FrameTypes DEF Holds, HasReady
<1>8. Head(q) = Transport("ready") => \A x : ~Holds(Tail(q), Transport(x))
  BY <1>5, FrameTypes DEF Holds
<1> QED
  BY <1>4, <1>6, <1>7, <1>8

LEMMA TailPreceded ==
  ASSUME NEW q \in Seq(Frames), q # <<>>, NEW m, NEW Y, Preceded(q, m, Y)
  PROVE  /\ Head(q) # m
         /\ Head(q) \notin Y => Preceded(Tail(q), m, Y)
<1>1. 1 \in DOMAIN q /\ Head(q) = q[1] /\ \A j \in DOMAIN q : ~(j < 1)
  BY TailAt
<1>2. Head(q) # m
  BY <1>1 DEF Preceded
<1>3. ASSUME Head(q) \notin Y, NEW i \in DOMAIN Tail(q), Tail(q)[i] = m
      PROVE  \E j \in DOMAIN Tail(q) : j < i /\ Tail(q)[j] \in Y
  <2>1. i + 1 \in DOMAIN q /\ q[i + 1] = m /\ i \in Int
    BY <1>3, TailAt
  <2>2. PICK j \in DOMAIN q : j < i + 1 /\ q[j] \in Y
    BY <2>1 DEF Preceded
  <2>3. j # 1 /\ j \in Int
    BY <1>1, <1>3, <2>2, TailAt
  <2>4. j - 1 \in DOMAIN Tail(q) /\ Tail(q)[j - 1] = q[j] /\ j - 1 < i
    BY <2>1, <2>2, <2>3, TailAt
  <2> QED
    BY <2>2, <2>4
<1> QED
  BY <1>2, <1>3 DEF Preceded

LEMMA TailOnce ==
  ASSUME NEW q \in Seq(Frames), q # <<>>, Once(q)
  PROVE  /\ Once(Tail(q))
         /\ Head(q) = TransportReady => ~Holds(Tail(q), TransportReady)
         /\ Head(q).type = "hello" => ~HasHello(Tail(q))
<1>1. ASSUME NEW i \in DOMAIN Tail(q)
      PROVE  i + 1 \in DOMAIN q /\ Tail(q)[i] = q[i + 1] /\ i + 1 # 1 /\ i \in Int
  BY TailAt
<1>2. 1 \in DOMAIN q /\ Head(q) = q[1]
  BY TailAt
<1>3. Once(Tail(q))
  <2>1. ASSUME NEW i \in DOMAIN Tail(q), NEW j \in DOMAIN Tail(q), i + 1 = j + 1
        PROVE  i = j
    BY <1>1, <2>1
  <2> QED
    BY <1>1, <2>1 DEF Once
<1>4. Head(q) = TransportReady => ~Holds(Tail(q), TransportReady)
  BY <1>1, <1>2 DEF Once, Holds
<1>5. Head(q).type = "hello" => ~HasHello(Tail(q))
  BY <1>1, <1>2 DEF Once, HasHello
<1> QED
  BY <1>3, <1>4, <1>5

LEMMA AppendOrdered ==
  ASSUME NEW q \in Seq(Frames), NEW n \in Frames, Ordered(q),
         n = Start => OnlyEof(q), n.type = "ready" => ~HasReady(q),
         n.type = "transport" => ~Holds(q, Transport("ready"))
  PROVE  Ordered(Append(q, n))
<1> DEFINE r == Append(q, n)
<1>1. ASSUME NEW i \in DOMAIN r
      PROVE  (i \in DOMAIN q /\ r[i] = q[i] /\ i < Len(q) + 1) \/ (i = Len(q) + 1 /\ r[i] = n)
  BY AppendAt
<1>2. ~HasReady(q) => \A i \in DOMAIN q : q[i].type # "ready"
  <2>1. ASSUME NEW i \in DOMAIN q, q[i].type = "ready" PROVE HasReady(q)
    <3>1. q[i] \in Frames
      OBVIOUS
    <3>2. q[i] = Ready(q[i].transport) /\ q[i].transport \in {"relay", "p2p"}
      BY <2>1, <3>1, FrameIs, FrameFields
    <3> QED
      BY <3>2 DEF HasReady, Holds
  <2> QED
    BY <2>1
<1>3. Len(q) \in Nat /\ DOMAIN q = 1..Len(q)
  OBVIOUS
<1> HIDE DEF r
<1>4. ASSUME NEW i \in DOMAIN r, NEW j \in DOMAIN r
      PROVE  /\ r[i] = Start /\ j < i => r[j] = Eof
             /\ r[i].type = "ready" /\ r[j].type = "ready" => i = j
             /\ r[i] = Transport("ready") /\ i < j => r[j].type # "transport"
  <2>1. CASE i \in DOMAIN q /\ j \in DOMAIN q /\ r[i] = q[i] /\ r[j] = q[j]
    BY <2>1 DEF Ordered
  <2>2. CASE i \in DOMAIN q /\ r[i] = q[i] /\ i < Len(q) + 1 /\ j = Len(q) + 1 /\ r[j] = n
    <3>1. ~(j < i)
      BY <1>3, <2>2
    <3>2. n.type = "ready" => r[i].type # "ready"
      BY <1>2, <2>2
    <3>3. n.type = "transport" => r[i] # Transport("ready")
      BY <2>2 DEF Holds
    <3> QED
      BY <2>2, <3>1, <3>2, <3>3
  <2>3. CASE j \in DOMAIN q /\ r[j] = q[j] /\ j < Len(q) + 1 /\ i = Len(q) + 1 /\ r[i] = n
    <3>1. ~(i < j)
      BY <1>3, <2>3
    <3>2. n.type = "ready" => r[j].type # "ready"
      BY <1>2, <2>3
    <3>3. n = Start => r[j] = Eof
      BY <2>3 DEF OnlyEof
    <3> QED
      BY <2>3, <3>1, <3>2, <3>3
  <2>4. CASE i = Len(q) + 1 /\ j = Len(q) + 1
    BY <1>3, <2>4
  <2> QED
    BY <1>1, <2>1, <2>2, <2>3, <2>4
<1> QED
  BY <1>4 DEF Ordered, r

LEMMA AppendPreceded ==
  ASSUME NEW q \in Seq(Frames), NEW n \in Frames, NEW m, NEW Y,
         Preceded(q, m, Y), n = m => \E y \in Y : Holds(q, y)
  PROVE  Preceded(Append(q, n), m, Y)
<1>1. SUFFICES ASSUME NEW i \in DOMAIN Append(q, n), Append(q, n)[i] = m
               PROVE  \E j \in DOMAIN Append(q, n) : j < i /\ Append(q, n)[j] \in Y
  BY DEF Preceded
<1>2. CASE i \in DOMAIN q
  <2>1. q[i] = m
    BY <1>1, <1>2, AppendAt
  <2>2. PICK j \in DOMAIN q : j < i /\ q[j] \in Y
    BY <1>2, <2>1 DEF Preceded
  <2> QED
    BY <2>2, AppendAt
<1>3. CASE i = Len(q) + 1
  <2>1. n = m
    BY <1>1, <1>3, AppendAt
  <2>2. PICK j \in DOMAIN q : q[j] \in Y
    BY <2>1 DEF Holds
  <2>3. j < i
    BY <1>3, <2>2, AppendAt
  <2> QED
    BY <2>2, <2>3, AppendAt
<1> QED
  BY <1>1, <1>2, <1>3, AppendAt

LEMMA AppendOnlyEof ==
  ASSUME NEW q \in Seq(Frames), OnlyEof(q)
  PROVE  OnlyEof(Append(q, Eof))
  BY AppendAt, FramesBuilt DEF OnlyEof

LEMMA ConcatOnce ==
  ASSUME NEW q \in Seq(Frames), NEW ms \in Seq(Frames), Once(q), Once(ms),
         Holds(ms, TransportReady) => ~Holds(q, TransportReady),
         HasHello(ms) => ~HasHello(q)
  PROVE  Once(q \o ms)
<1> DEFINE r == q \o ms
<1>1. ASSUME NEW i \in DOMAIN r
      PROVE  \/ i \in DOMAIN q /\ r[i] = q[i]
             \/ i - Len(q) \in DOMAIN ms /\ r[i] = ms[i - Len(q)] /\ i \in Int
  BY ConcatAt
<1>2. Len(q) \in Nat
  OBVIOUS
<1> HIDE DEF r
<1>3. ASSUME NEW i \in DOMAIN r, NEW j \in DOMAIN r
      PROVE  /\ r[i] = TransportReady /\ r[j] = TransportReady => i = j
             /\ r[i].type = "hello" /\ r[j].type = "hello" => i = j
  <2>1. CASE i \in DOMAIN q /\ r[i] = q[i] /\ j \in DOMAIN q /\ r[j] = q[j]
    BY <2>1 DEF Once
  <2>2. CASE /\ i \in DOMAIN q /\ r[i] = q[i]
             /\ j - Len(q) \in DOMAIN ms /\ r[j] = ms[j - Len(q)]
    BY <2>2 DEF Holds, HasHello
  <2>3. CASE /\ j \in DOMAIN q /\ r[j] = q[j]
             /\ i - Len(q) \in DOMAIN ms /\ r[i] = ms[i - Len(q)]
    BY <2>3 DEF Holds, HasHello
  <2>4. CASE /\ j - Len(q) \in DOMAIN ms /\ r[j] = ms[j - Len(q)] /\ j \in Int
             /\ i - Len(q) \in DOMAIN ms /\ r[i] = ms[i - Len(q)] /\ i \in Int
    <3>1. i - Len(q) = j - Len(q) => i = j
      BY <1>2, <2>4
    <3> QED
      BY <2>4, <3>1 DEF Once
  <2> QED
    BY <1>1, <2>1, <2>2, <2>3, <2>4
<1> QED
  BY <1>3 DEF Once, r

LEMMA ConcatKinds ==
  ASSUME NEW q \in Seq(Frames), NEW ms \in Seq(Frames)
  PROVE  /\ HasHello(q \o ms) <=> HasHello(q) \/ HasHello(ms)
         /\ \A x : HasState(q \o ms, x) <=> HasState(q, x) \/ HasState(ms, x)
<1>1. /\ \A i \in DOMAIN q : i \in DOMAIN (q \o ms) /\ (q \o ms)[i] = q[i]
      /\ \A i \in DOMAIN ms :
           Len(q) + i \in DOMAIN (q \o ms) /\ (q \o ms)[Len(q) + i] = ms[i]
      /\ \A i \in DOMAIN (q \o ms) :
           \/ i \in DOMAIN q
           \/ i - Len(q) \in DOMAIN ms /\ (q \o ms)[i] = ms[i - Len(q)]
  BY ConcatAt
<1>2. HasHello(q \o ms) <=> HasHello(q) \/ HasHello(ms)
  <2>1. ASSUME HasHello(q \o ms) PROVE HasHello(q) \/ HasHello(ms)
    <3>1. PICK i \in DOMAIN (q \o ms) : (q \o ms)[i].type = "hello"
      BY <2>1 DEF HasHello
    <3> QED
      BY <1>1, <3>1 DEF HasHello
  <2>2. HasHello(q) => HasHello(q \o ms)
    BY <1>1 DEF HasHello
  <2>3. ASSUME HasHello(ms) PROVE HasHello(q \o ms)
    <3>1. PICK i \in DOMAIN ms : ms[i].type = "hello"
      BY <2>3 DEF HasHello
    <3>2. Len(q) + i \in DOMAIN (q \o ms) /\ (q \o ms)[Len(q) + i].type = "hello"
      BY <1>1, <3>1
    <3> QED
      BY <3>2 DEF HasHello
  <2> QED
    BY <2>1, <2>2, <2>3
<1>3. ASSUME NEW x
      PROVE  HasState(q \o ms, x) <=> HasState(q, x) \/ HasState(ms, x)
  <2>1. ASSUME HasState(q \o ms, x) PROVE HasState(q, x) \/ HasState(ms, x)
    <3>1. PICK i \in DOMAIN (q \o ms) :
            (q \o ms)[i].type = "state" /\ (q \o ms)[i].state = x
      BY <2>1 DEF HasState
    <3> QED
      BY <1>1, <3>1 DEF HasState
  <2>2. HasState(q, x) => HasState(q \o ms, x)
    BY <1>1 DEF HasState
  <2>3. ASSUME HasState(ms, x) PROVE HasState(q \o ms, x)
    <3>1. PICK i \in DOMAIN ms : ms[i].type = "state" /\ ms[i].state = x
      BY <2>3 DEF HasState
    <3>2. /\ Len(q) + i \in DOMAIN (q \o ms)
          /\ (q \o ms)[Len(q) + i].type = "state"
          /\ (q \o ms)[Len(q) + i].state = x
      BY <1>1, <3>1
    <3> QED
      BY <3>2 DEF HasState
  <2> QED
    BY <2>1, <2>2, <2>3
<1> QED
  BY <1>2, <1>3

LEMMA OneFrame ==
  ASSUME NEW m
  PROVE  /\ Once(<<m>>) /\ Once(<<>>)
         /\ HasHello(<<m>>) <=> m.type = "hello"
         /\ ~HasHello(<<>>) /\ OnlyEof(<<>>) /\ Ordered(<<>>)
         /\ \A x : HasState(<<m>>, x) <=> m.type = "state" /\ m.state = x
         /\ \A x : ~HasState(<<>>, x)
         /\ \A x, Y : Preceded(<<>>, x, Y)
<1>1. DOMAIN <<m>> = {1} /\ <<m>>[1] = m /\ DOMAIN <<>> = {}
  OBVIOUS
<1> QED
  BY <1>1 DEF Once, HasHello, OnlyEof, Ordered, HasState, Preceded

-----------------------------------------------------------------------------
(* The flags of the phone.                                                 *)

\* What starting the negotiation, going to a transport and keeping a control
\* leave of the flags, in the words of the handlers' lemmas above.
Begins(p, q) ==
  /\ Starts(p, q)
  /\ \/ ~q.failureReported /\ q.sidecar # "none" /\ q.controls = p.controls
     \/ /\ q.failureReported /\ q.sidecar = "none" /\ q.controls["p2p"] = 0
        /\ q.controls["relay"] = p.controls["relay"]
Goes(p, q, t) ==
  /\ Selects(p, q, t) /\ ~p.recovering
  /\ \A c \in Carriers : c # t => ~(p.controls[c] > 0)
Keeps(p, q, t) ==
  /\ Buffers(p, q, t)
  /\ t = "relay" => p.selected = "relay"
  /\ t = "p2p" => p.sidecar # "none"

LEMMA ControlsTyped ==
  ASSUME NEW p \in Peer, NEW t \in Carriers
  PROVE  p.controls[t] \in Nat /\ (p.controls[t] > 0 <=> p.controls[t] # 0)
<1>1. p.controls \in [Carriers -> Nat]
  BY DEF Peer
<1>2. p.controls[t] \in Nat
  BY <1>1
<1> QED
  BY <1>2

LEMMA ShapeKept ==
  ASSUME NEW p \in Peer, NEW q \in Peer, PhoneShape(p), NEW t \in Carriers,
         \/ Stays(p, q) \/ Fails(p, q) \/ Announces(p, q) \/ Opens(p, q)
         \/ Drops(p, q) /\ q.local \in {"none", "connecting"}
         \/ Begins(p, q) \/ Goes(p, q, t) \/ Keeps(p, q, t)
         \/ Awaits(p, q) /\ ~p.recovering
         \/ Recovers(p, q) \/ Commits(p, q)
  PROVE  PhoneShape(q)
<1>0. /\ "relay" \in Carriers /\ "p2p" \in Carriers /\ "relay" # "p2p"
      /\ t = "relay" \/ t = "p2p"
  BY DEF Carriers
<1>1. /\ p.controls["relay"] \in Nat /\ p.controls["p2p"] \in Nat
      /\ q.controls["relay"] \in Nat /\ q.controls["p2p"] \in Nat
  BY <1>0, ControlsTyped
<1>2. /\ p.attempt \in BOOLEAN /\ p.paired \in BOOLEAN /\ p.bridged \in BOOLEAN
      /\ p.recovering \in BOOLEAN /\ p.awaiting \in BOOLEAN /\ p.ready \in BOOLEAN
      /\ p.readyReported \in BOOLEAN /\ p.failureReported \in BOOLEAN
      /\ q.attempt \in BOOLEAN /\ q.paired \in BOOLEAN /\ q.bridged \in BOOLEAN
      /\ q.recovering \in BOOLEAN /\ q.awaiting \in BOOLEAN /\ q.ready \in BOOLEAN
      /\ q.readyReported \in BOOLEAN /\ q.failureReported \in BOOLEAN
      /\ p.selected \in Transports
  BY DEF Peer
<1>3. NoControls["relay"] = 0 /\ NoControls["p2p"] = 0
  BY <1>0 DEF NoControls
<1>4. CASE Stays(p, q)
  BY <1>2, <1>4 DEF Stays, SameRole, SameLink, SameReports, SameSidecar, PhoneShape
<1>5. CASE Fails(p, q)
  BY <1>2, <1>5 DEF Fails, SameRole, SameLink, PhoneShape
<1>6. CASE Announces(p, q)
  BY <1>2, <1>6 DEF Announces, SameRole, SameLink, PhoneShape
<1>7. CASE Opens(p, q)
  BY <1>1, <1>2, <1>3, <1>7 DEF Opens, SameRole, SameReports, SameSidecar, PhoneShape
<1>8. CASE Drops(p, q) /\ q.local \in {"none", "connecting"}
  BY <1>1, <1>2, <1>3, <1>8 DEF Drops, PhoneShape
<1>9. CASE Begins(p, q)
  BY <1>1, <1>2, <1>9 DEF Begins, Starts, SameLink, PhoneShape
<1>10. CASE Goes(p, q, t)
  <2>1. t = "relay" => p.controls["p2p"] = 0
    BY <1>0, <1>1, <1>10 DEF Goes
  <2>2. t = "p2p" => p.controls["relay"] = 0
    BY <1>0, <1>1, <1>10 DEF Goes
  <2> QED
    BY <1>0, <1>1, <1>2, <1>10, <2>1, <2>2
    DEF Goes, Selects, Connected, SameReports, PhoneShape
<1>11. CASE Keeps(p, q, t)
  <2>1. /\ t = "relay" => q.controls["p2p"] = p.controls["p2p"]
        /\ t = "p2p" => q.controls["relay"] = p.controls["relay"]
    BY <1>0, <1>11 DEF Keeps, Buffers
  <2> QED
    BY <1>0, <1>1, <1>2, <1>11, <2>1
    DEF Keeps, Buffers, SameRole, SameLink, SameReports, SameSidecar, PhoneShape
<1>12. CASE Awaits(p, q) /\ ~p.recovering
  BY <1>2, <1>12 DEF Awaits, SameLink, SameReports, SameSidecar, PhoneShape
<1>13. CASE Recovers(p, q)
  BY <1>2, <1>13 DEF Recovers, Connected, SameReports, SameSidecar, PhoneShape
<1>14. CASE Commits(p, q)
  BY <1>2, <1>14 DEF Commits, SameLink, SameReports, SameSidecar, PhoneShape
<1> QED
  BY <1>4, <1>5, <1>6, <1>7, <1>8, <1>9, <1>10, <1>11, <1>12, <1>13, <1>14

\* At the beginning of a session nothing but the start changes the flags.
LEMMA Stage0Moves ==
  ASSUME NEW p \in Peer, NEW q \in Peer, Stage0(p)
  PROVE  /\ Stays(p, q) => Stage0(q)
         /\ ~Fails(p, q) /\ ~Announces(p, q) /\ ~Opens(p, q) /\ ~Drops(p, q)
         /\ ~Awaits(p, q) /\ ~Recovers(p, q) /\ ~Commits(p, q)
         /\ ~Keeps(p, q, "p2p") /\ ~Keeps(p, q, "relay")
<1>1. Stays(p, q) => Stage0(q)
  BY DEF Stays, SameRole, SameLink, SameReports, SameSidecar, Stage0
<1>2. /\ ~Fails(p, q) /\ ~Announces(p, q) /\ ~Opens(p, q) /\ ~Drops(p, q)
      /\ ~Awaits(p, q) /\ ~Recovers(p, q) /\ ~Commits(p, q)
      /\ ~Keeps(p, q, "p2p") /\ ~Keeps(p, q, "relay")
  BY DEF Fails, Announces, Opens, Drops, Awaits, Recovers, Commits, Keeps, Stage0
<1> QED
  BY <1>1, <1>2

-----------------------------------------------------------------------------
(* The end of a session the phone keeps: what a callback leaves of it.     *)

\* The frames ms tell of the step from p to q.
Tells(p, q, ms) ==
  \/ Stays(p, q) /\ \A i \in DOMAIN ms : ms[i].type \in {"signal", "binary"}
  \/ Fails(p, q) /\ \E n \in Nat : ms = <<P2PState("failed", n)>>
  \/ /\ Drops(p, q) /\ q.local = "none"
     /\ \E n \in Nat : ms = <<P2PState("failed", n)>>
  \/ Announces(p, q) /\ \E n \in Nat : ms = <<P2PState("ready", n)>>
  \/ Opens(p, q) /\ ms = IF p.recovering THEN <<TransportReady>> ELSE <<>>
  \/ Keeps(p, q, "p2p") /\ ms = <<>>

LEMMA TellsFrames ==
  ASSUME NEW p \in Peer, NEW q \in Peer, NEW ms \in Seq(Frames), Tells(p, q, ms)
  PROVE  /\ ~HasHello(ms) /\ Once(ms)
         /\ HasState(ms, "ready") => Announces(p, q)
         /\ Holds(ms, TransportReady) => Opens(p, q) /\ p.recovering
         /\ q.failureReported => p.failureReported \/ HasState(ms, "failed")
<1>1. ASSUME \A i \in DOMAIN ms : ms[i].type \in {"signal", "binary"}
      PROVE  /\ ~HasHello(ms) /\ Once(ms) /\ \A x : ~HasState(ms, x)
             /\ ~Holds(ms, TransportReady)
  BY <1>1, FrameTypes DEF HasHello, Once, HasState, Holds
<1>2. ASSUME NEW x, NEW n, ms = <<P2PState(x, n)>>
      PROVE  /\ ~HasHello(ms) /\ Once(ms) /\ \A y : HasState(ms, y) <=> y = x
             /\ ~Holds(ms, TransportReady)
  <2>1. /\ P2PState(x, n).type = "state" /\ P2PState(x, n).state = x
        /\ P2PState(x, n) # TransportReady
    BY FrameTypes
  <2> QED
    BY <1>2, <2>1, OneFrame, ShortHolds
<1>3. CASE Stays(p, q) /\ \A i \in DOMAIN ms : ms[i].type \in {"signal", "binary"}
  BY <1>1, <1>3 DEF Stays, SameReports
<1>4. CASE /\ Fails(p, q) \/ Drops(p, q)
           /\ \E n \in Nat : ms = <<P2PState("failed", n)>>
  <2>1. /\ ~HasHello(ms) /\ Once(ms) /\ \A y : HasState(ms, y) <=> y = "failed"
        /\ ~Holds(ms, TransportReady)
    BY <1>2, <1>4
  <2> QED
    BY <2>1
<1>5. CASE Announces(p, q) /\ \E n \in Nat : ms = <<P2PState("ready", n)>>
  <2>1. /\ ~HasHello(ms) /\ Once(ms) /\ \A y : HasState(ms, y) <=> y = "ready"
        /\ ~Holds(ms, TransportReady)
    BY <1>2, <1>5
  <2> QED
    BY <1>5, <2>1 DEF Announces
<1>6. CASE Opens(p, q) /\ ms = <<TransportReady>> /\ p.recovering
  <2>1. ~HasHello(ms) /\ Once(ms) /\ \A y : ~HasState(ms, y)
    BY <1>6, OneFrame, FrameTypes
  <2> QED
    BY <1>6, <2>1 DEF Opens, SameReports
<1>7. CASE (Opens(p, q) \/ Keeps(p, q, "p2p")) /\ ms = <<>>
  <2>1. ~HasHello(ms) /\ Once(ms) /\ \A y : ~HasState(ms, y)
        /\ ~Holds(ms, TransportReady)
    BY <1>7, OneFrame, ShortHolds
  <2> QED
    BY <1>7, <2>1 DEF Opens, Keeps, Buffers, SameReports
<1> QED
  BY <1>3, <1>4, <1>5, <1>6, <1>7 DEF Tells

LEMMA TellsSent ==
  ASSUME NEW p \in Peer, NEW q \in Peer, NEW u \in Seq(Frames),
         NEW ms \in Seq(Frames), NEW d, PhoneShape(p), Told(p, d), Once(u),
         Telling(p, u, d), Tells(p, q, ms)
  PROVE  Once(u \o ms) /\ Telling(q, u \o ms, d)
<1>1. /\ ~HasHello(ms) /\ Once(ms)
      /\ HasState(ms, "ready") => Announces(p, q)
      /\ Holds(ms, TransportReady) => Opens(p, q) /\ p.recovering
  BY TellsFrames
<1>2. Opens(p, q) => /\ p.local # "open" /\ q.local = "open"
                     /\ q.recovering = p.recovering
  BY DEF Opens, SameRole
<1>3. Holds(ms, TransportReady) =>
        ~Holds(u, TransportReady) /\ ~Holds(d, Transport("ready"))
  BY <1>1, <1>2 DEF Telling, Told
<1>4. Once(u \o ms)
  BY <1>1, <1>3, ConcatOnce
<1>5. ASSUME Holds(u \o ms, TransportReady)
      PROVE  q.recovering /\ q.local = "open" /\ ~Holds(d, Transport("ready"))
  <2>1. CASE Holds(ms, TransportReady)
    BY <1>1, <1>2, <1>3, <2>1
  <2>2. CASE Holds(u, TransportReady)
    <3>1. p.recovering /\ p.local = "open" /\ ~Holds(d, Transport("ready"))
      BY <2>2 DEF Telling
    <3>2. q.recovering = p.recovering /\ q.local = p.local
      BY <1>2, <3>1
      DEF Tells, Stays, Fails, Drops, Announces, Keeps, Buffers, SameRole, SameLink
    <3> QED
      BY <3>1, <3>2
  <2> QED
    BY <1>5, <2>1, <2>2, ConcatHolds
<1>6. ASSUME HasState(u \o ms, "ready") PROVE q.readyReported
  <2>1. CASE HasState(ms, "ready")
    BY <1>1, <2>1 DEF Announces
  <2>2. CASE HasState(u, "ready")
    <3>1. p.readyReported
      BY <2>2 DEF Telling
    <3> QED
      BY <3>1 DEF Tells, Stays, Fails, Drops, Announces, Opens, Keeps, Buffers, SameReports
  <2> QED
    BY <1>6, <2>1, <2>2, ConcatKinds
<1> QED
  BY <1>4, <1>5, <1>6 DEF Telling

\* What the phone does on its own is compatible with what the server sent.
LEMMA TellsTold ==
  ASSUME NEW p \in Peer, NEW q \in Peer, NEW ms, NEW d, PhoneShape(p), Told(p, d),
         Tells(p, q, ms)
  PROVE  Told(q, d)
<1>1. ASSUME Holds(d, Start) PROVE Stage0(q)
  <2>1. Stage0(p)
    BY <1>1 DEF Told
  <2> QED
    BY <2>1, Stage0Moves DEF Tells
<1>2. CASE Stays(p, q) \/ Fails(p, q) \/ Announces(p, q) \/ Keeps(p, q, "p2p")
  <2>1. /\ SameRole(p, q) /\ q.local = p.local
        /\ p.readyReported => q.readyReported
    BY <1>2 DEF Stays, Fails, Announces, Keeps, Buffers, SameLink, SameReports
  <2> QED
    BY <1>1, <2>1 DEF Told, SameRole
<1>3. CASE Opens(p, q)
  <2>1. /\ SameRole(p, q) /\ q.local = "open"
        /\ p.readyReported => q.readyReported
    BY <1>3 DEF Opens, SameReports
  <2> QED
    BY <1>1, <2>1 DEF Told, SameRole
<1>4. CASE Drops(p, q)
  <2>1. /\ p.paired /\ ~p.recovering /\ p.selected = "p2p"
        /\ q.recovering /\ q.selected = "none"
    BY <1>4 DEF Drops, PhoneShape
  <2>2. /\ ~HasReady(d) /\ ~Holds(d, Transport("ready"))
        /\ Preceded(d, Binary, ToTransport)
    BY <2>1 DEF Told
  <2>3. ~Holds(d, Ready("p2p"))
    BY <2>2 DEF HasReady
  <2> QED
    BY <1>1, <2>1, <2>2, <2>3 DEF Told
<1> QED
  BY <1>2, <1>3, <1>4 DEF Tells

LEMMA TellsAgreed ==
  ASSUME NEW l, NEW p \in Peer, NEW q \in Peer, NEW u \in Seq(Frames),
         NEW ms \in Seq(Frames), NEW d, PhoneShape(p), Agreed(l, p, u, d),
         Tells(p, q, ms)
  PROVE  Agreed(l, q, u \o ms, d)
<1>1. q.failureReported => p.failureReported \/ HasState(ms, "failed")
  BY TellsFrames
<1>2. HasState(u \o ms, "failed") <=> HasState(u, "failed") \/ HasState(ms, "failed")
  BY ConcatKinds
<1>3. p.readyReported => q.readyReported
  BY DEF Tells, Stays, Fails, Drops, Announces, Opens, Keeps, Buffers, SameReports
<1>4. CASE SameRole(p, q)
  BY <1>1, <1>2, <1>3, <1>4 DEF Agreed, SameRole
<1>5. CASE Drops(p, q)
  <2>1. /\ p.paired /\ p.selected = "p2p" /\ q.recovering /\ q.selected = "none"
    BY <1>5 DEF Drops, PhoneShape
  <2>2. OnTheRelay(l) => \E m \in ToTransport : Holds(d, m)
    BY <2>1 DEF Agreed
  <2> QED
    BY <1>1, <1>2, <1>3, <2>1, <2>2 DEF Agreed
<1> QED
  BY <1>4, <1>5 DEF Tells, Stays, Fails, Announces, Opens, Keeps, Buffers

LEMMA TellsLink ==
  ASSUME NEW l, NEW b, NEW p \in Peer, NEW q \in Peer, NEW u \in Seq(Frames),
         NEW ms \in Seq(Frames), NEW d, Link(l, b, p, u, d), Tells(p, q, ms)
  PROVE  Link(l, b, q, u \o ms, d)
<1>1. PhoneShape(q)
  <2>1. "p2p" \in Carriers /\ PhoneShape(p)
    BY DEF Carriers, Link
  <2> QED
    BY <2>1, ShapeKept DEF Tells
<1>2. Once(u \o ms) /\ Telling(q, u \o ms, d)
  BY TellsSent DEF Link
<1>3. Told(q, d)
  BY TellsTold DEF Link
<1>4. HasHello(u \o ms) <=> HasHello(u)
  BY TellsFrames, ConcatKinds
<1>5. Early(l, b, q, u \o ms) => Stage0(q) /\ OnlyEof(d)
  <2>1. q.version = p.version
    BY DEF Tells, Stays, Fails, Announces, Opens, Drops, Keeps, Buffers, Kept
  <2>2. Early(l, b, q, u \o ms) <=> Early(l, b, p, u)
    BY <1>4, <2>1 DEF Early
  <2> QED
    BY <2>2, Stage0Moves DEF Link, Tells
<1>6. b => l.executing /\ Agreed(l, q, u \o ms, d)
  BY TellsAgreed DEF Link
<1> QED
  BY <1>1, <1>2, <1>3, <1>4, <1>5, <1>6 DEF Link

-----------------------------------------------------------------------------
(* What a frame of the relay leaves of the session.                        *)

\* What is left of d when its first frame has been read.
LEMMA Rest ==
  ASSUME NEW d \in Seq(Frames), d # <<>>
  PROVE  /\ Tail(d) \in Seq(Frames) /\ Head(d) \in Frames
         /\ \A x : Holds(Tail(d), x) => Holds(d, x)
         /\ \A x : Holds(d, x) => Head(d) = x \/ Holds(Tail(d), x)
         /\ Holds(d, Head(d))
         /\ HasReady(Tail(d)) => HasReady(d)
         /\ Undecided(d) => Undecided(Tail(d)) /\ Head(d).type \in {"start", "signal", "eof"}
<1>1. Tail(d) \in Seq(Frames) /\ Head(d) \in Frames
  BY TailAt
<1>2. /\ \A x : Holds(Tail(d), x) => Holds(d, x)
      /\ \A x : Holds(d, x) => Head(d) = x \/ Holds(Tail(d), x)
  BY TailHolds
<1>3. Holds(d, Head(d))
  BY TailAt DEF Holds
<1>4. HasReady(Tail(d)) => HasReady(d)
  BY <1>2 DEF HasReady
<1>5. Undecided(d) => Undecided(Tail(d)) /\ Head(d).type \in {"start", "signal", "eof"}
  <2>1. /\ 1 \in DOMAIN d /\ Head(d) = d[1]
        /\ \A i \in DOMAIN Tail(d) : i + 1 \in DOMAIN d /\ Tail(d)[i] = d[i + 1]
    BY TailAt
  <2> QED
    BY <2>1 DEF Undecided
<1> QED
  BY <1>1, <1>2, <1>3, <1>4, <1>5

LEMMA NeverPreceded ==
  ASSUME NEW q, NEW m, NEW x, Preceded(q, m, {x}), ~Holds(q, x)
  PROVE  ~Holds(q, m)
  BY DEF Preceded, Holds

\* The same of a frame that changes neither the choice nor the recovery.
LEMMA PlainFrame ==
  ASSUME NEW p, NEW d \in Seq(Frames), d # <<>>, Ordered(d), Told(p, d),
         Head(d).type \in {"start", "signal", "binary"}
  PROVE  Told(p, Tail(d)) /\ Ordered(Tail(d))
<1>1. /\ \A x : Holds(Tail(d), x) => Holds(d, x)
      /\ HasReady(Tail(d)) => HasReady(d)
      /\ Ordered(Tail(d))
  BY Rest, TailOrdered
<1>2. Head(d) \notin {Ready("p2p")} /\ Head(d) \notin ToTransport
  BY FrameTypes DEF ToTransport
<1>3. /\ Preceded(d, Transport("recovering"), {Ready("p2p")})
           => Preceded(Tail(d), Transport("recovering"), {Ready("p2p")})
      /\ Preceded(d, Binary, ToTransport) => Preceded(Tail(d), Binary, ToTransport)
  BY <1>2, TailPreceded
<1> QED
  BY <1>1, <1>3 DEF Told

LEMMA PlainAgreed ==
  ASSUME NEW l, NEW p, NEW u, NEW d \in Seq(Frames), d # <<>>, Agreed(l, p, u, d),
         Head(d).type \in {"start", "signal", "binary"}
  PROVE  Agreed(l, p, u, Tail(d))
<1>1. /\ \A x : Holds(Tail(d), x) => Holds(d, x)
      /\ \A x : Holds(d, x) => Head(d) = x \/ Holds(Tail(d), x)
      /\ Undecided(d) => Undecided(Tail(d))
  BY Rest
<1>2. Head(d) # Ready("p2p") /\ Head(d) \notin ToTransport
  BY FrameTypes DEF ToTransport
<1>3. /\ Holds(d, Ready("p2p")) => Holds(Tail(d), Ready("p2p"))
      /\ \A m \in ToTransport : Holds(d, m) => Holds(Tail(d), m)
      /\ Holds(Tail(d), Transport("ready")) => Holds(d, Transport("ready"))
  BY <1>1, <1>2
<1> QED
  BY <1>1, <1>3 DEF Agreed

LEMMA LessTelling ==
  ASSUME NEW p, NEW u, NEW d \in Seq(Frames), d # <<>>, Telling(p, u, d)
  PROVE  Telling(p, u, Tail(d))
  BY Rest DEF Telling

\* An answer or a candidate, and a control that is kept or sent on.
LEMMA PlainLink ==
  ASSUME NEW l, NEW b, NEW p \in Peer, NEW u, NEW d \in Seq(Frames), d # <<>>,
         Link(l, b, p, u, d), Head(d).type \in {"start", "signal", "binary"}
  PROVE  Link(l, b, p, u, Tail(d))
<1>1. Told(p, Tail(d)) /\ Ordered(Tail(d))
  BY PlainFrame DEF Link
<1>2. Telling(p, u, Tail(d))
  BY LessTelling DEF Link
<1>3. b => Agreed(l, p, u, Tail(d))
  BY PlainAgreed DEF Link
<1>4. OnlyEof(d) => OnlyEof(Tail(d))
  BY TailKinds
<1> QED
  BY <1>1, <1>2, <1>3, <1>4 DEF Link

\* Only a close can be read before the server has both peers.
LEMMA NotEarly ==
  ASSUME NEW l, NEW b, NEW p, NEW u, NEW d \in Seq(Frames), d # <<>>,
         Link(l, b, p, u, d), Head(d) # Eof
  PROVE  ~Early(l, b, p, u)
  BY TailKinds DEF Link

\* How a link is put together again.
LEMMA LinkAgain ==
  ASSUME NEW l, NEW b, NEW p, NEW q, NEW u, NEW v, NEW d \in Seq(Frames), d # <<>>,
         Link(l, b, p, u, d), Head(d) # Eof,
         q.version = p.version, HasHello(v) <=> HasHello(u),
         PhoneShape(q), Once(v), Told(q, Tail(d)), Telling(q, v, Tail(d)),
         b => Agreed(l, q, v, Tail(d))
  PROVE  Link(l, b, q, v, Tail(d))
<1>1. ~Early(l, b, q, v)
  BY NotEarly DEF Early
<1>2. Ordered(Tail(d))
  BY TailOrdered DEF Link
<1> QED
  BY <1>1, <1>2 DEF Link

-----------------------------------------------------------------------------
(* The frames of the relay, one by one.                                    *)

LEMMA FailureSaid ==
  ASSUME NEW ms, NEW n, ms = <<P2PState("failed", n)>>
  PROVE  /\ ~HasHello(ms) /\ Once(ms) /\ HasState(ms, "failed")
         /\ ~HasState(ms, "ready") /\ ~Holds(ms, TransportReady)
<1>1. /\ P2PState("failed", n).type = "state" /\ P2PState("failed", n).state = "failed"
      /\ P2PState("failed", n) # TransportReady
  BY FrameTypes
<1> QED
  BY <1>1, OneFrame, ShortHolds

\* What a silent handler, or one that tells of a failure, leaves of u.
LEMMA SaidOnce ==
  ASSUME NEW u \in Seq(Frames), NEW ms \in Seq(Frames), Once(u),
         ms = <<>> \/ \E n : ms = <<P2PState("failed", n)>>
  PROVE  /\ Once(u \o ms) /\ (HasHello(u \o ms) <=> HasHello(u))
         /\ Holds(u \o ms, TransportReady) <=> Holds(u, TransportReady)
         /\ HasState(u \o ms, "ready") <=> HasState(u, "ready")
         /\ HasState(u, "failed") => HasState(u \o ms, "failed")
         /\ ms = <<>> \/ HasState(u \o ms, "failed")
<1>1. /\ ~HasHello(ms) /\ Once(ms) /\ ~HasState(ms, "ready")
      /\ ~Holds(ms, TransportReady) /\ (ms = <<>> \/ HasState(ms, "failed"))
  <2>1. CASE ms = <<>>
    BY <2>1, OneFrame, ShortHolds
  <2>2. ASSUME NEW n, ms = <<P2PState("failed", n)>>
        PROVE  /\ ~HasHello(ms) /\ Once(ms) /\ ~HasState(ms, "ready")
               /\ ~Holds(ms, TransportReady) /\ HasState(ms, "failed")
    BY <2>2, FailureSaid
  <2> QED
    BY <2>1, <2>2
<1>2. Once(u \o ms)
  BY <1>1, ConcatOnce
<1> QED
  BY <1>1, <1>2, ConcatKinds, ConcatHolds

\* startP2P
LEMMA StartLink ==
  ASSUME NEW l, NEW b, NEW p \in Peer, NEW q \in Peer, NEW u \in Seq(Frames),
         NEW ms \in Seq(Frames), NEW d \in Seq(Frames), d # <<>>,
         Link(l, b, p, u, d), Head(d) = Start, Begins(p, q),
         IF q.failureReported THEN \E n : ms = <<P2PState("failed", n)>>
                              ELSE ms = <<>>
  PROVE  Link(l, b, q, u \o ms, Tail(d))
<1> DEFINE e == Tail(d)
           v == u \o ms
<1>1. /\ Start.type = "start" /\ Start # Eof /\ Stage0(p)
      /\ Holds(d, Start)
  BY Rest, FrameTypes DEF Link, Told
<1>2. Link(l, b, p, u, e)
  BY <1>1, PlainLink
<1>3. ~Holds(e, Start)
  BY <1>1, TailOrdered DEF Link
<1>4. PhoneShape(q)
  <2>1. "relay" \in Carriers
    BY DEF Carriers
  <2> QED
    BY <2>1, ShapeKept DEF Link
<1>5. /\ Once(v) /\ (HasHello(v) <=> HasHello(u))
      /\ Holds(v, TransportReady) <=> Holds(u, TransportReady)
      /\ HasState(v, "ready") <=> HasState(u, "ready")
      /\ q.failureReported => HasState(v, "failed")
  <2>1. q.failureReported => ms # <<>>
    <3>1. \A n : <<P2PState("failed", n)>> # <<>>
      OBVIOUS
    <3> QED
      BY <3>1
  <2>2. ms = <<>> \/ \E n : ms = <<P2PState("failed", n)>>
    OBVIOUS
  <2> QED
    BY <2>1, <2>2, SaidOnce DEF Link
<1>6. /\ q.paired = p.paired /\ q.awaiting = p.awaiting /\ q.recovering = p.recovering
      /\ q.selected = p.selected /\ q.local = p.local /\ q.version = p.version
  BY DEF Begins, Starts, SameLink, Kept
<1>7. ~p.readyReported /\ ~p.recovering
  BY <1>1 DEF Stage0
<1> HIDE DEF e, v
<1>8. Told(q, e)
  BY <1>2, <1>3, <1>6, <1>7 DEF Told, Link
<1>9. Telling(q, v, e)
  BY <1>2, <1>5, <1>6, <1>7 DEF Telling, Link
<1>10. b => Agreed(l, q, v, e)
  BY <1>2, <1>5, <1>6, <1>7 DEF Agreed, Link
<1> QED
  BY <1>1, <1>4, <1>5, <1>6, <1>8, <1>9, <1>10, LinkAgain DEF e, v

\* selectInitialTransport
LEMMA SelectLink ==
  ASSUME NEW l, NEW b, NEW p \in Peer, NEW q \in Peer, NEW u \in Seq(Frames),
         NEW d \in Seq(Frames), d # <<>>, NEW t \in Carriers,
         Link(l, b, p, u, d), Head(d) = Ready(t),
         Goes(p, q, t) \/ (Awaits(p, q) /\ t = "p2p")
  PROVE  Link(l, b, q, u, Tail(d))
<1> DEFINE e == Tail(d)
<1>1. /\ Ready(t).type = "ready" /\ Ready(t) # Eof /\ Holds(d, Ready(t))
      /\ t = "relay" \/ t = "p2p"
      /\ Ready(t) # Transport("ready") /\ Ready("relay") # Ready("p2p")
  BY Rest, FrameTypes DEF Carriers
<1>2. /\ HasReady(d) /\ ~p.paired /\ ~p.awaiting /\ ~p.recovering
      /\ p.selected = "none" /\ ~HasReady(e) /\ ~Holds(e, Start)
  BY <1>1, TailOrdered DEF Link, Told, HasReady, PhoneShape
<1>3. /\ \A x : Holds(e, x) => Holds(d, x)
      /\ \A x : Holds(d, x) => Ready(t) = x \/ Holds(e, x)
      /\ ~Holds(e, Ready("p2p")) /\ ~Holds(e, Ready("relay"))
  BY <1>2, Rest DEF HasReady
<1>4. ~Holds(d, Transport("ready")) /\ ~Holds(e, Transport("ready"))
  BY <1>2, <1>3 DEF Link, Told
<1>5. PhoneShape(q)
  BY <1>2, ShapeKept DEF Link
<1>6. t = "relay" => Preceded(e, Transport("recovering"), {Ready("p2p")})
  BY <1>1, <1>2, TailPreceded DEF Link, Told
<1>7. t = "relay" => ~Holds(e, Transport("recovering"))
  BY <1>3, <1>6, NeverPreceded
<1>8. t = "p2p" => Preceded(e, Binary, ToTransport)
  BY <1>1, <1>2, TailPreceded, FrameTypes DEF Link, Told, ToTransport
<1>9. /\ q.version = p.version /\ q.readyReported = p.readyReported
      /\ q.failureReported = p.failureReported /\ ~q.recovering
      /\ \/ q.selected = t
         \/ q.selected = "none" /\ q.awaiting /\ t = "p2p"
  BY <1>2 DEF Goes, Selects, Awaits, Kept, SameReports
<1> HIDE DEF e
<1>10. Told(q, e)
  BY <1>1, <1>2, <1>3, <1>4, <1>6, <1>7, <1>8, <1>9 DEF Told
<1>11. Telling(q, u, e)
  <2>1. Telling(p, u, d)
    BY DEF Link
  <2> QED
    BY <1>2, <1>9, <2>1 DEF Telling
<1>12. ASSUME b PROVE Agreed(l, q, u, e)
  <2>1. Agreed(l, p, u, d)
    BY <1>12 DEF Link
  <2>2. ~Undecided(d)
    BY <1>1, Rest
  <2>3. l.state # "SELECTING_TRANSPORT"
    BY <2>1, <2>2 DEF Agreed
  <2>4. OnP2P(l) => t = "p2p"
    BY <1>1, <1>2, <1>3, <2>1 DEF Agreed
  <2>5. OnTheRelay(l) => \E m \in ToTransport : Holds(d, m)
    BY <1>2, <2>1 DEF Agreed
  <2>6. OnTheRelay(l) => t = "relay"
    BY <1>1, <1>3, <1>4, <2>5 DEF ToTransport
  <2> QED
    BY <1>1, <1>4, <1>9, <2>1, <2>3, <2>4, <2>6 DEF Agreed
<1> QED
  BY <1>1, <1>5, <1>9, <1>10, <1>11, <1>12, LinkAgain DEF e, Link

\* handleTransportRecovery, "recovering"
LEMMA RecoverLink ==
  ASSUME NEW l, NEW b, NEW p \in Peer, NEW q \in Peer, NEW u \in Seq(Frames),
         NEW ms \in Seq(Frames), NEW d \in Seq(Frames), d # <<>>,
         Link(l, b, p, u, d), Head(d) = Transport("recovering"),
         \/ Recovers(p, q) /\ ms = <<>>
         \/ /\ Drops(p, q) /\ q.local = "connecting"
            /\ \E n : ms = <<P2PState("failed", n)>>
  PROVE  Link(l, b, q, u \o ms, Tail(d))
<1> DEFINE e == Tail(d)
           v == u \o ms
           m == Transport("recovering")
<1>1. /\ m.type = "transport" /\ m # Eof
      /\ m # Transport("ready") /\ m # Ready("p2p") /\ m # Ready("relay")
  BY FrameTypes
<1>2. /\ \A x : Holds(e, x) => Holds(d, x)
      /\ \A x : Holds(d, x) => m = x \/ Holds(e, x)
      /\ HasReady(e) => HasReady(d)
      /\ ~Holds(e, Start) /\ ~Undecided(d)
  BY <1>1, Rest, TailOrdered DEF Link
<1>3. PhoneShape(p) /\ Told(p, d) /\ Telling(p, u, d)
  BY DEF Link
<1>4. ~HasReady(d)
  BY <1>3 DEF Told, Recovers, Drops, PhoneShape
<1>5. p.selected # "relay"
  BY <1>3 DEF Recovers, Drops, PhoneShape, Transports, Peer
<1>6. Preceded(e, Binary, ToTransport)
  BY <1>1, <1>3, <1>5, TailPreceded DEF Told, ToTransport
<1>7. PhoneShape(q)
  <2>1. "relay" \in Carriers
    BY DEF Carriers
  <2> QED
    BY <1>3, <2>1, ShapeKept
<1>8. /\ q.version = p.version /\ q.readyReported = p.readyReported /\ q.recovering
      /\ p.recovering /\ p.local = "open" => q.local = "open"
      /\ q.selected # "relay" /\ q.failureReported
  BY <1>3, <1>5 DEF Recovers, Drops, Kept, SameReports, Connected, PhoneShape
<1>9. /\ Once(v) /\ (HasHello(v) <=> HasHello(u))
      /\ Holds(v, TransportReady) <=> Holds(u, TransportReady)
      /\ HasState(v, "ready") <=> HasState(u, "ready")
      /\ HasState(u, "failed") => HasState(v, "failed")
      /\ HasState(v, "failed") \/ q.failureReported = p.failureReported
  <2>1. ms # <<>> \/ q.failureReported = p.failureReported
    <3>1. \A n : <<P2PState("failed", n)>> # <<>>
      OBVIOUS
    <3>2. Recovers(p, q) => q.failureReported = p.failureReported
      BY DEF Recovers, SameReports
    <3> QED
      BY <3>1, <3>2
  <2> QED
    BY <2>1, SaidOnce DEF Link
<1> HIDE DEF e, v, m
<1>10. Told(q, e)
  <2>1. ~HasReady(e) /\ ~Holds(e, Ready("p2p"))
    BY <1>2, <1>4 DEF HasReady
  <2>2. Holds(e, Transport("ready")) => q.local = "open"
    BY <1>2, <1>3, <1>8 DEF Told
  <2> QED
    BY <1>2, <1>6, <1>8, <2>1, <2>2 DEF Told
<1>11. Telling(q, v, e)
  BY <1>2, <1>3, <1>8, <1>9 DEF Telling
<1>12. ASSUME b PROVE Agreed(l, q, v, e)
  <2>1. Agreed(l, p, u, d)
    BY <1>12 DEF Link
  <2>2. l.state # "SELECTING_TRANSPORT"
    BY <1>2, <2>1 DEF Agreed
  <2>3. OnTheRelay(l) => \E x \in ToTransport : Holds(e, x)
    <3>1. OnTheRelay(l) => \E x \in ToTransport : Holds(d, x)
      BY <1>5, <2>1 DEF Agreed
    <3>2. m \notin ToTransport
      BY <1>1 DEF ToTransport
    <3> QED
      BY <1>2, <3>1, <3>2
  <2> QED
    BY <1>2, <1>8, <1>9, <2>1, <2>2, <2>3 DEF Agreed
<1> QED
  BY <1>1, <1>7, <1>8, <1>9, <1>10, <1>11, <1>12, LinkAgain DEF e, v, m

\* handleTransportRecovery, "ready"
LEMMA CommitLink ==
  ASSUME NEW l, NEW b, NEW p \in Peer, NEW q \in Peer, NEW u \in Seq(Frames),
         NEW ms \in Seq(Frames), NEW d \in Seq(Frames), d # <<>>,
         Link(l, b, p, u, d), Head(d) = Transport("ready"), Commits(p, q),
         \A i \in DOMAIN ms : ms[i] = Binary
  PROVE  Link(l, b, q, u \o ms, Tail(d))
<1> DEFINE e == Tail(d)
           v == u \o ms
           m == Transport("ready")
<1>1. m.type = "transport" /\ m # Eof /\ Holds(d, m)
  BY Rest, FrameTypes
<1>2. /\ \A x : Holds(e, x) => Holds(d, x)
      /\ HasReady(e) => HasReady(d)
      /\ ~Holds(e, Start) /\ ~Undecided(d)
      /\ ~Holds(e, Transport("ready")) /\ ~Holds(e, Transport("recovering"))
  BY <1>1, Rest, TailOrdered DEF Link
<1>3. PhoneShape(p) /\ Told(p, d) /\ Telling(p, u, d) /\ Once(u)
  BY DEF Link
<1>4. p.recovering /\ ~HasReady(e) /\ ~Holds(u, TransportReady)
  BY <1>1, <1>2, <1>3 DEF Told, Telling
<1>5. PhoneShape(q)
  <2>1. "relay" \in Carriers
    BY DEF Carriers
  <2> QED
    BY <1>3, <2>1, ShapeKept
<1>6. /\ q.version = p.version /\ q.readyReported = p.readyReported
      /\ q.selected = "relay"
  BY DEF Commits, Kept, SameReports
<1>7. /\ Once(v) /\ (HasHello(v) <=> HasHello(u)) /\ ~Holds(v, TransportReady)
      /\ HasState(v, "ready") <=> HasState(u, "ready")
  <2>1. /\ ~HasHello(ms) /\ Once(ms) /\ \A x : ~HasState(ms, x)
        /\ ~Holds(ms, TransportReady)
    BY FrameTypes DEF HasHello, Once, HasState, Holds
  <2>2. Once(v)
    BY <1>3, <2>1, ConcatOnce
  <2> QED
    BY <1>4, <2>1, <2>2, ConcatKinds, ConcatHolds
<1> HIDE DEF e, v, m
<1>8. Told(q, e)
  <2>1. ~Holds(e, Ready("p2p"))
    BY <1>4 DEF HasReady
  <2>2. Preceded(e, Transport("recovering"), {Ready("p2p")})
    BY <1>2 DEF Preceded, Holds
  <2> QED
    BY <1>2, <1>4, <1>6, <2>1, <2>2 DEF Told
<1>9. Telling(q, v, e)
  BY <1>3, <1>6, <1>7 DEF Telling
<1>10. ASSUME b PROVE Agreed(l, q, v, e)
  <2>1. Agreed(l, p, u, d)
    BY <1>10 DEF Link
  <2>2. l.state # "SELECTING_TRANSPORT" /\ OnTheRelay(l) /\ ~OnP2P(l)
    BY <1>1, <1>2, <2>1 DEF Agreed, m, OnTheRelay, OnP2P
  <2> QED
    BY <1>2, <1>6, <2>1, <2>2 DEF Agreed
<1> QED
  BY <1>1, <1>5, <1>6, <1>7, <1>8, <1>9, <1>10, LinkAgain DEF e, v, m

\* handleRelayBinary
LEMMA BinaryLink ==
  ASSUME NEW l, NEW b, NEW p \in Peer, NEW q \in Peer, NEW u \in Seq(Frames),
         NEW d \in Seq(Frames), d # <<>>, Link(l, b, p, u, d), Head(d) = Binary,
         Stays(p, q) \/ Buffers(p, q, "relay")
  PROVE  Link(l, b, q, u, Tail(d))
<1>1. Link(l, b, p, u, Tail(d)) /\ Binary # Eof
  BY PlainLink, FrameTypes
<1>2. p.selected = "relay"
  BY TailPreceded DEF Link, Told
<1>3. PhoneShape(q)
  <2>1. "relay" \in Carriers
    BY DEF Carriers
  <2> QED
    BY <1>2, <2>1, ShapeKept DEF Link, Keeps
<1>4. /\ SameRole(p, q) /\ q.version = p.version /\ q.local = p.local
      /\ q.readyReported = p.readyReported /\ q.failureReported = p.failureReported
  BY DEF Stays, Buffers, Kept, SameLink, SameReports
<1>5. Told(q, Tail(d))
  <2>1. ~Holds(Tail(d), Start)
    BY <1>1, TailOrdered DEF Link
  <2> QED
    BY <1>1, <1>4, <2>1 DEF Link, Told, SameRole
<1>6. Telling(q, u, Tail(d))
  BY <1>1, <1>4 DEF Link, Telling, SameRole
<1>7. b => Agreed(l, q, u, Tail(d))
  BY <1>1, <1>4 DEF Link, Agreed, SameRole
<1> QED
  BY <1>1, <1>3, <1>4, <1>5, <1>6, <1>7, LinkAgain DEF Link

-----------------------------------------------------------------------------
(* No frame of the relay ends the session for a fault.                     *)

Mine(c) == c[peer.session]["device"]
Said(ms) == up'[peer.session]["device"] = Mine(up) \o ms

LEMMA SetMine ==
  ASSUME NEW c \in Channels, NEW s \in Sessions, NEW q
  PROVE  [c EXCEPT ![s]["device"] = q][s]["device"] = q
<1>1. "device" \in Roles
  BY DEF Roles
<1>2. c[s] \in [Roles -> Seq(Frames)]
  BY DEF Channels
<1> QED
  BY <1>1, <1>2 DEF Channels

LEMMA RelayFrameFinds ==
  ASSUME PhoneInv, NEW type, RelayFrame(type)
  PROVE  /\ peer.session \in Sessions /\ peer \in Peer /\ ChannelsOK
         /\ Mine(up) \in Seq(Frames) /\ Mine(down) \in Seq(Frames)
         /\ Mine(down) # <<>> /\ Head(Mine(down)).type = type
         /\ Head(Mine(down)) \in Frames
         /\ down'[peer.session]["device"] = Tail(Mine(down))
         /\ pipe' = pipe
<1>1. /\ peer.session \in Sessions /\ peer \in Peer /\ "device" \in Roles
      /\ up \in Channels /\ down \in Channels /\ ChannelsOK
  BY RelayFrameTaken DEF PhoneInv, ChannelsOK, Roles
<1>2. /\ Mine(down) # <<>> /\ Head(Mine(down)).type = type
      /\ down' = [down EXCEPT ![peer.session]["device"] = Tail(Mine(down))]
      /\ pipe' = pipe
  BY DEF RelayFrame, Mine
<1>3. Mine(up) \in Seq(Frames) /\ Mine(down) \in Seq(Frames)
  BY <1>1, ChannelTyped DEF Mine
<1>4. down'[peer.session]["device"] = Tail(Mine(down))
  <2>1. PICK q : q = Tail(Mine(down))
    OBVIOUS
  <2>2. [down EXCEPT ![peer.session]["device"] = q][peer.session]["device"] = q
    BY <1>1, SetMine
  <2> QED
    BY <1>2, <2>1, <2>2
<1>5. Head(Mine(down)) \in Frames
  BY <1>2, <1>3, TailAt
<1> QED
  BY <1>1, <1>2, <1>3, <1>4, <1>5

LEMMA SaidIs ==
  ASSUME ChannelsOK, peer.session \in Sessions
  PROVE  /\ Silent => Said(<<>>)
         /\ \A ms \in Seq(Frames) : Sends(ms) => Said(ms)
<1>1. "device" \in Roles /\ up \in Channels
  BY DEF Roles, ChannelsOK
<1>2. Mine(up) \in Seq(Frames)
  BY <1>1, ChannelTyped DEF Mine
<1>3. Silent => Said(<<>>)
  BY <1>2 DEF Silent, Said, Mine
<1>4. ASSUME NEW ms \in Seq(Frames), Sends(ms) PROVE Said(ms)
  <2>1. up' = [up EXCEPT ![peer.session]["device"] = Mine(up) \o ms]
    BY <1>4 DEF Sends, Mine
  <2>2. [up EXCEPT ![peer.session]["device"] = Mine(up) \o ms]
          [peer.session]["device"] = Mine(up) \o ms
    BY <1>1, SetMine
  <2> QED
    BY <2>1, <2>2 DEF Said
<1> QED
  BY <1>3, <1>4

LEMMA FailureSays ==
  ASSUME ChannelsOK, peer.session \in Sessions, TellsFailure
  PROVE  \E ms \in Seq(Frames) :
           Said(ms) /\ \E n \in Nat : ms = <<P2PState("failed", n)>>
<1>1. PICK n \in Nat : Sends(<<P2PState("failed", n)>>)
  BY DEF TellsFailure
<1>2. PICK ms : ms = <<P2PState("failed", n)>>
  OBVIOUS
<1>3. ms \in Seq(Frames)
  BY <1>2, FramesBuilt, ShortSequences
<1>4. Said(ms)
  BY <1>1, <1>2, <1>3, SaidIs
<1> QED
  BY <1>2, <1>3, <1>4

LEMMA MovesKept ==
  ASSUME NEW p, NEW q, NEW t, NEW ms,
         \/ Tells(p, q, ms) \/ Begins(p, q) \/ Goes(p, q, t) \/ Awaits(p, q)
         \/ Recovers(p, q) \/ Drops(p, q) \/ Commits(p, q) \/ Stays(p, q)
         \/ Buffers(p, q, t)
  PROVE  Kept(p, q)
  BY DEF Tells, Begins, Starts, Goes, Selects, Awaits, Recovers, Drops, Commits,
         Stays, Buffers, Fails, Announces, Opens, Keeps

\* What is left of the session when a frame has been handled.
Carried(l, b) ==
  /\ Kept(peer, peer')
  /\ Link(l, b, peer', up'[peer.session]["device"], Tail(Mine(down)))
  /\ peer'.controls["p2p"] > 0 => peer.controls["p2p"] > 0
InLink(l, b) ==
  /\ Link(l, b, peer, Mine(up), Mine(down))
  /\ peer.controls["p2p"] > 0 => ~Holds(Mine(down), Ready("relay"))

LEMMA StartCarried ==
  ASSUME PhoneInv, peer' \in Peer, NEW l, NEW b, InLink(l, b),
         NEW starts \in BOOLEAN, StartP2P(starts)
  PROVE  Carried(l, b)
<1>1. /\ peer.session \in Sessions /\ peer \in Peer /\ ChannelsOK
      /\ Mine(up) \in Seq(Frames) /\ Mine(down) \in Seq(Frames)
      /\ Mine(down) # <<>> /\ Head(Mine(down)) = Start
  <2>1. RelayFrame("start")
    BY DEF StartP2P
  <2> QED
    BY <2>1, RelayFrameFinds, FrameIs
<1>2. Stage0(peer)
  BY <1>1, Rest DEF InLink, Link, Told
<1>3. \/ /\ Starts(peer, peer') /\ Silent /\ ~peer'.failureReported
         /\ peer'.sidecar # "none" /\ peer'.controls = peer.controls
      \/ /\ Starts(peer, peer') /\ TellsFailure /\ peer'.failureReported
         /\ peer'.sidecar = "none" /\ peer'.controls["p2p"] = 0
         /\ peer'.controls["relay"] = peer.controls["relay"]
  BY <1>2, StartEffect DEF Stage0
<1>4. Begins(peer, peer')
  BY <1>3 DEF Begins
<1>5. PICK ms \in Seq(Frames) :
        /\ Said(ms)
        /\ IF peer'.failureReported THEN \E n : ms = <<P2PState("failed", n)>>
                                    ELSE ms = <<>>
  <2>1. CASE ~peer'.failureReported
    BY <1>1, <1>3, <2>1, SaidIs, ShortSequences
  <2>2. CASE peer'.failureReported
    BY <1>1, <1>3, <2>2, FailureSays
  <2> QED
    BY <2>1, <2>2
<1>6. Link(l, b, peer', Mine(up) \o ms, Tail(Mine(down)))
  BY <1>1, <1>4, <1>5, StartLink DEF InLink
<1>7. ~(peer'.controls["p2p"] > 0) \/ peer.controls["p2p"] > 0
  BY <1>3
<1>8. Kept(peer, peer')
  BY <1>4, MovesKept
<1> QED
  BY <1>5, <1>6, <1>7, <1>8 DEF Carried, Said

LEMMA SignalCarried ==
  ASSUME PhoneInv, peer' \in Peer, NEW l, NEW b, InLink(l, b),
         NEW applies \in BOOLEAN, HandleP2PSignal(applies)
  PROVE  ClosesWith(Benign) \/ Carried(l, b)
<1>1. /\ peer.session \in Sessions /\ peer \in Peer /\ ChannelsOK
      /\ Mine(up) \in Seq(Frames) /\ Mine(down) \in Seq(Frames)
      /\ Mine(down) # <<>> /\ Head(Mine(down)).type = "signal"
  <2>1. RelayFrame("signal")
    BY DEF HandleP2PSignal
  <2> QED
    BY <2>1, RelayFrameFinds
<1>2. Link(l, b, peer, Mine(up), Tail(Mine(down)))
  BY <1>1, PlainLink DEF InLink
<1>3. ASSUME NEW ms \in Seq(Frames), Said(ms), Tells(peer, peer', ms),
             peer'.controls["p2p"] > 0 => peer.controls["p2p"] > 0
      PROVE  Carried(l, b)
  <2>1. Link(l, b, peer', Mine(up) \o ms, Tail(Mine(down)))
    BY <1>1, <1>2, <1>3, TellsLink
  <2>2. Kept(peer, peer')
    BY <1>3, MovesKept
  <2> QED
    BY <1>3, <2>1, <2>2 DEF Carried, Said
<1>4. CASE Stays(peer, peer') /\ Silent
  <2>1. PICK ms \in Seq(Frames) : ms = <<>> /\ Said(ms)
    BY <1>1, <1>4, SaidIs, ShortSequences
  <2>2. Tells(peer, peer', ms)
    BY <1>4, <2>1 DEF Tells
  <2>3. peer'.controls = peer.controls
    BY <1>4 DEF Stays
  <2> QED
    BY <1>3, <2>1, <2>2, <2>3
<1>5. CASE Fails(peer, peer') /\ TellsFailure
  <2>1. PICK ms \in Seq(Frames) :
          Said(ms) /\ \E n \in Nat : ms = <<P2PState("failed", n)>>
    BY <1>1, <1>5, FailureSays
  <2>2. Tells(peer, peer', ms)
    BY <1>5, <2>1 DEF Tells
  <2>3. ~(peer'.controls["p2p"] > 0)
    BY <1>5 DEF Fails
  <2> QED
    BY <1>3, <2>1, <2>2, <2>3
<1> QED
  BY <1>4, <1>5, SignalHandled

LEMMA SelectCarried ==
  ASSUME PhoneInv, peer' \in Peer, NEW l, NEW b, InLink(l, b),
         SelectInitialTransport
  PROVE  Carried(l, b)
<1> DEFINE t == Head(Mine(down)).transport
<1>1. /\ peer.session \in Sessions /\ peer \in Peer /\ ChannelsOK
      /\ Mine(up) \in Seq(Frames) /\ Mine(down) \in Seq(Frames)
      /\ Mine(down) # <<>> /\ Head(Mine(down)) = Ready(t) /\ t \in Carriers
  <2>1. RelayFrame("ready")
    BY DEF SelectInitialTransport
  <2>2. /\ Head(Mine(down)) \in Frames /\ Head(Mine(down)).type = "ready"
    BY <2>1, RelayFrameFinds
  <2>3. t \in Carriers
    BY <2>2, FrameFields DEF Carriers
  <2> QED
    BY <2>1, <2>2, <2>3, RelayFrameFinds, FrameIs
<1>2. \/ /\ ClosesWith(Faults)
         /\ \/ peer.paired \/ peer.awaiting \/ Foreign(t)
            \/ /\ t = "p2p" /\ (~peer.ready \/ peer.sidecar = "none")
               /\ ~(peer.readyReported /\ peer.failureReported)
      \/ Awaits(peer, peer') /\ Silent /\ t = "p2p"
      \/ Selects(peer, peer', t) /\ Silent /\ ~Foreign(t)
  BY SelectEffect DEF Mine
<1> HIDE DEF t
<1>3. /\ Holds(Mine(down), Ready(t)) /\ PhoneShape(peer) /\ Told(peer, Mine(down))
  BY <1>1, Rest DEF InLink, Link
<1>4. ~peer.paired /\ ~peer.awaiting /\ ~peer.recovering /\ peer.selected = "none"
  BY <1>1, <1>3 DEF Told, HasReady, Carriers, PhoneShape
<1>5. ~Foreign(t)
  <2>1. CASE t = "relay"
    BY <1>3, <2>1 DEF Foreign, Carriers, InLink
  <2>2. CASE t = "p2p"
    BY <1>3, <1>4, <2>2 DEF Foreign, Carriers, PhoneShape
  <2> QED
    BY <1>1, <2>1, <2>2 DEF Carriers
<1>6. t = "p2p" /\ (~peer.ready \/ peer.sidecar = "none") =>
        peer.readyReported /\ peer.failureReported
  BY <1>3, <1>4 DEF Told, PhoneShape
<1>7. /\ Silent
      /\ Goes(peer, peer', t) \/ (Awaits(peer, peer') /\ t = "p2p")
  BY <1>2, <1>4, <1>5, <1>6 DEF Goes, Foreign
<1>8. Link(l, b, peer', Mine(up), Tail(Mine(down)))
  BY <1>1, <1>7, SelectLink DEF InLink
<1>9. peer'.controls = peer.controls
  BY <1>7 DEF Goes, Selects, Awaits
<1>10. Kept(peer, peer')
  BY <1>7, MovesKept
<1> QED
  BY <1>7, <1>8, <1>9, <1>10 DEF Carried, Mine, Silent

LEMMA RecoverCarried ==
  ASSUME PhoneInv, peer' \in Peer, NEW l, NEW b, InLink(l, b), RecoveryBegins
  PROVE  Carried(l, b)
<1>1. /\ peer.session \in Sessions /\ peer \in Peer /\ ChannelsOK
      /\ Mine(up) \in Seq(Frames) /\ Mine(down) \in Seq(Frames)
      /\ Mine(down) # <<>> /\ Head(Mine(down)) = Transport("recovering")
  <2>1. RelayFrame("transport") /\ Head(Mine(down)).phase = "recovering"
    BY DEF RecoveryBegins, Mine
  <2> QED
    BY <2>1, RelayFrameFinds, FrameIs
<1>2. peer.awaiting \/ peer.recovering \/ peer.selected = "p2p"
  BY <1>1, TailPreceded DEF InLink, Link, Told
<1>3. \/ Recovers(peer, peer') /\ Silent
      \/ Drops(peer, peer') /\ peer'.local = "connecting" /\ TellsFailure
  BY <1>2, RecoveryEffect
<1>4. PICK ms \in Seq(Frames) :
        /\ Said(ms)
        /\ \/ Recovers(peer, peer') /\ ms = <<>>
           \/ /\ Drops(peer, peer') /\ peer'.local = "connecting"
              /\ \E n : ms = <<P2PState("failed", n)>>
  <2>1. CASE Recovers(peer, peer') /\ Silent
    BY <1>1, <2>1, SaidIs, ShortSequences
  <2>2. CASE Drops(peer, peer') /\ peer'.local = "connecting" /\ TellsFailure
    BY <1>1, <2>2, FailureSays
  <2> QED
    BY <1>3, <2>1, <2>2
<1>5. Link(l, b, peer', Mine(up) \o ms, Tail(Mine(down)))
  BY <1>1, <1>4, RecoverLink DEF InLink
<1>6. ~(peer'.controls["p2p"] > 0) \/ peer.controls["p2p"] > 0
  <2>1. NoControls["p2p"] = 0
    BY DEF NoControls, Carriers
  <2> QED
    BY <1>3, <2>1 DEF Recovers, Drops
<1>7. Kept(peer, peer')
  BY <1>3, MovesKept
<1> QED
  BY <1>4, <1>5, <1>6, <1>7 DEF Carried, Said

LEMMA CommitCarried ==
  ASSUME PhoneInv, peer' \in Peer, NEW l, NEW b, InLink(l, b), RecoveryCommits
  PROVE  Carried(l, b)
<1>1. /\ peer.session \in Sessions /\ peer \in Peer /\ ChannelsOK
      /\ Mine(up) \in Seq(Frames) /\ Mine(down) \in Seq(Frames)
      /\ Mine(down) # <<>> /\ Head(Mine(down)) = Transport("ready")
  <2>1. RelayFrame("transport") /\ Head(Mine(down)).phase = "ready"
    BY DEF RecoveryCommits, Mine
  <2> QED
    BY <2>1, RelayFrameFinds, FrameIs
<1>2. peer.recovering /\ peer.local = "open" /\ peer.bridged
  BY <1>1, Rest DEF InLink, Link, Told, PhoneShape
<1>3. /\ Commits(peer, peer')
      /\ \E ms \in Seq(Frames) :
           Sends(ms) /\ \A i \in DOMAIN ms : ms[i] = Binary
  BY <1>2, CommitEffect
<1>4. PICK ms \in Seq(Frames) : Said(ms) /\ \A i \in DOMAIN ms : ms[i] = Binary
  BY <1>1, <1>3, SaidIs
<1>5. Link(l, b, peer', Mine(up) \o ms, Tail(Mine(down)))
  BY <1>1, <1>3, <1>4, CommitLink DEF InLink
<1>6. peer'.controls = peer.controls
  BY <1>3 DEF Commits
<1>7. Kept(peer, peer')
  BY <1>3, MovesKept
<1> QED
  BY <1>4, <1>5, <1>6, <1>7 DEF Carried, Said

LEMMA BinaryCarried ==
  ASSUME PhoneInv, peer' \in Peer, NEW l, NEW b, InLink(l, b), RelayBinary
  PROVE  ClosesWith(Benign) \/ Carried(l, b)
<1>1. /\ peer.session \in Sessions /\ peer \in Peer /\ ChannelsOK
      /\ Mine(up) \in Seq(Frames) /\ Mine(down) \in Seq(Frames)
      /\ Mine(down) # <<>> /\ Head(Mine(down)) = Binary
  <2>1. RelayFrame("binary")
    BY DEF RelayBinary
  <2> QED
    BY <2>1, RelayFrameFinds, FrameIs
<1>2. peer.selected = "relay"
  BY <1>1, TailPreceded DEF InLink, Link, Told
<1>3. peer.paired /\ ~Foreign("relay")
  <2>1. peer.paired /\ peer.controls["p2p"] = 0
    BY <1>2 DEF InLink, Link, PhoneShape
  <2> QED
    BY <2>1 DEF Foreign, Carriers
<1>4. \/ ClosesWith(Benign)
      \/ Silent /\ (Stays(peer, peer') \/ Buffers(peer, peer', "relay"))
  BY <1>2, <1>3, RelayBinaryEffect
<1>5. ASSUME Silent, Stays(peer, peer') \/ Buffers(peer, peer', "relay")
      PROVE  Carried(l, b)
  <2>1. Link(l, b, peer', Mine(up), Tail(Mine(down)))
    BY <1>1, <1>5, BinaryLink DEF InLink
  <2>2. peer'.controls["p2p"] = peer.controls["p2p"]
    BY <1>5 DEF Stays, Buffers, Carriers
  <2>3. Kept(peer, peer')
    BY <1>5, MovesKept
  <2> QED
    BY <1>5, <2>1, <2>2, <2>3 DEF Carried, Silent, Mine
<1> QED
  BY <1>4, <1>5

LEMMA RelayFrameCarried ==
  ASSUME PhoneInv, peer' \in Peer, NEW l, NEW b, InLink(l, b), HandleRelayFrame
  PROVE  ClosesWith(Benign) \/ (Carried(l, b) /\ ~Early(l, b, peer, Mine(up)))
<1>1. CASE RelayCloses
  BY <1>1, RelayClosesEffect
<1>2. CASE ~RelayCloses
  <2>1. PICK type : RelayFrame(type) /\ type # "eof"
    <3>1. ASSUME NEW works \in BOOLEAN, StartP2P(works) \/ HandleP2PSignal(works)
          PROVE  RelayFrame("start") \/ RelayFrame("signal")
      BY <3>1 DEF StartP2P, HandleP2PSignal
    <3>2. CASE SelectInitialTransport \/ RelayBinary
      BY <3>2 DEF SelectInitialTransport, RelayBinary
    <3>3. CASE RecoveryBegins \/ RecoveryCommits
      BY <3>3 DEF RecoveryBegins, RecoveryCommits
    <3> QED
      BY <1>2, <3>1, <3>2, <3>3 DEF HandleRelayFrame
  <2>2. /\ Mine(down) \in Seq(Frames) /\ Mine(down) # <<>>
        /\ Head(Mine(down)).type # "eof"
    BY <2>1, RelayFrameFinds
  <2>3. ~Early(l, b, peer, Mine(up))
    BY <2>2, NotEarly, FrameTypes DEF InLink
  <2> QED
    BY <1>2, <2>3, StartCarried, SignalCarried, SelectCarried, RecoverCarried,
       CommitCarried, BinaryCarried
    DEF HandleRelayFrame
<1> QED
  BY <1>1, <1>2

-----------------------------------------------------------------------------
(* No callback does either.                                                *)

\* What a callback leaves of the session.
Called(l, b) ==
  /\ Kept(peer, peer')
  /\ Link(l, b, peer', up'[peer.session]["device"], Mine(down))
  /\ Stage0(peer) => Silent
  /\ peer'.controls["p2p"] > 0 => peer.controls["p2p"] > 0 \/ pipe > 0

LEMMA TellsCalled ==
  ASSUME PhoneInv, peer \in Peer, peer' \in Peer, peer.session \in Sessions,
         NEW l, NEW b, InLink(l, b), NEW ms \in Seq(Frames), Said(ms),
         Tells(peer, peer', ms), Stage0(peer) => Silent,
         Keeps(peer, peer', "p2p") => pipe > 0
  PROVE  Called(l, b)
<1>1. Mine(up) \in Seq(Frames)
  <2>1. "device" \in Roles /\ up \in Channels
    BY DEF Roles, PhoneInv, ChannelsOK
  <2> QED
    BY <2>1, ChannelTyped DEF Mine
<1>2. Link(l, b, peer', Mine(up) \o ms, Mine(down))
  BY <1>1, TellsLink DEF InLink
<1>3. peer'.controls["p2p"] > 0 => peer.controls["p2p"] > 0 \/ pipe > 0
  <2>1. NoControls["p2p"] = 0
    BY DEF NoControls, Carriers
  <2> QED
    BY <2>1 DEF Tells, Stays, Fails, Drops, Announces, Opens
<1>4. Kept(peer, peer')
  BY MovesKept
<1> QED
  BY <1>2, <1>3, <1>4 DEF Called, Said

LEMMA SilentCalled ==
  ASSUME PhoneInv, peer \in Peer, peer' \in Peer, peer.session \in Sessions,
         NEW l, NEW b, InLink(l, b), Silent,
         \/ Stays(peer, peer')
         \/ Opens(peer, peer') /\ ~peer.recovering
         \/ Keeps(peer, peer', "p2p") /\ pipe > 0
  PROVE  Called(l, b)
<1>1. PICK ms \in Seq(Frames) : ms = <<>> /\ Said(ms)
  BY SaidIs, ShortSequences DEF PhoneInv
<1>2. Tells(peer, peer', ms)
  BY <1>1 DEF Tells
<1>3. Keeps(peer, peer', "p2p") => pipe > 0
  <2>1. Stays(peer, peer') => ~Keeps(peer, peer', "p2p")
    <3>1. "p2p" \in Carriers
      BY DEF Carriers
    <3>2. peer.controls["p2p"] \in Nat
      BY <3>1, ControlsTyped
    <3> QED
      BY <3>1, <3>2 DEF Stays, Keeps, Buffers
  <2>2. Opens(peer, peer') => ~Keeps(peer, peer', "p2p")
    <3>1. "p2p" \in Carriers /\ peer.bridged \in BOOLEAN
      BY DEF Carriers, Peer
    <3> QED
      BY <3>1 DEF Opens, Keeps, Buffers, SameLink
  <2> QED
    BY <2>1, <2>2
<1> QED
  BY <1>1, <1>2, <1>3, TellsCalled

LEMMA FailureCalled ==
  ASSUME PhoneInv, peer \in Peer, peer' \in Peer, peer.session \in Sessions,
         NEW l, NEW b, InLink(l, b), TellsFailure,
         Fails(peer, peer') \/ (Drops(peer, peer') /\ peer'.local = "none")
  PROVE  Called(l, b)
<1>1. PICK ms \in Seq(Frames) :
        Said(ms) /\ \E n \in Nat : ms = <<P2PState("failed", n)>>
  BY FailureSays DEF PhoneInv
<1>2. Tells(peer, peer', ms)
  BY <1>1 DEF Tells
<1>3. ~Stage0(peer)
  BY DEF Stage0, Fails, Drops
<1>4. ~Keeps(peer, peer', "p2p")
  BY DEF Fails, Drops, Keeps, Buffers, SameReports, SameRole
<1> QED
  BY <1>1, <1>2, <1>3, <1>4, TellsCalled

Callback ==
  \/ LocalDescription \/ LocalCandidate \/ SidecarReady
  \/ SidecarDisconnected \/ SidecarFails \/ GraceEnds \/ SidecarBinary
  \/ LocalOpens \/ PeerCloses
  \/ \E sends \in BOOLEAN : LocalBinary(sends)

\* A sidecar is there, and has a state to report, only in a negotiation.
LEMMA DescriptionCalled ==
  ASSUME PhoneInv, peer' \in Peer, NEW l, NEW b, InLink(l, b),
         LocalDescription \/ LocalCandidate \/ SidecarReady
  PROVE  Called(l, b)
<1>1. /\ peer.session \in Sessions /\ peer \in Peer /\ ChannelsOK
      /\ peer.sidecar # "none"
  BY CallbackFinds DEF LocalDescription, LocalCandidate, SidecarReady, Sidecar
<1>2. ~Stage0(peer)
  BY <1>1 DEF Stage0
<1>3. ASSUME NEW ms \in Seq(Frames), Sends(ms), Stays(peer, peer'),
             \A i \in DOMAIN ms : ms[i].type = "signal"
      PROVE  Called(l, b)
  <2>1. Said(ms)
    BY <1>1, <1>3, SaidIs
  <2>2. Tells(peer, peer', ms)
    BY <1>3 DEF Tells
  <2>3. ~Keeps(peer, peer', "p2p")
    <3>1. "p2p" \in Carriers
      BY DEF Carriers
    <3>2. peer.controls["p2p"] \in Nat
      BY <1>1, <3>1, ControlsTyped
    <3> QED
      BY <1>3, <3>1, <3>2 DEF Stays, Keeps, Buffers
  <2> QED
    BY <1>1, <1>2, <2>1, <2>2, <2>3, TellsCalled
<1>4. CASE LocalDescription
  BY <1>3, <1>4, DescriptionEffect
<1>5. CASE LocalCandidate
  <2>1. ASSUME NEW n \in Nat, Sends(<<Signal("ice-candidate", n)>>),
               Stays(peer, peer')
        PROVE  Called(l, b)
    <3>1. PICK ms : ms = <<Signal("ice-candidate", n)>>
      OBVIOUS
    <3>2. ms \in Seq(Frames)
      BY <3>1, FramesBuilt, ShortSequences DEF SignalKinds
    <3>3. \A i \in DOMAIN ms : ms[i].type = "signal"
      BY <3>1, FrameTypes
    <3> QED
      BY <1>3, <2>1, <3>1, <3>2, <3>3
  <2>2. CASE Stays(peer, peer') /\ Silent
    BY <1>1, <2>2, SilentCalled
  <2>3. CASE Fails(peer, peer') /\ TellsFailure
    BY <1>1, <2>3, FailureCalled
  <2> QED
    BY <1>5, <2>1, <2>2, <2>3, CandidateEffect
<1>6. CASE SidecarReady
  <2>1. CASE Stays(peer, peer') /\ Silent
    BY <1>1, <2>1, SilentCalled
  <2>2. ASSUME Announces(peer, peer'), NEW n \in Nat,
               Sends(<<P2PState("ready", n)>>)
        PROVE  Called(l, b)
    <3>1. PICK ms : ms = <<P2PState("ready", n)>>
      OBVIOUS
    <3>2. ms \in Seq(Frames)
      BY <3>1, FramesBuilt, ShortSequences
    <3>3. Said(ms)
      BY <1>1, <2>2, <3>1, <3>2, SaidIs
    <3>4. Tells(peer, peer', ms)
      BY <2>2, <3>1 DEF Tells
    <3>5. ~Keeps(peer, peer', "p2p")
      BY <2>2 DEF Announces, Keeps, Buffers, SameReports
    <3> QED
      BY <1>1, <1>2, <3>2, <3>3, <3>4, <3>5, TellsCalled
  <2> QED
    BY <1>6, <2>1, <2>2, ReadyCallbackEffect
<1> QED
  BY <1>4, <1>5, <1>6

LEMMA FailureCallbackCalled ==
  ASSUME PhoneInv, peer' \in Peer, NEW l, NEW b, InLink(l, b),
         SidecarDisconnected \/ SidecarFails \/ GraceEnds
  PROVE  Called(l, b)
<1>1. peer.session \in Sessions /\ peer \in Peer
  BY CallbackFinds DEF SidecarDisconnected, SidecarFails, GraceEnds, Sidecar
<1> QED
  BY <1>1, FailureCallbackEffect, SilentCalled, FailureCalled

LEMMA SidecarBinaryCalled ==
  ASSUME PhoneInv, peer' \in Peer, NEW l, NEW b, InLink(l, b), SidecarBinary
  PROVE  ClosesWith(Benign) \/ Called(l, b)
<1>1. /\ peer.session \in Sessions /\ peer \in Peer /\ PhoneShape(peer)
      /\ peer.selected \in Transports
  BY CallbackFinds DEF SidecarBinary, Sidecar, InLink, Link, Peer
<1>2. peer.sidecar # "none" /\ pipe > 0
  BY SidecarBinaryEffect
<1>3. peer.selected # "relay" /\ (peer.paired => peer.selected = "p2p")
  BY <1>1, <1>2 DEF PhoneShape, Transports
<1>4. ~Foreign("p2p")
  BY <1>1, <1>3 DEF Foreign, Carriers, PhoneShape
<1>5. ~Held => peer.paired \/ peer.recovering
  BY <1>1 DEF Held, PhoneShape
<1>6. \/ ClosesWith(Benign)
      \/ Stays(peer, peer') /\ Silent
      \/ Buffers(peer, peer', "p2p") /\ Silent
      \/ Fails(peer, peer') /\ TellsFailure
  BY <1>3, <1>4, <1>5, SidecarBinaryEffect
<1>7. Buffers(peer, peer', "p2p") => Keeps(peer, peer', "p2p")
  BY <1>2 DEF Keeps
<1> QED
  BY <1>1, <1>2, <1>6, <1>7, SilentCalled, FailureCalled

LEMMA OpensCalled ==
  ASSUME PhoneInv, peer' \in Peer, NEW l, NEW b, InLink(l, b), LocalOpens
  PROVE  Called(l, b)
<1>1. /\ peer.session \in Sessions /\ peer \in Peer /\ PhoneShape(peer)
      /\ peer.selected \in Transports /\ peer.local = "connecting" /\ ChannelsOK
  BY CallbackFinds DEF LocalOpens, InLink, Link, Peer
<1>2. peer.paired \/ (peer.recovering /\ peer.failureReported)
  BY <1>1 DEF PhoneShape
<1>3. ~Foreign(peer.selected)
  BY <1>1, <1>2 DEF Foreign, Carriers, PhoneShape, Transports
<1>4. CASE Opens(peer, peer') /\ peer.recovering /\ Sends(<<TransportReady>>)
  <2>1. PICK ms : ms = <<TransportReady>>
    OBVIOUS
  <2>2. ms \in Seq(Frames)
    BY <2>1, FramesBuilt, ShortSequences
  <2>3. Said(ms)
    BY <1>1, <1>4, <2>1, <2>2, SaidIs
  <2>4. Tells(peer, peer', ms)
    BY <1>4, <2>1 DEF Tells
  <2>5. ~Stage0(peer) /\ ~Keeps(peer, peer', "p2p")
    BY <1>1, <1>4 DEF Stage0, Keeps, Buffers, Opens, SameLink
  <2> QED
    BY <1>1, <2>2, <2>3, <2>4, <2>5, TellsCalled
<1>5. CASE Opens(peer, peer') /\ ~peer.recovering /\ Silent
  BY <1>1, <1>5, SilentCalled
<1> QED
  BY <1>3, <1>4, <1>5, OpensEffect

LEMMA LocalBinaryCalled ==
  ASSUME PhoneInv, peer' \in Peer, NEW l, NEW b, InLink(l, b),
         NEW sends \in BOOLEAN, LocalBinary(sends)
  PROVE  ClosesWith(Benign) \/ Called(l, b)
<1>1. peer.session \in Sessions /\ peer \in Peer /\ ChannelsOK
  BY CallbackFinds DEF LocalBinary
<1>2. CASE Stays(peer, peer') /\ peer.selected = "relay" /\ Sends(<<Binary>>)
  <2>1. PICK ms : ms = <<Binary>>
    OBVIOUS
  <2>2. ms \in Seq(Frames)
    BY <2>1, FramesBuilt, ShortSequences
  <2>3. Said(ms)
    BY <1>1, <1>2, <2>1, <2>2, SaidIs
  <2>4. Tells(peer, peer', ms)
    BY <1>2, <2>1, FrameTypes DEF Tells
  <2>5. ~Stage0(peer) /\ ~Keeps(peer, peer', "p2p")
    BY <1>2 DEF Stage0, Keeps, Buffers
  <2> QED
    BY <1>1, <2>2, <2>3, <2>4, <2>5, TellsCalled
<1> QED
  BY <1>1, <1>2, LocalBinaryEffect, SilentCalled, FailureCalled

LEMMA CallbackCalled ==
  ASSUME PhoneInv, peer' \in Peer, NEW l, NEW b, InLink(l, b), Callback
  PROVE  ClosesWith(Benign) \/ Called(l, b)
  BY DescriptionCalled, FailureCallbackCalled, SidecarBinaryCalled, OpensCalled,
     LocalBinaryCalled, ClosesEffect
  DEF Callback

-----------------------------------------------------------------------------
(* What a step of the server leaves of the session.                        *)

\* v is u, or what is left of it.
Rests(v, u) ==
  /\ Once(v) /\ (HasHello(v) => HasHello(u))
  /\ Holds(v, TransportReady) => Holds(u, TransportReady)
  /\ HasState(v, "ready") => HasState(u, "ready")

LEMMA RestsOf ==
  ASSUME NEW u \in Seq(Frames), Once(u), NEW v,
         v = u \/ (u # <<>> /\ v = Tail(u))
  PROVE  Rests(v, u)
<1>1. CASE v = u
  BY <1>1 DEF Rests
<1>2. CASE u # <<>> /\ v = Tail(u)
  <2>1. /\ Once(v) /\ (HasHello(v) => HasHello(u))
        /\ HasState(v, "ready") => HasState(u, "ready")
    BY <1>2, TailKinds, TailOnce
  <2>2. Holds(v, TransportReady) => Holds(u, TransportReady)
    BY <1>2, TailHolds
  <2> QED
    BY <2>1, <2>2 DEF Rests
<1> QED
  BY <1>1, <1>2

LEMMA RestsTelling ==
  ASSUME NEW p, NEW u, NEW v, NEW d, Telling(p, u, d), Rests(v, u)
  PROVE  Telling(p, v, d)
  BY DEF Telling, Rests

\* A frame that makes no choice.
LEMMA PlainSent ==
  ASSUME NEW p, NEW d \in Seq(Frames), NEW n \in Frames, Ordered(d), Told(p, d),
         n.type \in {"signal", "closed", "eof", "binary"},
         n = Binary => p.selected = "relay" \/ \E m \in ToTransport : Holds(d, m)
  PROVE  /\ Ordered(Append(d, n)) /\ Told(p, Append(d, n))
         /\ \A t \in {"p2p", "relay"} :
              Holds(Append(d, n), Ready(t)) <=> Holds(d, Ready(t))
         /\ \A x \in {"ready", "recovering"} :
              Holds(Append(d, n), Transport(x)) <=> Holds(d, Transport(x))
<1> DEFINE e == Append(d, n)
<1>1. /\ n # Start /\ n.type \notin {"ready", "transport"}
      /\ \A t : n # Ready(t)
      /\ \A t : n # Transport(t)
  BY FrameTypes
<1>2. Ordered(e)
  BY <1>1, AppendOrdered
<1>3. /\ \A t \in {"p2p", "relay"} : Holds(e, Ready(t)) <=> Holds(d, Ready(t))
      /\ \A x \in {"ready", "recovering"} :
           Holds(e, Transport(x)) <=> Holds(d, Transport(x))
      /\ Holds(e, Start) <=> Holds(d, Start)
  BY <1>1, AppendHolds
<1>4. HasReady(e) <=> HasReady(d)
  BY <1>3 DEF HasReady
<1>5. Preceded(d, Transport("recovering"), {Ready("p2p")})
        => Preceded(e, Transport("recovering"), {Ready("p2p")})
  BY <1>1, AppendPreceded
<1>6. p.selected = "relay" \/ Preceded(e, Binary, ToTransport)
  BY AppendPreceded DEF Told
<1> HIDE DEF e
<1>7. Told(p, e)
  BY <1>3, <1>4, <1>5, <1>6 DEF Told
<1> QED
  BY <1>2, <1>3, <1>7 DEF e

\* The lease is over.
LEMMA EndedLink ==
  ASSUME NEW l, NEW b, NEW p, NEW u, NEW d \in Seq(Frames), Link(l, b, p, u, d),
         NEW x, ~x.executing, NEW v, Rests(v, u), NEW e,
         e = d \/ (e = Append(d, Closed) /\ b /\ p.version # 0)
  PROVE  Link(x, FALSE, p, v, e)
<1>1. Closed \in Frames /\ Closed.type = "closed" /\ Closed # Binary
  BY FramesBuilt, FrameTypes
<1>2. Ordered(e) /\ Told(p, e)
  BY <1>1, PlainSent DEF Link
<1>3. Holds(e, Transport("ready")) => Holds(d, Transport("ready"))
  BY <1>1, PlainSent DEF Link
<1>4. Telling(p, v, e)
  BY <1>3, RestsTelling DEF Link, Telling
<1>5. Early(x, FALSE, p, v) => Stage0(p) /\ OnlyEof(e)
  BY DEF Early, Link, Rests
<1> QED
  BY <1>2, <1>4, <1>5 DEF Link, Rests

\* The socket of the phone is not bound, or dead.
LEMMA UnboundLink ==
  ASSUME NEW l, NEW p, NEW u, NEW d, Link(l, FALSE, p, u, d), l.executing,
         NEW x, NEW v, Rests(v, u)
  PROVE  Link(x, FALSE, p, v, d)
<1>1. Stage0(p) /\ OnlyEof(d)
  BY DEF Link, Early
<1> QED
  BY <1>1, RestsTelling DEF Link, Rests

\* The choice stays.
LEMMA KeptChoiceLink ==
  ASSUME NEW l, NEW b, NEW p, NEW u, NEW d, Link(l, b, p, u, d),
         NEW x, x.executing = l.executing, x.state = l.state,
         x.selected = l.selected, x.bound = l.bound,
         NEW v, Rests(v, u),
         "device" \in x.ready => "device" \in l.ready \/ HasState(u, "ready"),
         b /\ (l.state = "SELECTING_TRANSPORT" \/ OnP2P(l)) =>
           (HasState(u, "failed") => HasState(v, "failed"))
  PROVE  Link(x, b, p, v, d)
<1>1. Telling(p, v, d) /\ Once(v)
  BY RestsTelling DEF Link, Rests
<1>2. Early(x, b, p, v) => Early(l, b, p, u)
  BY DEF Early, Rests
<1>3. ASSUME b PROVE x.executing /\ Agreed(x, p, v, d)
  <2>1. OnP2P(x) = OnP2P(l) /\ OnTheRelay(x) = OnTheRelay(l)
    BY DEF OnP2P, OnTheRelay
  <2>2. l.executing /\ Agreed(l, p, u, d) /\ Telling(p, u, d)
    BY <1>3 DEF Link
  <2> QED
    BY <1>3, <2>1, <2>2 DEF Agreed, Telling
<1> QED
  BY <1>1, <1>2, <1>3 DEF Link, Rests

\* A signal, a control, or the close of a socket is sent.
LEMMA SentLink ==
  ASSUME NEW l, NEW b, NEW p, NEW u, NEW d \in Seq(Frames), Link(l, b, p, u, d),
         NEW n \in Frames,
         \/ n = Eof
         \/ n.type = "signal" /\ ~Early(l, b, p, u)
         \/ n = Binary /\ b /\ OnTheRelay(l) /\ ~Early(l, b, p, u)
  PROVE  Link(l, b, p, u, Append(d, n))
<1> DEFINE e == Append(d, n)
<1>1. /\ Eof.type = "eof" /\ Binary.type = "binary" /\ Binary # Eof
      /\ \A k : n.type = "signal" => n # Binary
  BY FrameTypes
<1>2. n = Binary => p.selected = "relay" \/ \E m \in ToTransport : Holds(d, m)
  BY <1>1 DEF Link, Agreed
<1>3. /\ Ordered(e) /\ Told(p, e)
      /\ \A t \in {"p2p", "relay"} : Holds(e, Ready(t)) <=> Holds(d, Ready(t))
      /\ \A x \in {"ready", "recovering"} :
           Holds(e, Transport(x)) <=> Holds(d, Transport(x))
  BY <1>1, <1>2, PlainSent DEF Link
<1>4. Telling(p, u, e)
  BY <1>3 DEF Link, Telling
<1>5. Early(l, b, p, u) => OnlyEof(e)
  BY <1>1, AppendOnlyEof DEF Link
<1>6. ASSUME b PROVE Agreed(l, p, u, e)
  <2>1. Agreed(l, p, u, d)
    BY <1>6 DEF Link
  <2>2. l.state = "SELECTING_TRANSPORT" => Undecided(e)
    <3>1. l.state = "SELECTING_TRANSPORT" => n.type \in {"signal", "eof"}
      BY <1>1 DEF OnTheRelay
    <3> QED
      BY <2>1, <3>1, AppendAt DEF Agreed, Undecided
  <2>3. (\E m \in ToTransport : Holds(d, m)) => \E m \in ToTransport : Holds(e, m)
    BY AppendHolds
  <2> QED
    BY <1>3, <2>1, <2>2, <2>3 DEF Agreed
<1> QED
  BY <1>3, <1>4, <1>5, <1>6 DEF Link

-----------------------------------------------------------------------------
(* The choices of the server.                                              *)

\* A lease with both peers, before and after a choice.
Paired(l, p, u) ==
  /\ l.executing /\ l.bound = Roles /\ p.version # 0 /\ ~HasHello(u)

LEMMA ChosenLink ==
  ASSUME NEW l, NEW p, NEW u, NEW d, Link(l, TRUE, p, u, d), Paired(l, p, u),
         NEW x, x.executing, x.bound = Roles, NEW v, Rests(v, u), NEW e,
         Ordered(e), Told(p, e), Telling(p, v, e), Agreed(x, p, v, e)
  PROVE  Link(x, TRUE, p, v, e)
<1>1. ~Early(x, TRUE, p, v) /\ ~HasHello(v)
  BY DEF Early, Paired, Rests
<1> QED
  BY <1>1 DEF Link, Rests

\* Where nothing has been chosen, the phone has been told of nothing.
LEMMA UndecidedHolds ==
  ASSUME NEW d, Undecided(d)
  PROVE  /\ ~HasReady(d) /\ ~Holds(d, Ready("p2p")) /\ ~Holds(d, Ready("relay"))
         /\ ~Holds(d, Transport("ready")) /\ ~Holds(d, Transport("recovering"))
         /\ ~Holds(d, Binary)
<1>1. /\ \A t : Ready(t).type \notin {"start", "signal", "eof"}
      /\ \A x : Transport(x).type \notin {"start", "signal", "eof"}
      /\ Binary.type \notin {"start", "signal", "eof"}
  BY FrameTypes
<1>2. /\ ~Holds(d, Ready("p2p")) /\ ~Holds(d, Ready("relay"))
      /\ ~Holds(d, Transport("ready")) /\ ~Holds(d, Transport("recovering"))
      /\ ~Holds(d, Binary)
  BY <1>1 DEF Undecided, Holds
<1> QED
  BY <1>2 DEF HasReady

\* completeInitialRelaySelection, and both peers are ready for P2P.
LEMMA SelectedLink ==
  ASSUME NEW l, NEW p \in Peer, NEW u, NEW d \in Seq(Frames),
         Link(l, TRUE, p, u, d), Paired(l, p, u), l.state = "SELECTING_TRANSPORT",
         NEW x, x.executing, x.bound = Roles, x.state = "ACTIVE",
         NEW t \in {"p2p", "relay"}, x.selected = t, NEW v, Rests(v, u),
         t = "p2p" => /\ p.readyReported
                      /\ HasState(u, "failed") => HasState(v, "failed"),
         "device" \in x.ready => t = "p2p"
  PROVE  Link(x, TRUE, p, v, Append(d, Ready(t)))
<1> DEFINE e == Append(d, Ready(t))
<1>1. /\ Agreed(l, p, u, d) /\ Told(p, d) /\ Ordered(d) /\ Telling(p, u, d)
      /\ PhoneShape(p)
  BY DEF Link
<1>2. ~p.paired /\ ~p.awaiting /\ ~p.recovering /\ Undecided(d) /\ p.selected = "none"
  BY <1>1 DEF Agreed, PhoneShape
<1>3. /\ Ready(t) \in Frames /\ Ready(t).type = "ready" /\ Ready(t) # Start
      /\ \A y : Ready(t) # Transport(y)
      /\ Ready(t) # Binary /\ \A s : Ready(t) = Ready(s) <=> t = s
  BY FramesBuilt, FrameTypes
<1>4. /\ ~HasReady(d) /\ ~Holds(d, Ready("p2p")) /\ ~Holds(d, Ready("relay"))
      /\ ~Holds(d, Transport("ready")) /\ ~Holds(d, Transport("recovering"))
      /\ ~Holds(d, Binary)
  BY <1>2, UndecidedHolds
<1>5. /\ Holds(e, Ready(t)) /\ (Holds(e, Start) => Holds(d, Start))
      /\ Holds(e, Ready("p2p")) => t = "p2p"
      /\ ~Holds(e, Transport("ready")) /\ ~Holds(e, Transport("recovering"))
      /\ ~Holds(e, Binary)
  BY <1>3, <1>4, AppendHolds
<1>6. Ordered(e)
  BY <1>1, <1>3, <1>4, AppendOrdered
<1>7. /\ Preceded(e, Transport("recovering"), {Ready("p2p")})
      /\ Preceded(e, Binary, ToTransport)
  BY <1>5 DEF Preceded, Holds
<1> HIDE DEF e
<1>8. Told(p, e)
  BY <1>1, <1>2, <1>5, <1>7 DEF Told
<1>9. Telling(p, v, e)
  BY <1>1, <1>5 DEF Telling, Rests
<1>10. Agreed(x, p, v, e)
  <2>1. OnTheRelay(x) => \E m \in ToTransport : Holds(e, m)
    BY <1>5 DEF OnTheRelay, ToTransport
  <2>2. OnP2P(x) => Holds(e, Ready("p2p")) /\ t = "p2p"
    BY <1>5 DEF OnP2P
  <2>3. l.state = "SELECTING_TRANSPORT" /\ p.failureReported => HasState(u, "failed")
    BY <1>1 DEF Agreed
  <2> QED
    BY <1>5, <2>1, <2>2, <2>3 DEF Agreed
<1> QED
  BY <1>6, <1>8, <1>9, <1>10, ChosenLink DEF e

\* handleP2PState, "failed"
LEMMA RecoveryLink ==
  ASSUME NEW l, NEW p \in Peer, NEW u, NEW d \in Seq(Frames),
         Link(l, TRUE, p, u, d), Paired(l, p, u), OnP2P(l),
         NEW x, x.executing, x.bound = Roles, x.state = "RECOVERING_TRANSPORT",
         x.ready = l.ready, NEW v, Rests(v, u)
  PROVE  Link(x, TRUE, p, v, Append(d, Transport("recovering")))
<1> DEFINE m == Transport("recovering")
           e == Append(d, m)
<1>1. /\ Agreed(l, p, u, d) /\ Told(p, d) /\ Ordered(d) /\ Telling(p, u, d)
      /\ PhoneShape(p)
  BY DEF Link
<1>2. /\ m \in Frames /\ m.type = "transport" /\ m # Start /\ m # Transport("ready")
      /\ m # Binary /\ m # Ready("p2p") /\ m # Ready("relay")
  BY FramesBuilt, FrameTypes
<1>3. ~Holds(d, Transport("ready"))
  BY <1>1 DEF Agreed, OnP2P, OnTheRelay
<1>4. /\ Holds(d, Ready("p2p")) \/ p.awaiting \/ p.recovering \/ p.selected = "p2p"
      /\ p.selected # "relay"
  BY <1>1 DEF Agreed, Told, HasReady, PhoneShape
<1>5. /\ \A y : y # m => (Holds(e, y) <=> Holds(d, y))
  BY <1>2, AppendHolds
<1>6. Ordered(e)
  BY <1>1, <1>2, <1>3, AppendOrdered
<1>7. /\ \/ p.awaiting \/ p.recovering \/ p.selected = "p2p"
         \/ Preceded(e, m, {Ready("p2p")})
      /\ Preceded(e, Binary, ToTransport)
  BY <1>1, <1>2, <1>4, AppendPreceded DEF Told
<1>8. HasReady(e) <=> HasReady(d)
  BY <1>2, <1>5 DEF HasReady
<1> HIDE DEF e
<1>9. Told(p, e)
  BY <1>1, <1>2, <1>3, <1>4, <1>5, <1>7, <1>8 DEF Told
<1>10. Telling(p, v, e)
  BY <1>1, <1>2, <1>5 DEF Telling, Rests
<1>11. Agreed(x, p, v, e)
  BY <1>1, <1>2, <1>3, <1>5 DEF Agreed, OnP2P, OnTheRelay
<1> QED
  BY <1>6, <1>9, <1>10, <1>11, ChosenLink DEF e

\* handleTransportState
LEMMA RecoveredLink ==
  ASSUME NEW l, NEW p \in Peer, NEW u \in Seq(Frames), NEW d \in Seq(Frames),
         Link(l, TRUE, p, u, d), Paired(l, p, u), l.state = "RECOVERING_TRANSPORT",
         u # <<>>, Head(u) = TransportReady,
         NEW x, x.executing, x.bound = Roles, x.state = "ACTIVE",
         x.selected = "relay", x.ready = l.ready
  PROVE  Link(x, TRUE, p, Tail(u), Append(d, Transport("ready")))
<1> DEFINE m == Transport("ready")
           e == Append(d, m)
<1>1. /\ Agreed(l, p, u, d) /\ Told(p, d) /\ Ordered(d) /\ Telling(p, u, d)
      /\ PhoneShape(p) /\ Once(u)
  BY DEF Link
<1>2. /\ m \in Frames /\ m.type = "transport" /\ m # Start
      /\ m # Transport("recovering") /\ m # Binary
      /\ m # Ready("p2p") /\ m # Ready("relay")
  BY FramesBuilt, FrameTypes
<1>3. p.recovering /\ p.local = "open" /\ ~Holds(d, m)
  BY <1>1, Rest DEF Telling
<1>4. p.selected = "none" /\ ~HasReady(d)
  BY <1>1, <1>3 DEF Told, PhoneShape
<1>5. Holds(e, m) /\ \A y : y # m => (Holds(e, y) <=> Holds(d, y))
  BY <1>2, AppendHolds
<1>6. Ordered(e)
  BY <1>1, <1>2, <1>3, AppendOrdered
<1>7. Preceded(e, Binary, ToTransport)
  BY <1>1, <1>2, <1>4, AppendPreceded DEF Told
<1>8. HasReady(e) <=> HasReady(d)
  BY <1>2, <1>5 DEF HasReady
<1>9. Rests(Tail(u), u) /\ ~Holds(Tail(u), TransportReady)
  BY <1>1, RestsOf, TailOnce
<1> HIDE DEF e
<1>10. Told(p, e)
  BY <1>1, <1>2, <1>3, <1>4, <1>5, <1>7, <1>8 DEF Told
<1>11. Telling(p, Tail(u), e)
  BY <1>1, <1>9 DEF Telling, Rests
<1>12. Agreed(x, p, Tail(u), e)
  BY <1>1, <1>5 DEF Agreed, OnP2P, OnTheRelay, ToTransport
<1> QED
  BY <1>6, <1>9, <1>10, <1>11, <1>12, ChosenLink DEF e

-----------------------------------------------------------------------------
(* A peer is bound.                                                        *)

\* Before both peers are there the phone has read, and been sent, nothing.
LEMMA OnlyEofHolds ==
  ASSUME NEW d, OnlyEof(d)
  PROVE  /\ Undecided(d) /\ ~Holds(d, Start)
         /\ ~HasReady(d) /\ ~Holds(d, Ready("p2p")) /\ ~Holds(d, Ready("relay"))
         /\ ~Holds(d, Transport("ready")) /\ ~Holds(d, Transport("recovering"))
         /\ ~Holds(d, Binary)
<1>1. Undecided(d) /\ ~Holds(d, Start)
  BY FrameTypes DEF OnlyEof, Undecided, Holds
<1> QED
  BY <1>1, UndecidedHolds

\* updatePairingState while the controller is missing
LEMMA WaitingLink ==
  ASSUME NEW l, NEW p, NEW u, NEW d, Link(l, FALSE, p, u, d), l.executing,
         NEW x, x.executing, x.ready = {},
         x.state \notin {"SELECTING_TRANSPORT", "ACTIVE"},
         NEW v, Rests(v, u), ~HasHello(v)
  PROVE  Link(x, TRUE, p, v, d)
<1>1. Stage0(p) /\ OnlyEof(d)
  BY DEF Link, Early
<1>2. Agreed(x, p, v, d)
  BY <1>1, OnlyEofHolds DEF Agreed, OnP2P, OnTheRelay
<1> QED
  BY <1>1, <1>2, RestsTelling DEF Link, Rests

\* updatePairingState when the second peer comes
LEMMA PairedLink ==
  ASSUME NEW l, NEW b, NEW p, NEW u, NEW d \in Seq(Frames), Link(l, b, p, u, d),
         Early(l, b, p, u), p.version # 0,
         NEW x, x.executing, x.bound = Roles, x.ready = {},
         NEW v, Rests(v, u), ~HasHello(v), NEW n \in Frames,
         \/ n = Start /\ x.state = "SELECTING_TRANSPORT"
         \/ n = Ready("relay") /\ OnTheRelay(x)
  PROVE  Link(x, TRUE, p, v, Append(d, n))
<1> DEFINE e == Append(d, n)
<1>1. Stage0(p) /\ OnlyEof(d) /\ Ordered(d) /\ Telling(p, u, d) /\ PhoneShape(p)
  BY DEF Link
<1>2. /\ ~Holds(d, Start) /\ Undecided(d)
      /\ ~HasReady(d) /\ ~Holds(d, Ready("p2p")) /\ ~Holds(d, Ready("relay"))
      /\ ~Holds(d, Transport("ready")) /\ ~Holds(d, Transport("recovering"))
      /\ ~Holds(d, Binary)
  BY <1>1, OnlyEofHolds
<1>3. /\ n # Binary /\ n # Ready("p2p")
      /\ n # Transport("ready") /\ n # Transport("recovering")
      /\ n = Start => n.type = "start"
      /\ n.type # "transport"
  BY FrameTypes
<1>4. /\ ~Holds(e, Transport("ready")) /\ ~Holds(e, Transport("recovering"))
      /\ ~Holds(e, Binary) /\ ~Holds(e, Ready("p2p"))
      /\ n = Ready("relay") => Holds(e, Ready("relay"))
  BY <1>2, <1>3, AppendHolds
<1>5. Ordered(e)
  BY <1>1, <1>2, <1>3, AppendOrdered
<1>6. n = Start => Undecided(e)
  BY <1>2, <1>3, AppendAt DEF Undecided
<1>7. /\ Preceded(e, Transport("recovering"), {Ready("p2p")})
      /\ Preceded(e, Binary, ToTransport)
  BY <1>4 DEF Preceded, Holds
<1> HIDE DEF e
<1>8. Told(p, e)
  BY <1>1, <1>4, <1>7 DEF Told, Stage0
<1>9. Telling(p, v, e)
  BY <1>1, <1>4 DEF Telling, Rests
<1>10. Agreed(x, p, v, e)
  <2>1. CASE n = Start /\ x.state = "SELECTING_TRANSPORT"
    BY <1>1, <1>4, <1>6, <2>1 DEF Agreed, OnP2P, OnTheRelay, Stage0
  <2>2. CASE n = Ready("relay") /\ OnTheRelay(x)
    BY <1>1, <1>4, <2>2 DEF Agreed, OnP2P, OnTheRelay, ToTransport
  <2> QED
    BY <2>1, <2>2
<1>11. ~Early(x, TRUE, p, v)
  BY DEF Early
<1> QED
  BY <1>1, <1>5, <1>8, <1>9, <1>10, <1>11 DEF Link, Rests, e

-----------------------------------------------------------------------------
(* No step of the server undoes the agreement.                             *)

LinkNow(s) ==
  peer'.session = s /\ ~peer'.closed =>
    Link(lease'[s], DeviceBound(s)', peer', up'[s]["device"], down'[s]["device"])

LEMMA LinkPrimed ==
  ASSUME NEW s
  PROVE  LinkOf(s)' <=> LinkNow(s)
  BY DEF LinkOf, LinkNow, Link, PhoneShape, Ordered, Once, Told, Telling, Early,
     Stage0, OnlyEof, HasHello, Agreed, Holds, HasReady, HasState, Preceded,
     Undecided, OnP2P, OnTheRelay, ToTransport, Roles

LEMMA TakesAt ==
  ASSUME ChannelsOK, NEW s \in Sessions, NEW r \in Roles, Takes(s, r)
  PROVE  LET u == up[s]["device"]
             v == up'[s]["device"]
         IN /\ u \in Seq(Frames)
            /\ r = "device" => u # <<>> /\ v = Tail(u) /\ Message(s, r) = Head(u)
            /\ r # "device" => v = u
<1>1. "device" \in Roles /\ up \in Channels /\ up[s]["device"] \in Seq(Frames)
  BY ChannelTyped DEF ChannelsOK, Roles
<1>2. up' = [up EXCEPT ![s][r] = Tail(up[s][r])] /\ up[s][r] # <<>>
  BY DEF Takes, Taken, Incoming
<1>3. PICK q : q = Tail(up[s][r])
  OBVIOUS
<1>4. [up EXCEPT ![s][r] = q][s]["device"] =
        IF s = s /\ "device" = r THEN q ELSE up[s]["device"]
  BY <1>1, SetAt
<1>5. up'[s]["device"] = IF "device" = r THEN q ELSE up[s]["device"]
  BY <1>2, <1>3, <1>4
<1> QED
  BY <1>1, <1>2, <1>3, <1>5 DEF Message

LEMMA SentToPhone ==
  ASSUME ChannelsOK, NEW s \in Sessions, NEW to, NEW n, down' = Sent(s, to, n)
  PROVE  LET d == down[s]["device"]
         IN /\ d \in Seq(Frames)
            /\ down'[s]["device"] =
                 IF "device" \in to /\ s \notin halfOpen THEN Append(d, n) ELSE d
<1>1. "device" \in Roles /\ down \in Channels /\ down[s]["device"] \in Seq(Frames)
  BY ChannelTyped DEF ChannelsOK, Roles
<1>2. Sent(s, to, n)[s]["device"] =
        IF "device" \in to /\ ~("device" = "device" /\ s \in halfOpen)
          THEN Append(down[s]["device"], n) ELSE down[s]["device"]
  BY <1>1, SentAt
<1> QED
  BY <1>1, <1>2

\* What the server finds of the session the phone is in.
LEMMA PhoneFacts ==
  ASSUME ServerInv, NEW s \in Sessions, Shape(s), SocketOf(s), LinkOf(s),
         peer.session = s, ~peer.closed
  PROVE  LET l == lease[s]
             b == DeviceBound(s)
             u == up[s]["device"]
             d == down[s]["device"]
         IN /\ u \in Seq(Frames) /\ d \in Seq(Frames)
            /\ Link(l, b, peer, u, d) /\ b \in BOOLEAN
            /\ HasHello(u) => peer.version # 0
            /\ b /\ l.bound = Roles => Paired(l, peer, u)
            /\ b => l.executing /\ peer.version # 0 /\ ~HasHello(u)
            /\ l.executing /\ l.bound = Roles /\ s \notin halfOpen => b
<1>1. "device" \in Roles /\ up \in Channels /\ down \in Channels
  BY DEF ServerInv, ChannelsOK, Roles
<1>2. up[s]["device"] \in Seq(Frames) /\ down[s]["device"] \in Seq(Frames)
  BY <1>1, ChannelTyped
<1>3. Link(lease[s], DeviceBound(s), peer, up[s]["device"], down[s]["device"])
  BY DEF LinkOf
<1>4. ~Holds(up[s]["device"], Eof)
  BY DEF SocketOf
<1>5. HasHello(up[s]["device"]) => peer.version # 0
  BY <1>4 DEF SocketOf, HasHello, Holds, Ended, Served
<1>6. DeviceBound(s) => peer.version # 0 /\ lease[s].executing /\ "device" \in lease[s].bound
  BY <1>4 DEF SocketOf, Served, DeviceBound
<1>7. HasHello(up[s]["device"]) => ~DeviceBound(s)
  BY <1>3 DEF Link
<1>8. DeviceBound(s) \in BOOLEAN
  BY DEF DeviceBound, ServerInv, ServerOK, Lease
<1>9. lease[s].executing /\ lease[s].bound = Roles /\ s \notin halfOpen => DeviceBound(s)
  BY <1>1 DEF DeviceBound
<1> QED
  BY <1>2, <1>3, <1>5, <1>6, <1>7, <1>8, <1>9 DEF Paired

\* A step of the server for the lease of the session the phone is in.
Finds(s) ==
  /\ ServerInv /\ Shape(s) /\ SocketOf(s) /\ LinkOf(s)
  /\ peer.session = s /\ ~peer.closed /\ peer' = peer /\ HalfOpenMove(s)

\* What it takes from, and leaves of, what the phone has sent.
LEMMA TakenFrame ==
  ASSUME NEW s \in Sessions, Finds(s)
  PROVE  LET u == up[s]["device"]
             v == up'[s]["device"]
         IN /\ up' = up => v = u /\ Rests(v, u)
            /\ \A r \in Roles : Takes(s, r) =>
                 /\ Rests(v, u) /\ u \in Seq(Frames)
                 /\ r # "device" => v = u
                 /\ r = "device" =>
                      /\ u # <<>> /\ v = Tail(u) /\ Message(s, r) = Head(u)
                      /\ \A x : Head(u).type = "state" /\ Head(u).state = x
                                  => HasState(u, x)
                      /\ Head(u).type = "hello" => HasHello(u) /\ ~HasHello(v)
                      /\ Head(u) \in Frames
                 /\ (r = "device" => ~(/\ Message(s, r).type = "state"
                                       /\ Message(s, r).state = "failed"))
                      => (HasState(u, "failed") => HasState(v, "failed"))
<1> DEFINE u == up[s]["device"]
           v == up'[s]["device"]
<1>1. u \in Seq(Frames) /\ Once(u) /\ ChannelsOK
  BY PhoneFacts DEF Finds, Link, ServerInv
<1>2. up' = up => v = u
  OBVIOUS
<1>3. ASSUME NEW r \in Roles, Takes(s, r)
      PROVE  /\ r = "device" => u # <<>> /\ v = Tail(u) /\ Message(s, r) = Head(u)
             /\ r # "device" => v = u
  BY <1>1, <1>3, TakesAt
<1> HIDE DEF u, v
<1>4. v = u \/ (u # <<>> /\ v = Tail(u)) => Rests(v, u)
  BY <1>1, RestsOf
<1>5. ASSUME NEW r \in Roles, Takes(s, r)
      PROVE  /\ Rests(v, u)
             /\ r = "device" =>
                  /\ \A x : Head(u).type = "state" /\ Head(u).state = x
                              => HasState(u, x)
                  /\ Head(u).type = "hello" => HasHello(u) /\ ~HasHello(v)
                  /\ Head(u) \in Frames
             /\ (r = "device" => ~(/\ Message(s, r).type = "state"
                                   /\ Message(s, r).state = "failed"))
                  => (HasState(u, "failed") => HasState(v, "failed"))
  <2>1. CASE r # "device"
    BY <1>3, <1>4, <1>5, <2>1
  <2>2. CASE r = "device"
    <3>1. u # <<>> /\ v = Tail(u) /\ Message(s, r) = Head(u)
      BY <1>3, <1>5, <2>2
    <3>2. Rests(v, u)
      BY <1>4, <3>1
    <3>3. 1 \in DOMAIN u /\ Head(u) = u[1] /\ Head(u) \in Frames
      BY <1>1, <3>1, TailAt
    <3>4. \A x : Head(u).type = "state" /\ Head(u).state = x => HasState(u, x)
      BY <3>3 DEF HasState
    <3>5. Head(u).type = "hello" => HasHello(u) /\ ~HasHello(v)
      BY <1>1, <3>1, <3>3, TailOnce DEF HasHello
    <3>6. \/ Message(s, r).type = "state" /\ Message(s, r).state = "failed"
          \/ HasState(u, "failed") => HasState(v, "failed")
      BY <1>1, <3>1, TailKinds
    <3> QED
      BY <2>2, <3>2, <3>3, <3>4, <3>5, <3>6
  <2> QED
    BY <2>1, <2>2
<1> QED
  BY <1>1, <1>2, <1>3, <1>4, <1>5 DEF u, v

LEMMA SameBinding ==
  ASSUME NEW s \in Sessions, Finds(s)
  PROVE  /\ lease'[s].executing = lease[s].executing /\ SameBound(s)
              => (DeviceBound(s)' <=> DeviceBound(s))
         /\ ~lease'[s].executing => ~DeviceBound(s)'
         /\ DeviceBound(s)' => s \notin halfOpen
  BY DEF Finds, HalfOpenMove, SameBound, DeviceBound

\* finish
LEMMA ClosesLink ==
  ASSUME NEW s \in Sessions, Finds(s), Closes(s)
  PROVE  LinkNow(s)
<1> DEFINE u == up[s]["device"]
           v == up'[s]["device"]
           d == down[s]["device"]
           e == down'[s]["device"]
           b == DeviceBound(s)
<1>1. d \in Seq(Frames) /\ Link(lease[s], b, peer, u, d) /\ (b => peer.version # 0)
  BY PhoneFacts DEF Finds
<1>2. Rests(v, u)
  BY TakenFrame DEF Closes
<1>3. ~lease'[s].executing /\ ~DeviceBound(s)'
  BY SameBinding DEF Closes, Ends
<1>4. e = d \/ (e = Append(d, Closed) /\ b /\ peer.version # 0)
  <2>1. e = IF "device" \in lease[s].bound /\ s \notin halfOpen
              THEN Append(d, Closed) ELSE d
    BY SentToPhone DEF Closes, Ends, Finds, ServerInv
  <2>2. "device" \in lease[s].bound /\ s \notin halfOpen => b
    BY DEF Closes, Ends, DeviceBound
  <2> QED
    BY <1>1, <2>1, <2>2
<1>5. Link(lease'[s], FALSE, peer, v, e)
  <2> HIDE DEF u, v, d, e, b
  <2> QED
    BY <1>1, <1>2, <1>3, <1>4, EndedLink
<1>6. DeviceBound(s)' = FALSE
  BY <1>3 DEF DeviceBound
<1> QED
  BY <1>5, <1>6 DEF LinkNow, Finds

\* Where the choice stays, up to what is sent.
LEMMA UnmovedLink ==
  ASSUME NEW s \in Sessions, Finds(s), SameChoice(s),
         LET u == up[s]["device"]
             v == up'[s]["device"]
         IN /\ Rests(v, u)
            /\ "device" \in lease'[s].ready =>
                 "device" \in lease[s].ready \/ HasState(u, "ready")
            /\ DeviceBound(s)
                 /\ (lease[s].state = "SELECTING_TRANSPORT" \/ OnP2P(lease[s]))
                 /\ HasState(u, "failed") => HasState(v, "failed")
  PROVE  /\ Link(lease'[s], DeviceBound(s), peer, up'[s]["device"], down[s]["device"])
         /\ DeviceBound(s)' = DeviceBound(s)
<1> DEFINE u == up[s]["device"]
           v == up'[s]["device"]
           d == down[s]["device"]
           b == DeviceBound(s)
<1>1. Link(lease[s], b, peer, u, d) /\ b \in BOOLEAN
  BY PhoneFacts DEF Finds
<1>2. DeviceBound(s)' <=> b
  BY SameBinding DEF SameChoice, SameBound
<1>3. DeviceBound(s)' = b
  BY <1>1, <1>2 DEF DeviceBound
<1>4. Link(lease'[s], b, peer, v, d)
  <2> HIDE DEF u, v, d, b
  <2> QED
    BY <1>1, KeptChoiceLink DEF SameChoice, u, v, b
<1> QED
  BY <1>3, <1>4

LEMMA IdlesLink ==
  ASSUME NEW s \in Sessions, Finds(s), Idles(s) \/ \E r \in Roles : Skips(s, r)
  PROVE  LinkNow(s)
<1>1. SameChoice(s) /\ SameReady(s) /\ down' = down
  BY DEF Idles, Skips, Unmoved
<1>2. Rests(up'[s]["device"], up[s]["device"])
  BY TakenFrame DEF Idles, Skips
<1>3. ASSUME NEW r \in Roles, Skips(s, r), DeviceBound(s),
             lease[s].state = "SELECTING_TRANSPORT" \/ OnP2P(lease[s]),
             HasState(up[s]["device"], "failed")
      PROVE  HasState(up'[s]["device"], "failed")
  <2>1. r = "device" => Listening(s, r)
    BY <1>3 DEF Listening, DeviceBound, Reached
  <2>2. r = "device" => Message(s, r).type = "state" /\ Message(s, r).state = "ready"
    BY <1>3, <2>1 DEF Skips, OnP2P, OnRelayNow
  <2> QED
    BY <1>3, <2>2, TakenFrame DEF Skips
<1>4. Idles(s) => up' = up
  BY DEF Idles
<1>5. /\ Link(lease'[s], DeviceBound(s), peer, up'[s]["device"], down[s]["device"])
      /\ DeviceBound(s)' = DeviceBound(s)
  BY <1>1, <1>2, <1>3, <1>4, UnmovedLink DEF SameReady
<1> QED
  BY <1>1, <1>5 DEF LinkNow, Finds

LEMMA HearsReadyLink ==
  ASSUME NEW s \in Sessions, NEW r \in Roles, Finds(s), HearsReady(s, r)
  PROVE  LinkNow(s)
<1>1. SameChoice(s) /\ down' = down /\ Takes(s, r)
      /\ Message(s, r).type = "state" /\ Message(s, r).state = "ready"
      /\ lease'[s].ready = lease[s].ready \cup {r}
  BY DEF HearsReady
<1>2. /\ Rests(up'[s]["device"], up[s]["device"])
      /\ r = "device" => HasState(up[s]["device"], "ready")
      /\ HasState(up[s]["device"], "failed") => HasState(up'[s]["device"], "failed")
  BY <1>1, TakenFrame
<1>3. /\ Link(lease'[s], DeviceBound(s), peer, up'[s]["device"], down[s]["device"])
      /\ DeviceBound(s)' = DeviceBound(s)
  BY <1>1, <1>2, UnmovedLink
<1> QED
  BY <1>1, <1>3 DEF LinkNow, Finds

\* A signal or a control goes on.
LEMMA ForwardsLink ==
  ASSUME NEW s \in Sessions, NEW r \in Roles, Finds(s),
         Forwards(s, r) \/ Relays(s, r)
  PROVE  LinkNow(s)
<1> DEFINE v == up'[s]["device"]
           d == down[s]["device"]
           e == down'[s]["device"]
           b == DeviceBound(s)
           l == lease'[s]
           n == IF Forwards(s, r) THEN Message(s, r) ELSE Binary
<1>1. /\ SameChoice(s) /\ SameReady(s) /\ Takes(s, r) /\ down' = Sent(s, {Other(r)}, n)
      /\ Message(s, r).type \in {"signal", "binary"}
      /\ Forwards(s, r) => n.type = "signal" /\ lease[s].state = "SELECTING_TRANSPORT"
      /\ ~Forwards(s, r) => n = Binary /\ OnRelayNow(s)
  BY DEF Forwards, Relays
<1>2. n \in Frames
  BY <1>1, FrameTaken, FramesBuilt DEF Takes, Finds, ServerInv
<1>3. /\ Rests(v, up[s]["device"])
      /\ HasState(up[s]["device"], "failed") => HasState(v, "failed")
  BY <1>1, TakenFrame
<1>4. Link(l, b, peer, v, d) /\ DeviceBound(s)' = b
  BY <1>1, <1>3, UnmovedLink DEF SameReady
<1>5. /\ d \in Seq(Frames) /\ lease[s].bound = Roles /\ lease[s].executing
      /\ s \notin halfOpen => b /\ Paired(lease[s], peer, up[s]["device"])
  <2>1. lease[s].bound = Roles /\ lease[s].executing
    BY <1>1 DEF Finds, Shape, OnRelayNow
  <2> QED
    BY <2>1, PhoneFacts DEF Finds
<1>6. e = IF "device" \in {Other(r)} /\ s \notin halfOpen THEN Append(d, n) ELSE d
  BY <1>1, SentToPhone DEF Finds, ServerInv
<1>7. s \notin halfOpen =>
        /\ b /\ ~Early(l, b, peer, v)
        /\ ~Forwards(s, r) => OnTheRelay(l)
  <2>1. l.executing /\ l.bound = Roles
    BY <1>1, <1>5 DEF SameChoice
  <2>2. s \notin halfOpen => b /\ ~Early(l, b, peer, v)
    BY <1>3, <1>5, <2>1 DEF Early, Paired, Rests
  <2>3. ~Forwards(s, r) => OnTheRelay(l)
    BY <1>1 DEF OnRelayNow, OnTheRelay, SameChoice
  <2> QED
    BY <2>2, <2>3
<1>8. Link(l, b, peer, v, e)
  <2>1. CASE e = d
    BY <1>4, <2>1
  <2>2. CASE e = Append(d, n) /\ s \notin halfOpen
    <3>1. \/ n.type = "signal" /\ ~Early(l, b, peer, v)
          \/ n = Binary /\ b /\ OnTheRelay(l) /\ ~Early(l, b, peer, v)
      BY <1>1, <1>7, <2>2
    <3> HIDE DEF l, b, v, d, e, n
    <3> QED
      BY <1>2, <1>4, <1>5, <2>2, <3>1, SentLink
  <2> QED
    BY <1>6, <2>1, <2>2
<1> QED
  BY <1>4, <1>8 DEF LinkNow, Finds

\* bindHello refuses
LEMMA RefusesLink ==
  ASSUME NEW s \in Sessions, NEW r \in Roles, Finds(s), Refuses(s, r)
  PROVE  LinkNow(s)
<1> DEFINE v == up'[s]["device"]
           d == down[s]["device"]
           e == down'[s]["device"]
           b == DeviceBound(s)
           l == lease'[s]
<1>1. /\ lease' = lease /\ Takes(s, r) /\ Message(s, r).type = "hello"
      /\ down' = [down EXCEPT ![s][r] = Append(down[s][r], Eof)]
  BY DEF Refuses
<1>2. /\ Rests(v, up[s]["device"])
      /\ HasState(up[s]["device"], "failed") => HasState(v, "failed")
  BY <1>1, TakenFrame
<1>3. Link(l, b, peer, v, d) /\ DeviceBound(s)' = b
  BY <1>1, <1>2, UnmovedLink DEF SameChoice
<1>4. e = d \/ e = Append(d, Eof)
  <2>1. "device" \in Roles /\ down \in Channels
    BY DEF Finds, ServerInv, ChannelsOK, Roles
  <2>2. PICK q : q = Append(down[s][r], Eof)
    OBVIOUS
  <2>3. [down EXCEPT ![s][r] = q][s]["device"] =
          IF s = s /\ "device" = r THEN q ELSE down[s]["device"]
    BY <2>1, SetAt
  <2> QED
    BY <1>1, <2>2, <2>3
<1>5. Link(l, b, peer, v, e)
  <2>1. d \in Seq(Frames) /\ Eof \in Frames
    BY PhoneFacts, FramesBuilt DEF Finds
  <2> HIDE DEF l, b, v, d, e
  <2> QED
    BY <1>3, <1>4, <2>1, SentLink
<1> QED
  BY <1>3, <1>5 DEF LinkNow, Finds

\* A choice for a lease with both peers: the phone is told of it, or its socket
\* is dead.
Chosen(s, n) ==
  /\ lease[s].executing /\ lease'[s].executing /\ lease[s].bound = Roles
  /\ SameBound(s) /\ down' = Sent(s, Roles, n)
  /\ Rests(up'[s]["device"], up[s]["device"])

LEMMA DeadLink ==
  ASSUME NEW s \in Sessions, Finds(s), lease[s].executing, ~DeviceBound(s),
         ~DeviceBound(s)', Rests(up'[s]["device"], up[s]["device"]),
         down'[s]["device"] = down[s]["device"]
  PROVE  LinkNow(s)
<1>1. /\ Link(lease[s], FALSE, peer, up[s]["device"], down[s]["device"])
      /\ DeviceBound(s)' = FALSE
  BY PhoneFacts DEF Finds, DeviceBound
<1>2. Link(lease'[s], FALSE, peer, up'[s]["device"], down[s]["device"])
  BY <1>1, UnboundLink
<1> QED
  BY <1>1, <1>2 DEF LinkNow, Finds

LEMMA ChoiceLink ==
  ASSUME NEW s \in Sessions, Finds(s), NEW n, Chosen(s, n),
         /\ DeviceBound(s) /\ s \notin halfOpen
         /\ Link(lease[s], TRUE, peer, up[s]["device"], down[s]["device"])
         /\ Paired(lease[s], peer, up[s]["device"])
         /\ down[s]["device"] \in Seq(Frames)
         => Link(lease'[s], TRUE, peer, up'[s]["device"], Append(down[s]["device"], n))
  PROVE  LinkNow(s)
<1>1. /\ DeviceBound(s)' <=> DeviceBound(s)
      /\ DeviceBound(s) <=> s \notin halfOpen
  BY SameBinding DEF Chosen, DeviceBound, Roles
<1>2. down'[s]["device"] = IF "device" \in Roles /\ s \notin halfOpen
                             THEN Append(down[s]["device"], n)
                             ELSE down[s]["device"]
  BY SentToPhone DEF Chosen, Finds, ServerInv
<1>3. CASE s \in halfOpen
  BY <1>1, <1>2, <1>3, DeadLink DEF Chosen
<1>4. CASE s \notin halfOpen
  <2>1. /\ Link(lease[s], DeviceBound(s), peer, up[s]["device"], down[s]["device"])
        /\ Paired(lease[s], peer, up[s]["device"])
        /\ down[s]["device"] \in Seq(Frames)
    BY <1>1, <1>4, PhoneFacts DEF Chosen, Finds
  <2>2. DeviceBound(s) = TRUE /\ DeviceBound(s)' = TRUE
    BY <1>1, <1>4 DEF DeviceBound
  <2>3. Link(lease'[s], TRUE, peer, up'[s]["device"], Append(down[s]["device"], n))
    BY <1>4, <2>1, <2>2
  <2>4. down'[s]["device"] = Append(down[s]["device"], n)
    BY <1>2, <1>4 DEF Roles
  <2> QED
    BY <2>2, <2>3, <2>4 DEF LinkNow, Finds
<1> QED
  BY <1>3, <1>4

LEMMA FallsBackLink ==
  ASSUME NEW s \in Sessions, Finds(s), peer \in Peer, FallsBack(s)
  PROVE  LinkNow(s)
<1>1. /\ lease[s].state = "SELECTING_TRANSPORT" /\ lease[s].bound = Roles
      /\ lease[s].executing /\ SameBound(s) /\ lease'[s].executing
      /\ lease'[s].state = "ACTIVE" /\ lease'[s].selected = "relay"
      /\ lease'[s].ready = {}
  BY DEF Finds, Shape, FallsBack, Becomes
<1>2. Chosen(s, Ready("relay"))
  BY <1>1, TakenFrame DEF FallsBack, Chosen
<1> QED
  BY <1>1, <1>2, ChoiceLink, SelectedLink DEF Chosen, SameBound

LEMMA ChoosesP2PLink ==
  ASSUME NEW s \in Sessions, NEW r \in Roles, Finds(s), peer \in Peer,
         ChoosesP2P(s, r)
  PROVE  LinkNow(s)
<1>1. /\ lease[s].state = "SELECTING_TRANSPORT" /\ lease[s].bound = Roles
      /\ lease[s].executing /\ SameBound(s) /\ lease'[s].executing
      /\ lease'[s].state = "ACTIVE" /\ lease'[s].selected = "p2p"
      /\ "device" \in lease[s].ready \cup {r}
      /\ Message(s, r).type = "state" /\ Message(s, r).state = "ready"
  BY DEF Finds, Shape, ChoosesP2P, Becomes, Roles
<1>2. Chosen(s, Ready("p2p")) /\ Takes(s, r)
  BY <1>1, TakenFrame DEF ChoosesP2P, Chosen
<1>3. /\ HasState(up[s]["device"], "failed") => HasState(up'[s]["device"], "failed")
      /\ r = "device" => HasState(up[s]["device"], "ready")
  BY <1>1, <1>2, TakenFrame
<1>4. Link(lease[s], TRUE, peer, up[s]["device"], down[s]["device"])
        => peer.readyReported
  BY <1>1, <1>3 DEF Link, Agreed, Telling
<1>5. lease'[s].bound = Roles /\ Rests(up'[s]["device"], up[s]["device"])
  BY <1>1, <1>2 DEF Chosen, SameBound
<1>6. ASSUME Link(lease[s], TRUE, peer, up[s]["device"], down[s]["device"]),
             Paired(lease[s], peer, up[s]["device"]),
             down[s]["device"] \in Seq(Frames)
      PROVE  Link(lease'[s], TRUE, peer, up'[s]["device"],
                  Append(down[s]["device"], Ready("p2p")))
  BY <1>1, <1>3, <1>4, <1>5, <1>6, SelectedLink
<1> QED
  BY <1>2, <1>6, ChoiceLink

LEMMA BeginsRecoveryLink ==
  ASSUME NEW s \in Sessions, NEW r \in Roles, Finds(s), peer \in Peer,
         BeginsRecovery(s, r)
  PROVE  LinkNow(s)
<1>1. /\ OnP2P(lease[s]) /\ lease[s].bound = Roles
      /\ lease[s].executing /\ SameBound(s) /\ lease'[s].executing
      /\ lease'[s].state = "RECOVERING_TRANSPORT" /\ lease'[s].ready = lease[s].ready
  BY DEF Finds, Shape, BeginsRecovery, Becomes, OnP2P, SameReady
<1>2. Chosen(s, Transport("recovering"))
  BY <1>1, TakenFrame DEF BeginsRecovery, Chosen
<1>3. lease'[s].bound = Roles /\ Rests(up'[s]["device"], up[s]["device"])
  BY <1>1, <1>2 DEF Chosen, SameBound
<1> QED
  BY <1>1, <1>2, <1>3, ChoiceLink, RecoveryLink

LEMMA CommitsRecoveryLink ==
  ASSUME NEW s \in Sessions, Finds(s), peer \in Peer, CommitsRecovery(s)
  PROVE  LinkNow(s)
<1>1. /\ lease[s].state = "RECOVERING_TRANSPORT" /\ lease[s].bound = Roles
      /\ lease[s].executing /\ SameBound(s) /\ lease'[s].executing
      /\ lease'[s].state = "ACTIVE" /\ lease'[s].selected = "relay"
      /\ lease'[s].ready = lease[s].ready /\ Takes(s, "device") /\ "device" \in Roles
      /\ Message(s, "device").type = "transport.state"
  BY DEF Finds, Shape, CommitsRecovery, Becomes, SameReady, Roles
<1>2. /\ up[s]["device"] \in Seq(Frames) /\ up[s]["device"] # <<>>
      /\ Head(up[s]["device"]) = TransportReady
      /\ up'[s]["device"] = Tail(up[s]["device"])
  BY <1>1, TakenFrame, FrameIs
<1>3. Chosen(s, Transport("ready"))
  BY <1>1, TakenFrame DEF CommitsRecovery, Chosen
<1>4. lease'[s].bound = Roles
  BY <1>1 DEF SameBound
<1> QED
  BY <1>1, <1>2, <1>3, <1>4, ChoiceLink, RecoveredLink

\* Who is bound has been in the session.
LEMMA BindsFacts ==
  ASSUME NEW s \in Sessions, NEW r \in Roles, Finds(s), Binds(s, r)
  PROVE  /\ Rests(up'[s]["device"], up[s]["device"])
         /\ lease[s].bound # Roles /\ lease[s].executing
         /\ r = "device" => /\ ~DeviceBound(s) /\ peer.version # 0
                            /\ ~HasHello(up'[s]["device"])
         /\ r # "device" =>
              /\ "device" \in lease'[s].bound <=> "device" \in lease[s].bound
              /\ DeviceBound(s) => /\ peer.version # 0
                                   /\ ~HasHello(up'[s]["device"])
<1>1. /\ Takes(s, r) /\ Message(s, r).type = "hello" /\ lease[s].executing
      /\ r \notin lease[s].bound /\ lease'[s].bound = lease[s].bound \cup {r}
  BY DEF Binds
<1>2. /\ Rests(up'[s]["device"], up[s]["device"])
      /\ r = "device" => HasHello(up[s]["device"]) /\ ~HasHello(up'[s]["device"])
  BY <1>1, TakenFrame
<1>3. /\ HasHello(up[s]["device"]) => peer.version # 0 /\ ~DeviceBound(s)
      /\ DeviceBound(s) => peer.version # 0 /\ ~HasHello(up[s]["device"])
  BY PhoneFacts DEF Finds
<1>4. r # "device" /\ DeviceBound(s) => ~HasHello(up'[s]["device"])
  BY <1>2, <1>3 DEF Rests
<1> QED
  BY <1>1, <1>2, <1>3, <1>4

LEMMA WaitsLink ==
  ASSUME NEW s \in Sessions, NEW r \in Roles, Finds(s), Waits(s, r)
  PROVE  LinkNow(s)
<1> DEFINE u == up[s]["device"]
           v == up'[s]["device"]
           d == down[s]["device"]
<1>1. /\ Rests(v, u) /\ lease[s].executing
      /\ r = "device" => ~DeviceBound(s) /\ ~HasHello(v)
      /\ r # "device" =>
           ("device" \in lease'[s].bound <=> "device" \in lease[s].bound)
  BY BindsFacts DEF Waits
<1>2. /\ lease'[s].executing /\ down' = down
      /\ lease'[s].state \notin {"SELECTING_TRANSPORT", "ACTIVE"}
      /\ lease'[s].bound = lease[s].bound \cup {r} /\ lease'[s].bound # Roles
  BY <1>1 DEF Waits, Becomes, Binds
<1>3. lease'[s].ready = {}
  BY <1>1, BindsFacts DEF Waits, SameReady, Finds, Shape
<1>4. r # "device" => ~DeviceBound(s) /\ ~DeviceBound(s)'
  <2>1. lease[s].bound \subseteq Roles
    BY DEF Finds, ServerInv, ServerOK, Lease
  <2>2. r # "device" => "device" \notin lease'[s].bound
    BY <1>2, <2>1 DEF Roles
  <2> QED
    BY <1>1, <2>2 DEF DeviceBound
<1>5. CASE ~DeviceBound(s)'
  BY <1>1, <1>2, <1>4, <1>5, DeadLink
<1>6. CASE DeviceBound(s)'
  <2>1. r = "device" /\ ~DeviceBound(s)
    BY <1>1, <1>4, <1>6
  <2>2. DeviceBound(s) = FALSE /\ DeviceBound(s)' = TRUE
    BY <1>6, <2>1 DEF DeviceBound
  <2>3. Link(lease[s], FALSE, peer, u, d)
    BY <2>2, PhoneFacts DEF Finds
  <2>4. Link(lease'[s], TRUE, peer, v, d)
    <3> HIDE DEF u, v, d
    <3> QED
      BY <1>1, <1>2, <1>3, <2>1, <2>3, WaitingLink
  <2> QED
    BY <1>2, <2>2, <2>4 DEF LinkNow, Finds
<1> QED
  BY <1>5, <1>6

LEMMA PairsLink ==
  ASSUME NEW s \in Sessions, NEW r \in Roles, Finds(s),
         Negotiates(s, r) \/ Joins(s, r)
  PROVE  LinkNow(s)
<1> DEFINE u == up[s]["device"]
           v == up'[s]["device"]
           d == down[s]["device"]
           n == IF Negotiates(s, r) THEN Start ELSE Ready("relay")
<1>1. Binds(s, r) /\ lease'[s].bound = Roles /\ lease'[s].ready = {}
      /\ down' = Sent(s, Roles, n)
  BY DEF Negotiates, Joins
<1>2. /\ n \in Frames
      /\ \/ n = Start /\ lease'[s].state = "SELECTING_TRANSPORT"
         \/ n = Ready("relay") /\ OnTheRelay(lease'[s])
  BY FramesBuilt DEF Negotiates, Joins, Becomes, OnTheRelay
<1>3. /\ Rests(v, u) /\ lease[s].bound # Roles /\ lease[s].executing
      /\ r = "device" => ~DeviceBound(s) /\ peer.version # 0 /\ ~HasHello(v)
      /\ r # "device" /\ DeviceBound(s) => peer.version # 0 /\ ~HasHello(v)
      /\ r # "device" => "device" \in lease[s].bound
  BY <1>1, BindsFacts DEF Roles
<1>4. lease'[s].executing
  BY <1>3 DEF Negotiates, Joins, Becomes
<1>5. down'[s]["device"] = IF "device" \in Roles /\ s \notin halfOpen
                             THEN Append(d, n) ELSE d
  BY <1>1, SentToPhone DEF Finds, ServerInv
<1>6. CASE s \in halfOpen
  <2>1. ~DeviceBound(s) /\ ~DeviceBound(s)' /\ down'[s]["device"] = d
    BY <1>5, <1>6, SameBinding DEF DeviceBound
  <2> QED
    BY <1>3, <2>1, DeadLink
<1>7. CASE s \notin halfOpen
  <2>1. DeviceBound(s)' = TRUE /\ down'[s]["device"] = Append(d, n)
    BY <1>1, <1>4, <1>5, <1>7 DEF DeviceBound, Finds, HalfOpenMove, Roles
  <2>2. r # "device" => DeviceBound(s)
    BY <1>3, <1>7 DEF DeviceBound
  <2>3. d \in Seq(Frames) /\ Link(lease[s], DeviceBound(s), peer, u, d)
    BY PhoneFacts DEF Finds
  <2>4. Early(lease[s], DeviceBound(s), peer, u)
    BY <1>3 DEF Early
  <2>5. Link(lease'[s], TRUE, peer, v, Append(d, n))
    <3> HIDE DEF u, v, d, n
    <3>1. peer.version # 0 /\ ~HasHello(v)
      BY <1>3, <2>2
    <3> QED
      BY <1>1, <1>2, <1>3, <1>4, <2>3, <2>4, <3>1, PairedLink
  <2> QED
    BY <2>1, <2>5 DEF LinkNow, Finds
<1> QED
  BY <1>6, <1>7

\* A lease not yet asked for is not the phone's.
LEMMA ServerLink ==
  ASSUME NEW s \in Sessions, Finds(s), RelayOf(s), peer \in Peer, ServerMove(s)
  PROVE  LinkNow(s)
<1>1. ~Creates(s)
  BY DEF Creates, RelayOf, Untouched, Finds
<1>2. CASE Closes(s) \/ Idles(s) \/ FallsBack(s) \/ CommitsRecovery(s)
  BY <1>2, ClosesLink, IdlesLink, FallsBackLink, CommitsRecoveryLink
<1>3. ASSUME NEW r \in Roles,
             \/ Skips(s, r) \/ Refuses(s, r) \/ Forwards(s, r) \/ Relays(s, r)
             \/ HearsReady(s, r) \/ ChoosesP2P(s, r) \/ BeginsRecovery(s, r)
             \/ Waits(s, r) \/ Negotiates(s, r) \/ Joins(s, r)
      PROVE  LinkNow(s)
  BY <1>3, IdlesLink, RefusesLink, ForwardsLink, HearsReadyLink, ChoosesP2PLink,
     BeginsRecoveryLink, WaitsLink, PairsLink
<1> QED
  BY <1>1, <1>2, <1>3 DEF ServerMove

-----------------------------------------------------------------------------
(* Who uses P2P, and how a socket ends.                                    *)

AfterP2P == {"ACTIVE", "RECOVERING_TRANSPORT", "ENDED"}
UsesNow(s) ==
  \/ browser'[s].selected = "p2p" \/ Holds(down'[s]["controller"], Ready("p2p"))
  \/ peer'.session = s /\ (pipe' > 0 \/ peer'.controls["p2p"] > 0)
P2PNow(s) ==
  UsesNow(s) =>
    /\ lease'[s].state \in AfterP2P
    /\ peer'.session = s /\ ~peer'.closed => ~Holds(down'[s]["device"], Ready("relay"))
OverNow(s) ==
  LET u == up'[s]["device"] IN
  ~(peer'.session = s /\ peer'.version # 0) /\ u # <<>> => u[Len(u)] = Eof

LEMMA RestPrimed ==
  ASSUME NEW s
  PROVE  (P2POf(s)' <=> P2PNow(s)) /\ (Over(s)' <=> OverNow(s))
  BY DEF P2POf, P2PNow, UsesP2P, UsesNow, AfterP2P, Holds, Over, OverNow, Served

\* Only one move chooses P2P, and only two begin with the relay.
LEMMA SendsChoice ==
  ASSUME ServerInv, NEW s \in Sessions, ServerMove(s), NEW w \in Roles
  PROVE  /\ Holds(down'[s][w], Ready("p2p")) =>
              Holds(down[s][w], Ready("p2p")) \/ \E r \in Roles : ChoosesP2P(s, r)
         /\ Holds(down'[s][w], Ready("relay")) =>
              \/ Holds(down[s][w], Ready("relay"))
              \/ FallsBack(s) \/ \E r \in Roles : Joins(s, r)
<1>0. ChannelsOK
  BY DEF ServerInv
<1>1. \A t : Ready(t).type = "ready" /\ Ready(t) # Eof
  BY FrameTypes
<1>2. /\ Ready("p2p") # Ready("relay")
      /\ \A t \in {"p2p", "relay"} : Ready(t) \in Frames
  BY FrameTypes, FramesBuilt
<1>3. ASSUME NEW to, NEW n \in Frames, down' = Sent(s, to, n), NEW t,
             n # Ready(t), Holds(down'[s][w], Ready(t))
      PROVE  Holds(down[s][w], Ready(t))
  BY <1>0, <1>3, SentHolds
<1>4. ASSUME down' = down \/ (\E r \in Roles : Refuses(s, r))
               \/ (\E to : \E n \in Frames : n.type # "ready" /\ down' = Sent(s, to, n)),
             NEW t, Holds(down'[s][w], Ready(t))
      PROVE  Holds(down[s][w], Ready(t))
  BY <1>0, <1>1, <1>4, <1>3, RefusedHolds
<1>5. /\ {Closed, Start, Transport("recovering"), Transport("ready"), Binary}
           \subseteq Frames
      /\ \A n \in {Closed, Start, Transport("recovering"), Transport("ready"), Binary} :
           n.type # "ready"
  BY FramesBuilt, FrameTypes
<1>6. CASE Closes(s) \/ Idles(s) \/ CommitsRecovery(s) \/ Creates(s)
  BY <1>4, <1>5, <1>6 DEF Closes, Ends, Idles, Unmoved, CommitsRecovery, Creates
<1>7. CASE FallsBack(s)
  <2>1. \E to : down' = Sent(s, to, Ready("relay"))
    BY <1>7 DEF FallsBack
  <2> QED
    BY <1>2, <1>3, <1>7, <2>1
<1>8. ASSUME NEW r \in Roles,
             \/ Skips(s, r) \/ Refuses(s, r) \/ Forwards(s, r) \/ Relays(s, r)
             \/ HearsReady(s, r) \/ BeginsRecovery(s, r)
             \/ Waits(s, r) \/ Negotiates(s, r)
      PROVE  /\ Holds(down'[s][w], Ready("p2p")) => Holds(down[s][w], Ready("p2p"))
             /\ Holds(down'[s][w], Ready("relay")) => Holds(down[s][w], Ready("relay"))
  <2>1. Forwards(s, r) => Message(s, r) \in Frames /\ Message(s, r).type = "signal"
    BY FrameTaken DEF Forwards, Takes, ServerInv
  <2>2. CASE Forwards(s, r)
    BY <1>4, <2>1, <2>2 DEF Forwards
  <2>3. CASE Skips(s, r) \/ Refuses(s, r) \/ HearsReady(s, r) \/ Waits(s, r)
    BY <1>4, <2>3 DEF Skips, Unmoved, HearsReady, Waits
  <2>4. CASE Relays(s, r) \/ BeginsRecovery(s, r) \/ Negotiates(s, r)
    BY <1>4, <1>5, <2>4 DEF Relays, BeginsRecovery, Negotiates
  <2> QED
    BY <1>8, <2>2, <2>3, <2>4
<1>9. ASSUME NEW r \in Roles, ChoosesP2P(s, r) \/ Joins(s, r)
      PROVE  /\ ChoosesP2P(s, r) =>
                  (Holds(down'[s][w], Ready("relay")) => Holds(down[s][w], Ready("relay")))
             /\ Joins(s, r) =>
                  (Holds(down'[s][w], Ready("p2p")) => Holds(down[s][w], Ready("p2p")))
  BY <1>2, <1>3, <1>9 DEF ChoosesP2P, Joins
<1> QED
  BY <1>6, <1>7, <1>8, <1>9 DEF ServerMove

\* The server, once P2P was chosen, stays where the phone may have used it.
LEMMA ServerAfterP2P ==
  ASSUME NEW s \in Sessions, ServerMove(s), Shape(s), lease[s].state \in AfterP2P
  PROVE  /\ lease'[s].state \in AfterP2P
         /\ ~FallsBack(s) /\ \A r \in Roles : ~Joins(s, r) /\ ~ChoosesP2P(s, r)
<1>1. ~FallsBack(s) /\ ~Creates(s)
  BY DEF FallsBack, Creates, Shape, AfterP2P
<1>2. \A r \in Roles :
        ~ChoosesP2P(s, r) /\ ~Waits(s, r) /\ ~Negotiates(s, r) /\ ~Joins(s, r)
  <2>1. ASSUME NEW r \in Roles, Binds(s, r) PROVE FALSE
    BY <2>1 DEF Binds, Shape, AfterP2P
  <2> QED
    BY <2>1 DEF ChoosesP2P, Waits, Negotiates, Joins, AfterP2P
<1>3. ASSUME Closes(s) \/ Idles(s) \/ CommitsRecovery(s)
      PROVE  lease'[s].state \in AfterP2P
  <2>1. Closes(s) \/ CommitsRecovery(s) => lease'[s].state \in {"ENDED", "ACTIVE"}
    BY DEF Closes, Ends, CommitsRecovery, Becomes
  <2>2. Idles(s) => lease'[s].state = lease[s].state
    BY DEF Idles, Unmoved, SameChoice
  <2> QED
    BY <1>3, <2>1, <2>2 DEF AfterP2P
<1>4. ASSUME NEW r \in Roles,
             \/ Skips(s, r) \/ Refuses(s, r) \/ Forwards(s, r) \/ Relays(s, r)
             \/ HearsReady(s, r) \/ BeginsRecovery(s, r)
      PROVE  lease'[s].state \in AfterP2P
  BY <1>4
  DEF Skips, Unmoved, SameChoice, Refuses, Forwards, Relays, HearsReady,
      BeginsRecovery, Becomes, AfterP2P
<1> QED
  BY <1>1, <1>2, <1>3, <1>4 DEF ServerMove

LEMMA ServerP2P ==
  ASSUME ServerInv, NEW s \in Sessions, ServerMove(s), Shape(s),
         UNCHANGED <<peer, browser, pipe>>, P2POf(s),
         SocketOf(s), LinkOf(s)
  PROVE  P2PNow(s)
<1>1. SUFFICES ASSUME UsesNow(s)
               PROVE  /\ lease'[s].state \in AfterP2P
                      /\ peer.session = s /\ ~peer.closed =>
                           ~Holds(down'[s]["device"], Ready("relay"))
  BY DEF P2PNow
<1>2. "controller" \in Roles /\ "device" \in Roles
  BY DEF Roles
<1>3. CASE UsesP2P(s)
  <2>1. lease[s].state \in AfterP2P
    BY <1>3 DEF P2POf, AfterP2P
  <2>2. /\ lease'[s].state \in AfterP2P
        /\ ~FallsBack(s) /\ \A r \in Roles : ~Joins(s, r)
    BY <2>1, ServerAfterP2P
  <2>3. peer.session = s /\ ~peer.closed => ~Holds(down[s]["device"], Ready("relay"))
    BY <1>3 DEF P2POf
  <2>4. Holds(down'[s]["device"], Ready("relay"))
          => Holds(down[s]["device"], Ready("relay"))
    BY <1>2, <2>2, SendsChoice
  <2> QED
    BY <2>2, <2>3, <2>4
<1>4. CASE ~UsesP2P(s)
  <2>1. /\ Holds(down'[s]["controller"], Ready("p2p"))
        /\ ~Holds(down[s]["controller"], Ready("p2p"))
    BY <1>1, <1>4 DEF UsesNow, UsesP2P
  <2>2. PICK r \in Roles : ChoosesP2P(s, r)
    BY <1>2, <2>1, SendsChoice
  <2>3. /\ lease[s].state = "SELECTING_TRANSPORT" /\ lease'[s].state = "ACTIVE"
        /\ lease[s].bound = Roles /\ lease[s].executing
        /\ ~FallsBack(s) /\ \A q \in Roles : ~Joins(s, q)
    <3>1. /\ lease[s].state = "SELECTING_TRANSPORT" /\ lease'[s].state = "ACTIVE"
          /\ lease'[s].selected = "p2p"
      BY <2>2 DEF ChoosesP2P, Becomes
    <3> QED
      BY <3>1 DEF Shape, FallsBack, Joins, Becomes
  <2>4. ASSUME peer.session = s, ~peer.closed
        PROVE  ~Holds(down[s]["device"], Ready("relay"))
    <3>1. Link(lease[s], DeviceBound(s), peer, up[s]["device"], down[s]["device"])
      BY <2>4 DEF LinkOf
    <3>2. CASE DeviceBound(s)
      <4>1. Undecided(down[s]["device"])
        BY <2>3, <3>1, <3>2 DEF Link, Agreed
      <4> QED
        BY <4>1, UndecidedHolds
    <3>3. CASE ~DeviceBound(s)
      <4>1. OnlyEof(down[s]["device"])
        BY <2>3, <3>1, <3>3 DEF Link, Early
      <4> QED
        BY <4>1, OnlyEofHolds
    <3> QED
      BY <3>2, <3>3
  <2>5. Holds(down'[s]["device"], Ready("relay"))
          => Holds(down[s]["device"], Ready("relay"))
    BY <1>2, <2>3, SendsChoice
  <2> QED
    BY <2>3, <2>4, <2>5 DEF AfterP2P
<1> QED
  BY <1>3, <1>4

\* Reading the first frame leaves the last one.
LEMMA TailLast ==
  ASSUME NEW q \in Seq(Frames), q # <<>>, Tail(q) # <<>>
  PROVE  Tail(q)[Len(Tail(q))] = q[Len(q)]
<1>1. /\ Len(q) \in Nat /\ Len(Tail(q)) = Len(q) - 1 /\ Tail(q) \in Seq(Frames)
      /\ DOMAIN Tail(q) = 1..(Len(q) - 1)
      /\ \A i \in DOMAIN Tail(q) : Tail(q)[i] = q[i + 1]
  BY TailAt
<1>2. Len(Tail(q)) \in Nat /\ Len(Tail(q)) # 0
  BY <1>1
<1>3. Len(q) - 1 \in DOMAIN Tail(q) /\ (Len(q) - 1) + 1 = Len(q)
  BY <1>1, <1>2
<1> QED
  BY <1>1, <1>3

LEMMA ServerOver ==
  ASSUME ServerInv, NEW s \in Sessions, ServerMove(s), peer' = peer, Over(s)
  PROVE  OverNow(s)
<1>1. up' = up \/ \E r \in Roles : Takes(s, r)
  BY DEF ServerMove, Closes, Idles, Unmoved, FallsBack, CommitsRecovery, Creates,
     Skips, Refuses, Forwards, Relays, HearsReady, ChoosesP2P, BeginsRecovery,
     Waits, Negotiates, Joins, Binds, Roles
<1>2. CASE up' = up
  BY <1>2 DEF Over, OverNow, Served
<1>3. ASSUME NEW r \in Roles, Takes(s, r) PROVE OverNow(s)
  <2> DEFINE u == up[s]["device"]
             v == up'[s]["device"]
  <2>1. u \in Seq(Frames) /\ (v = u \/ (u # <<>> /\ v = Tail(u)))
    BY <1>3, TakesAt DEF ServerInv
  <2>2. u # <<>> /\ v # <<>> => v[Len(v)] = u[Len(u)]
    <3> HIDE DEF u, v
    <3> QED
      BY <2>1, TailLast
  <2>3. v # <<>> => u # <<>>
    BY <2>1
  <2> QED
    BY <2>2, <2>3 DEF Over, OverNow, Served
<1> QED
  BY <1>1, <1>2, <1>3

-----------------------------------------------------------------------------
(* The steps of the phone.                                                 *)

\* A step within a session is one for no other, and for nobody's browser.
LEMMA CalmAlone ==
  ASSUME ChannelsOK, PhoneCalm, NEW t \in Sessions
  PROVE  /\ down'[t]["controller"] = down[t]["controller"]
         /\ \A m : Holds(down'[t]["device"], m) => Holds(down[t]["device"], m)
         /\ t # peer.session \/ Silent => up'[t]["device"] = up[t]["device"]
<1>1. /\ up \in Channels /\ down \in Channels /\ "device" \in Roles
      /\ "controller" \in Roles /\ down[t]["device"] \in Seq(Frames)
  BY ChannelTyped DEF ChannelsOK, Roles
<1>2. ASSUME down' = down
      PROVE  /\ down'[t]["controller"] = down[t]["controller"]
             /\ \A m : Holds(down'[t]["device"], m) => Holds(down[t]["device"], m)
  BY <1>2
<1>3. ASSUME peer.session \in Sessions, down[peer.session]["device"] # <<>>,
             down' = [down EXCEPT ![peer.session]["device"] =
                          Tail(down[peer.session]["device"])]
      PROVE  /\ down'[t]["controller"] = down[t]["controller"]
             /\ \A m : Holds(down'[t]["device"], m) => Holds(down[t]["device"], m)
  <2>1. PICK q : q = Tail(down[peer.session]["device"])
    OBVIOUS
  <2>2. down' = [down EXCEPT ![peer.session]["device"] = q]
    BY <1>3, <2>1
  <2>3. [down EXCEPT ![peer.session]["device"] = q][t]["controller"]
          = down[t]["controller"]
    BY <1>1 DEF Channels
  <2>4. down'[t]["controller"] = down[t]["controller"]
    BY <2>2, <2>3
  <2>5. down'[t]["device"] = IF t = peer.session THEN Tail(down[t]["device"])
                                                  ELSE down[t]["device"]
    <3>1. CASE t = peer.session
      <4>1. [down EXCEPT ![t]["device"] = q][t]["device"] = q
        BY <1>1, SetMine
      <4> QED
        BY <2>1, <2>2, <3>1, <4>1
    <3>2. CASE t # peer.session
      <4>1. [down EXCEPT ![peer.session]["device"] = q][t] = down[t]
        BY <1>1, <3>2, SetAlone
      <4> QED
        BY <2>2, <3>2, <4>1
    <3> QED
      BY <3>1, <3>2
  <2>6. \A m : Holds(down'[t]["device"], m) => Holds(down[t]["device"], m)
    <3>1. CASE t = peer.session
      <4>1. \A m : Holds(Tail(down[t]["device"]), m) => Holds(down[t]["device"], m)
        BY <1>1, <1>3, <3>1, TailHolds
      <4> QED
        BY <2>5, <3>1, <4>1
    <3>2. CASE t # peer.session
      BY <2>5, <3>2
    <3> QED
      BY <3>1, <3>2
  <2> QED
    BY <2>4, <2>6
<1>4. ASSUME t # peer.session \/ Silent PROVE up'[t]["device"] = up[t]["device"]
  <2>1. CASE Silent
    BY <2>1 DEF Silent
  <2>2. ASSUME t # peer.session, peer.session \in Sessions,
               NEW ms \in Seq(Frames), Sends(ms)
        PROVE  up'[t]["device"] = up[t]["device"]
    <3>1. PICK q : q = up[peer.session]["device"] \o ms
      OBVIOUS
    <3>2. [up EXCEPT ![peer.session]["device"] = q][t]["device"] = up[t]["device"]
      BY <1>1, <2>2, SetAt
    <3> QED
      BY <2>2, <3>1, <3>2 DEF Sends
  <2> QED
    BY <1>4, <2>1, <2>2 DEF PhoneCalm
<1> QED
  BY <1>2, <1>3, <1>4 DEF PhoneCalm, PhoneHears

LEMMA CalmGoesOn ==
  ASSUME ChannelsOK, PhoneCalm, browser' = browser, NEW t \in Sessions,
         P2POf(t), Over(t), pipe' > 0 => pipe > 0,
         peer'.controls["p2p"] > 0 => peer.controls["p2p"] > 0 \/ pipe > 0,
         peer.version = 0 => Silent
  PROVE  P2PNow(t) /\ OverNow(t)
<1>1. /\ lease' = lease /\ peer'.session = peer.session /\ peer'.version = peer.version
      /\ ~peer'.closed => ~peer.closed
  BY DEF PhoneCalm
<1>2. /\ down'[t]["controller"] = down[t]["controller"]
      /\ \A m : Holds(down'[t]["device"], m) => Holds(down[t]["device"], m)
      /\ t # peer.session \/ Silent => up'[t]["device"] = up[t]["device"]
  BY CalmAlone
<1>3. UsesNow(t) => UsesP2P(t)
  BY <1>1, <1>2 DEF UsesNow, UsesP2P
<1>4. P2PNow(t)
  BY <1>1, <1>2, <1>3 DEF P2PNow, P2POf, AfterP2P
<1>5. OverNow(t)
  <2>1. ~(peer'.session = t /\ peer'.version # 0) =>
          ~Served(t) /\ up'[t]["device"] = up[t]["device"]
    BY <1>1, <1>2 DEF Served
  <2> QED
    BY <2>1 DEF OverNow, Over
<1> QED
  BY <1>4, <1>5

\* Where a step within the session leads.
Leads ==
  /\ PhoneCalm /\ (pipe' > 0 => pipe > 0)
  /\ peer'.controls["p2p"] > 0 => peer.controls["p2p"] > 0 \/ pipe > 0
  /\ peer.version = 0 => Silent
  /\ peer'.code = peer.code \/ peer'.code \in Benign
  /\ \A t \in Sessions : LinkNow(t)

LEMMA NothingLeads ==
  ASSUME PhoneCalm, LinkOK, UNCHANGED <<peer, up, down, pipe>>
  PROVE  Leads
<1>1. ASSUME NEW t \in Sessions PROVE LinkNow(t)
  <2>1. LinkOf(t) /\ DeviceBound(t)' = DeviceBound(t)
    BY DEF LinkOK, PhoneCalm, DeviceBound
  <2> QED
    BY <2>1 DEF LinkNow, LinkOf, PhoneCalm
<1> QED
  BY <1>1 DEF Leads, Silent

LEMMA EndLeads ==
  ASSUME PhoneCalm, pipe' > 0 => pipe > 0, ClosesWith(Benign)
  PROVE  Leads
<1>1. /\ peer'.closed /\ peer'.code \in Benign /\ peer'.controls["p2p"] = 0 /\ Silent
  BY DEF ClosesWith, NoControls, Carriers, Silent
<1> QED
  BY <1>1 DEF Leads, LinkNow

\* The phone's own session, as LinkOK has it.
LEMMA OwnLink ==
  ASSUME PhoneInv, LinkOK, Running
  PROVE  /\ peer.session \in Sessions /\ peer \in Peer /\ ~peer.closed
         /\ InLink(lease[peer.session], DeviceBound(peer.session))
         /\ peer.version = 0 => Stage0(peer)
<1>1. peer.session \in Sessions /\ peer \in Peer /\ ~peer.closed
  BY CallbackFinds DEF Running
<1>2. Link(lease[peer.session], DeviceBound(peer.session), peer, Mine(up), Mine(down))
  BY <1>1 DEF LinkOK, LinkOf, Mine
<1>3. peer.controls["p2p"] > 0 => ~Holds(Mine(down), Ready("relay"))
  BY <1>1 DEF LinkOK, P2POf, UsesP2P, Mine
<1>4. peer.version = 0 => Stage0(peer)
  BY <1>2 DEF Link, Early
<1> QED
  BY <1>1, <1>2, <1>3, <1>4 DEF InLink

LEMMA LinkLeads ==
  ASSUME PhoneCalm, pipe' > 0 => pipe > 0, Kept(peer, peer'),
         peer'.controls["p2p"] > 0 => peer.controls["p2p"] > 0 \/ pipe > 0,
         peer.version = 0 => Silent, peer.session \in Sessions,
         Link(lease[peer.session], DeviceBound(peer.session), peer',
              up'[peer.session]["device"], down'[peer.session]["device"])
  PROVE  Leads
<1>1. ASSUME NEW t \in Sessions PROVE LinkNow(t)
  <2>1. /\ DeviceBound(t)' = DeviceBound(t) /\ lease' = lease
        /\ peer'.session = peer.session
    BY DEF PhoneCalm, DeviceBound
  <2> QED
    BY <2>1 DEF LinkNow
<1> QED
  BY <1>1 DEF Leads, Kept

LEMMA FrameLeads ==
  ASSUME PhoneInv, LinkOK, peer' \in Peer, HandleRelayFrame
  PROVE  Leads
<1>1. PhoneCalm
  BY RelayFrameCalm
<1>2. PICK type : RelayFrame(type)
  BY DEF HandleRelayFrame, StartP2P, HandleP2PSignal, SelectInitialTransport,
         RecoveryBegins, RecoveryCommits, RelayBinary, RelayCloses
<1>3. /\ down'[peer.session]["device"] = Tail(Mine(down)) /\ pipe' = pipe
      /\ Running
  BY <1>2, RelayFrameFinds DEF RelayFrame
<1> DEFINE l == lease[peer.session]
           b == DeviceBound(peer.session)
<1>4. peer.session \in Sessions /\ InLink(l, b)
  BY <1>3, OwnLink
<1>5. ClosesWith(Benign) \/ (Carried(l, b) /\ ~Early(l, b, peer, Mine(up)))
  <2> HIDE DEF l, b
  <2> QED
    BY <1>4, RelayFrameCarried
<1>6. CASE ClosesWith(Benign)
  BY <1>1, <1>3, <1>6, EndLeads
<1>7. CASE Carried(l, b) /\ ~Early(l, b, peer, Mine(up))
  <2>1. peer.version # 0
    BY <1>7 DEF Early
  <2> QED
    BY <1>1, <1>3, <1>4, <1>7, <2>1, LinkLeads DEF Carried
<1> QED
  BY <1>5, <1>6, <1>7

LEMMA CallbackFrame ==
  ASSUME PhoneInv, Callback
  PROVE  down' = down /\ Running /\ (pipe' > 0 => pipe > 0)
<1>1. CASE SidecarBinary
  BY <1>1 DEF SidecarBinary, Sidecar
<1>2. ASSUME ~SidecarBinary PROVE down' = down /\ Running /\ pipe' = pipe
  BY <1>2
  DEF Callback, LocalDescription, LocalCandidate, SidecarReady,
      SidecarDisconnected, SidecarFails, GraceEnds, LocalOpens, PeerCloses,
      LocalBinary, Sidecar
<1> QED
  BY <1>1, <1>2

LEMMA CallbackLeads ==
  ASSUME PhoneInv, LinkOK, peer' \in Peer, Callback
  PROVE  Leads
<1>1. PhoneCalm
  BY CallbackCalm DEF Callback
<1>2. down' = down /\ Running /\ (pipe' > 0 => pipe > 0)
  BY CallbackFrame
<1> DEFINE l == lease[peer.session]
           b == DeviceBound(peer.session)
<1>3. /\ peer.session \in Sessions /\ InLink(l, b)
      /\ peer.version = 0 => Stage0(peer)
  BY <1>2, OwnLink
<1>4. ClosesWith(Benign) \/ Called(l, b)
  <2> HIDE DEF l, b
  <2> QED
    BY <1>3, CallbackCalled
<1>5. CASE ClosesWith(Benign)
  BY <1>1, <1>2, <1>5, EndLeads
<1>6. CASE Called(l, b)
  <2>1. Link(l, b, peer', up'[peer.session]["device"], down'[peer.session]["device"])
    BY <1>2, <1>6 DEF Called, Mine
  <2> QED
    BY <1>1, <1>2, <1>3, <1>6, <2>1, LinkLeads DEF Called
<1> QED
  BY <1>4, <1>5, <1>6

\* Steps within a session and outside of one.
LEMMA PhoneLeads ==
  ASSUME PhoneInv, LinkOK, peer' \in Peer, PeerStep
  PROVE  \/ Leads \/ RelayOpens \/ Teardown \/ Crash
         \/ \E s \in Sessions : AcceptInvitation(s)
<1>1. ASSUME NEW s \in Sessions,
             DropInvitation(s) \/ RejectInvitation(s) \/ EventLost(s)
      PROVE  Leads
  <2>1. PhoneCalm /\ UNCHANGED <<peer, up, down, pipe>>
    BY <1>1
    DEF DropInvitation, RejectInvitation, EventLost, Invited, PhoneCalm, Silent,
        others, PhoneHears, ToRelay
  <2> QED
    BY <2>1, NothingLeads
<1>2. CASE HandleRelayFrame
  BY <1>2, FrameLeads
<1>3. CASE \/ LocalDescription \/ LocalCandidate \/ OpenChannel
           \/ SidecarDisconnected \/ SidecarFails \/ GraceEnds \/ SidecarBinary
           \/ LocalOpens \/ PeerCloses
           \/ \E sends \in BOOLEAN : LocalBinary(sends)
  <2>1. Callback
    BY <1>3 DEF OpenChannel, Callback
  <2> QED
    BY <2>1, CallbackLeads
<1> QED
  BY <1>1, <1>2, <1>3 DEF PeerStep

LEMMA LinkOKPrimed ==
  ASSUME peer'.session = NoSession => pipe' = 0,
         \A s \in Sessions : P2PNow(s) /\ OverNow(s) /\ LinkNow(s)
  PROVE  LinkOK'
<1>1. ASSUME NEW s \in Sessions PROVE P2POf(s)' /\ Over(s)' /\ LinkOf(s)'
  BY <1>1, RestPrimed, LinkPrimed
<1> QED
  BY <1>1 DEF LinkOK

LEMMA LeadsOn ==
  ASSUME PhoneInv, Leads, browser' = browser, pipe \in Nat, pipe' \in Nat,
         LinkOK, NoTransportFault
  PROVE  LinkOK' /\ NoTransportFault'
<1>1. peer'.session = NoSession => pipe' = 0
  BY DEF LinkOK, Leads, PhoneCalm
<1>2. ASSUME NEW s \in Sessions PROVE P2PNow(s) /\ OverNow(s) /\ LinkNow(s)
  <2>1. P2PNow(s) /\ OverNow(s)
    BY CalmGoesOn DEF LinkOK, Leads, PhoneInv
  <2> QED
    BY <2>1 DEF Leads
<1>3. NoTransportFault'
  BY DEF NoTransportFault, Leads, Benign
<1> QED
  BY <1>1, <1>2, <1>3, LinkOKPrimed

\* A session begins.
LEMMA FreshLink ==
  ASSUME NEW s, NEW l
  PROVE  Link(l, FALSE, Fresh(s), <<>>, <<>>)
<1> DEFINE p == Fresh(s)
<1>1. Stage0(p) /\ PhoneShape(p)
  BY DEF Fresh, Stage0, PhoneShape, NoControls, Carriers
<1>2. /\ Ordered(<<>>) /\ Once(<<>>) /\ OnlyEof(<<>>) /\ ~HasHello(<<>>)
      /\ ~HasState(<<>>, "ready")
      /\ \A x, Y : Preceded(<<>>, x, Y)
      /\ \A x : ~Holds(<<>>, x)
  BY OneFrame, ShortHolds
<1>3. Told(p, <<>>) /\ Telling(p, <<>>, <<>>)
  BY <1>1, <1>2 DEF Told, Telling, HasReady, Stage0
<1> QED
  BY <1>1, <1>2, <1>3 DEF Link

LEMMA UnsentSocket ==
  ASSUME ChannelsOK, NEW s \in Sessions, SocketOf(s), Over(s), ~Served(s),
         ~Holds(up[s]["device"], Eof)
  PROVE  up[s]["device"] = <<>> /\ ~DeviceBound(s)
<1>1. up[s]["device"] \in Seq(Frames)
  BY ChannelTyped DEF ChannelsOK, Roles
<1>2. up[s]["device"] # <<>> => Len(up[s]["device"]) \in DOMAIN up[s]["device"]
  BY <1>1, TailAt
<1> QED
  BY <1>2 DEF Over, Holds, SocketOf

LEMMA AcceptLink ==
  ASSUME PhoneInv, NEW s \in Sessions, AcceptInvitation(s), browser' = browser,
         SocketOK, LinkOK
  PROVE  LinkOK' /\ NoTransportFault'
<1>1. /\ peer.session = NoSession /\ peer' = Fresh(s) /\ pipe = 0
      /\ UNCHANGED <<lease, halfOpen, up, pipe>>
      /\ down' = [down EXCEPT ![s]["device"] = <<>>]
      /\ ~Holds(up[s]["device"], Eof)
  BY DEF AcceptInvitation, Invited, Holds, LinkOK
<1>2. /\ peer'.session = s /\ NoSession \notin Sessions /\ peer'.version = 0
      /\ peer'.code = "" /\ peer'.controls["p2p"] = 0
  BY <1>1, RelayAssumption DEF Fresh, NoControls, Carriers
<1>3. down \in Channels /\ ChannelsOK
  BY DEF PhoneInv, ChannelsOK
<1>4. /\ down'[s]["device"] = <<>>
      /\ \A t \in Sessions : down'[t]["controller"] = down[t]["controller"]
  <2>1. [down EXCEPT ![s]["device"] = <<>>][s]["device"] = <<>>
    BY <1>3, SetMine
  <2>2. ASSUME NEW t \in Sessions
        PROVE  down'[t]["controller"] = down[t]["controller"]
    BY <1>1, <1>3 DEF Channels
  <2> QED
    BY <1>1, <2>1, <2>2
<1>5. ASSUME NEW t \in Sessions PROVE P2PNow(t) /\ OverNow(t) /\ LinkNow(t)
  <2>1. P2POf(t) /\ Over(t) /\ SocketOf(t) /\ ~Served(t)
    BY <1>1, <1>2 DEF LinkOK, SocketOK, Served
  <2>2. P2PNow(t)
    <3>1. UsesNow(t) => UsesP2P(t)
      <4>0. pipe' = 0 /\ peer'.controls["p2p"] = 0
        BY <1>1, <1>2
      <4>1. ~(pipe' > 0) /\ ~(peer'.controls["p2p"] > 0)
        BY <4>0
      <4>2. browser'[t].selected = browser[t].selected
        OBVIOUS
      <4>3. down'[t]["controller"] = down[t]["controller"]
        BY <1>4
      <4> QED
        BY <4>1, <4>2, <4>3 DEF UsesNow, UsesP2P
    <3>2. t = s => ~Holds(down'[t]["device"], Ready("relay"))
      BY <1>4, ShortHolds
    <3> QED
      BY <1>1, <1>2, <2>1, <3>1, <3>2 DEF P2PNow, P2POf, AfterP2P
  <2>3. OverNow(t)
    BY <1>1, <2>1 DEF Over, OverNow
  <2>4. LinkNow(t)
    <3>1. CASE t # s
      BY <1>2, <3>1 DEF LinkNow
    <3>2. CASE t = s
      <4>1. up'[t]["device"] = <<>> /\ DeviceBound(t)' = FALSE
        BY <1>1, <1>3, <2>1, <3>2, UnsentSocket DEF DeviceBound
      <4>2. Link(lease'[t], FALSE, peer', <<>>, <<>>)
        BY <1>1, FreshLink
      <4> QED
        BY <1>4, <3>2, <4>1, <4>2 DEF LinkNow
    <3> QED
      BY <3>1, <3>2
  <2> QED
    BY <2>2, <2>3, <2>4
<1>6. NoTransportFault'
  BY <1>2 DEF NoTransportFault, Faults
<1> QED
  BY <1>2, <1>5, <1>6, LinkOKPrimed

\* Its socket opens.
LEMMA HelloLink ==
  ASSUME NEW l, NEW p \in Peer, NEW u, NEW d, Link(l, FALSE, p, u, d),
         p.version = 0, NEW v \in {1, 2}
  PROVE  Link(l, FALSE, [p EXCEPT !.version = v], <<Hello(v)>>, d)
<1> DEFINE q == [p EXCEPT !.version = v]
           w == <<Hello(v)>>
<1>1. Stage0(p) /\ OnlyEof(d) /\ PhoneShape(p) /\ Told(p, d) /\ Ordered(d)
  BY DEF Link, Early
<1>2. Stage0(q) /\ PhoneShape(q)
  BY <1>1 DEF Peer, Stage0, PhoneShape
<1>3. Hello(v) \in Frames /\ Hello(v).type = "hello"
  BY FramesBuilt, FrameTypes
<1>4. /\ Once(w) /\ ~HasState(w, "ready") /\ ~Holds(w, TransportReady)
  BY <1>3, OneFrame, ShortHolds, FrameTypes
<1>5. Told(q, d)
  <2>1. /\ ~Holds(d, Start) /\ ~HasReady(d) /\ ~Holds(d, Ready("p2p"))
        /\ ~Holds(d, Transport("ready")) /\ ~Holds(d, Transport("recovering"))
        /\ ~Holds(d, Binary)
    BY <1>1, OnlyEofHolds
  <2>2. \A x, Y : ~Holds(d, x) => Preceded(d, x, Y)
    BY DEF Holds, Preceded
  <2> HIDE DEF q
  <2> QED
    BY <1>2, <2>1, <2>2 DEF Told
<1> HIDE DEF q, w
<1>6. Telling(q, w, d)
  BY <1>4 DEF Telling
<1> QED
  BY <1>1, <1>2, <1>4, <1>5, <1>6 DEF Link, q, w

LEMMA RelayOpensLink ==
  ASSUME PhoneInv, RelayOpens, browser' = browser, SocketOK, LinkOK,
         NoTransportFault
  PROVE  LinkOK' /\ NoTransportFault'
<1>1. /\ peer.session \in Sessions /\ peer \in Peer /\ up \in Channels /\ ChannelsOK
      /\ "device" \in Roles /\ peer.version = 0 /\ ~peer.closed
      /\ UNCHANGED <<lease, halfOpen, down, pipe>>
  BY CallbackFinds DEF RelayOpens, ChannelsOK, Roles, others, Running
<1>2. PICK s \in Sessions : s = peer.session
  BY <1>1
<1>3. PICK v \in Versions : Become([peer EXCEPT !.version = v], <<Hello(v)>>)
  BY DEF RelayOpens
<1>4. v \in {1, 2}
  BY RelayAssumption
<1>5. /\ peer' = [peer EXCEPT !.version = v]
      /\ up' = [up EXCEPT ![s]["device"] = up[s]["device"] \o <<Hello(v)>>]
  BY <1>2, <1>3 DEF Become
<1>6. /\ peer'.session = s /\ peer'.version = v /\ peer'.code = peer.code
      /\ peer'.controls = peer.controls /\ peer'.closed = peer.closed
  BY <1>1, <1>2, <1>5 DEF Peer
<1>7. /\ P2POf(s) /\ Over(s) /\ LinkOf(s) /\ SocketOf(s) /\ ~Served(s)
  BY <1>1 DEF LinkOK, SocketOK, Served
<1>8. up[s]["device"] = <<>> /\ DeviceBound(s) = FALSE
  <2>1. ~Holds(up[s]["device"], Eof)
    BY <1>2, <1>7 DEF SocketOf
  <2> QED
    BY <1>1, <1>7, <2>1, UnsentSocket DEF DeviceBound
<1>9. /\ up'[s]["device"] = <<Hello(v)>>
      /\ \A t \in Sessions : t # s => up'[t] = up[t]
  <2>1. PICK q : q = up[s]["device"] \o <<Hello(v)>>
    OBVIOUS
  <2>2. q = <<Hello(v)>>
    BY <1>8, <2>1
  <2>3. up' = [up EXCEPT ![s]["device"] = q]
    BY <1>5, <2>1
  <2>4. [up EXCEPT ![s]["device"] = q][s]["device"] = q
    BY <1>1, SetMine
  <2>5. \A t \in Sessions : t # s => [up EXCEPT ![s]["device"] = q][t] = up[t]
    BY <1>1, SetAlone
  <2> QED
    BY <2>2, <2>3, <2>4, <2>5
<1>10. ASSUME NEW t \in Sessions PROVE P2PNow(t) /\ OverNow(t) /\ LinkNow(t)
  <2>1. P2PNow(t)
    <3>1. P2POf(t) /\ (UsesNow(t) => UsesP2P(t))
      BY <1>1, <1>2, <1>6 DEF LinkOK, UsesNow, UsesP2P
    <3> QED
      BY <1>1, <1>2, <1>6, <3>1 DEF P2PNow, P2POf, AfterP2P
  <2>2. OverNow(t)
    <3>1. Over(t)
      BY DEF LinkOK
    <3> QED
      BY <1>2, <1>4, <1>6, <1>9, <3>1 DEF Over, OverNow, Served
  <2>3. LinkNow(t)
    <3>1. CASE t # s
      BY <1>6, <3>1 DEF LinkNow
    <3>2. CASE t = s
      <4>1. Link(lease[s], FALSE, peer, up[s]["device"], down[s]["device"])
        BY <1>1, <1>2, <1>7, <1>8 DEF LinkOf
      <4>2. Link(lease[s], FALSE, peer', <<Hello(v)>>, down[s]["device"])
        BY <1>1, <1>4, <1>5, <4>1, HelloLink
      <4>3. DeviceBound(s)' = FALSE
        BY <1>1, <1>8 DEF DeviceBound
      <4> QED
        BY <1>1, <1>9, <3>2, <4>2, <4>3 DEF LinkNow
    <3> QED
      BY <3>1, <3>2
  <2> QED
    BY <2>1, <2>2, <2>3
<1>11. NoTransportFault' /\ peer'.session # NoSession
  BY <1>6, RelayAssumption DEF NoTransportFault
<1> QED
  BY <1>10, <1>11, LinkOKPrimed

\* The session ends.
LEMMA LeavingLink ==
  ASSUME PhoneInv, Teardown \/ Crash, browser' = browser, LinkOK
  PROVE  LinkOK' /\ NoTransportFault'
<1>1. /\ up \in Channels /\ down \in Channels /\ "device" \in Roles
      /\ "controller" \in Roles /\ "device" # "controller"
      /\ peer.session \in Sessions \cup {NoSession}
  BY DEF PhoneInv, PhoneOK, ChannelsOK, Roles, Peer
<1>2. peer' = Idle /\ pipe' = 0 /\ lease' = lease
  BY DEF Teardown, Crash, others
<1>3. /\ peer'.session = NoSession /\ NoSession \notin Sessions
      /\ peer'.version = 0 /\ peer'.code = ""
  BY <1>2, RelayAssumption DEF Idle, Fresh
<1>4. /\ down' = down \/ down' = [down EXCEPT ![peer.session]["device"] = <<>>]
      /\ \/ up' = up
         \/ up' = [up EXCEPT ![peer.session]["device"] = <<>>]
         \/ /\ peer.version # 0
            /\ up' = [up EXCEPT ![peer.session]["device"] =
                          Append(up[peer.session]["device"], Eof)]
  <2>1. CASE Teardown
    BY <2>1 DEF Teardown
  <2>2. CASE Crash
    BY <2>2 DEF Crash
  <2> QED
    BY <2>1, <2>2
<1>5. ASSUME NEW t \in Sessions PROVE P2PNow(t) /\ OverNow(t) /\ LinkNow(t)
  <2>1. P2POf(t) /\ Over(t) /\ peer'.session # t /\ up[t]["device"] \in Seq(Frames)
    BY <1>1, <1>3, ChannelTyped DEF LinkOK
  <2>2. down'[t]["controller"] = down[t]["controller"]
    <3>1. [down EXCEPT ![peer.session]["device"] = <<>>][t]["controller"]
            = down[t]["controller"]
      BY <1>1 DEF Channels
    <3> QED
      BY <1>4, <3>1
  <2>3. P2PNow(t)
    <3>1. UsesNow(t) => UsesP2P(t)
      BY <2>1, <2>2 DEF UsesNow, UsesP2P
    <3> QED
      BY <1>2, <2>1, <3>1 DEF P2PNow, P2POf, AfterP2P
  <2>4. OverNow(t)
    <3>1. CASE Served(t)
      <4>1. t = peer.session /\ peer.session # NoSession /\ peer.version # 0
        BY <1>3, <3>1 DEF Served
      <4>2. PICK q \in {<<>>, Append(up[t]["device"], Eof)} :
              up' = [up EXCEPT ![t]["device"] = q]
        BY <4>1 DEF Teardown, Crash
      <4>3. up'[t]["device"] = q
        <5>1. [up EXCEPT ![t]["device"] = q][t]["device"] = q
          BY <1>1, SetMine
        <5> QED
          BY <4>2, <5>1
      <4>4. q # <<>> => q[Len(q)] = Eof
        BY <2>1, <4>2, FramesBuilt
      <4> QED
        BY <4>3, <4>4 DEF OverNow
    <3>2. CASE ~Served(t)
      <4>1. peer.version = 0 \/ t # peer.session
        BY <3>2 DEF Served
      <4>2. up'[t]["device"] = up[t]["device"] \/ up'[t]["device"] = <<>>
        <5>1. CASE up' = up
          BY <5>1
        <5>2. ASSUME NEW q, up' = [up EXCEPT ![peer.session]["device"] = q],
                     q = <<>> \/ peer.version # 0
              PROVE  up'[t]["device"] = up[t]["device"] \/ up'[t]["device"] = <<>>
          <6>1. CASE t # peer.session
            <7>1. [up EXCEPT ![peer.session]["device"] = q][t] = up[t]
              BY <1>1, <6>1, SetAlone
            <7> QED
              BY <5>2, <7>1
          <6>2. CASE t = peer.session
            <7>1. [up EXCEPT ![t]["device"] = q][t]["device"] = q
              BY <1>1, SetMine
            <7> QED
              BY <4>1, <5>2, <6>2, <7>1
          <6> QED
            BY <6>1, <6>2
        <5> QED
          BY <1>4, <5>1, <5>2
      <4> QED
        BY <2>1, <3>2, <4>2 DEF OverNow, Over
    <3> QED
      BY <3>1, <3>2
  <2> QED
    BY <2>1, <2>3, <2>4 DEF LinkNow
<1>6. NoTransportFault'
  BY <1>3 DEF NoTransportFault, Faults
<1> QED
  BY <1>2, <1>5, <1>6, LinkOKPrimed

LEMMA PhoneLink ==
  ASSUME PhoneInv, PeerStep, peer' \in Peer, pipe \in Nat, pipe' \in Nat,
         SocketOK, LinkOK, NoTransportFault
  PROVE  LinkOK' /\ NoTransportFault'
<1>1. browser' = browser
  BY DEF PeerStep
<1>2. CASE Leads
  BY <1>1, <1>2, LeadsOn
<1>3. ASSUME NEW s \in Sessions, AcceptInvitation(s)
      PROVE  LinkOK' /\ NoTransportFault'
  BY <1>1, <1>3, AcceptLink
<1>4. CASE RelayOpens
  BY <1>1, <1>4, RelayOpensLink
<1>5. CASE Teardown \/ Crash
  BY <1>1, <1>5, LeavingLink
<1> QED
  BY <1>2, <1>3, <1>4, <1>5, PhoneLeads

LEMMA ServerStepLink ==
  ASSUME ServerInv, ServerStep, peer \in Peer, SocketOK, RelayOK, LinkOK,
         NoTransportFault
  PROVE  LinkOK' /\ NoTransportFault'
<1>1. UNCHANGED <<peer, pipe, browser>>
  BY ServerMoves
<1>2. PICK s \in Sessions : ServerMove(s) /\ HalfOpenMove(s)
  BY ServerMoves
<1>3. ASSUME NEW t \in Sessions PROVE P2PNow(t) /\ OverNow(t) /\ LinkNow(t)
  <2>1. SocketOf(t) /\ RelayOf(t) /\ Shape(t) /\ P2POf(t) /\ Over(t) /\ LinkOf(t)
    BY DEF SocketOK, RelayOK, RelayOf, LinkOK
  <2>2. CASE t = s
    <3>1. P2PNow(s) /\ OverNow(s)
      BY <1>1, <1>2, <2>1, <2>2, ServerP2P, ServerOver
    <3>2. LinkNow(s)
      <4>1. CASE peer.session = s /\ ~peer.closed
        <5>1. Finds(s)
          BY <1>1, <1>2, <2>1, <2>2, <4>1 DEF Finds
        <5> QED
          BY <1>2, <2>1, <2>2, <5>1, ServerLink
      <4>2. CASE ~(peer.session = s /\ ~peer.closed)
        BY <1>1, <4>2 DEF LinkNow
      <4> QED
        BY <4>1, <4>2
    <3> QED
      BY <2>2, <3>1, <3>2
  <2>3. CASE t # s
    <3>1. lease'[t] = lease[t] /\ up'[t] = up[t] /\ down'[t] = down[t]
      BY <1>2, <2>3, ServerAlone DEF ServerInv
    <3>2. DeviceBound(t)' = DeviceBound(t)
      BY <1>2, <2>3, <3>1 DEF HalfOpenMove, DeviceBound
    <3>3. P2PNow(t)
      <4>1. UsesNow(t) => UsesP2P(t)
        BY <1>1, <3>1 DEF UsesNow, UsesP2P
      <4> QED
        BY <1>1, <2>1, <3>1, <4>1 DEF P2PNow, P2POf, AfterP2P
    <3>4. OverNow(t)
      BY <1>1, <2>1, <3>1 DEF OverNow, Over, Served
    <3>5. LinkNow(t)
      BY <1>1, <2>1, <3>1, <3>2 DEF LinkNow, LinkOf
    <3> QED
      BY <3>3, <3>4, <3>5
  <2> QED
    BY <2>2, <2>3
<1>4. NoTransportFault' /\ (peer'.session = NoSession => pipe' = 0)
  BY <1>1 DEF NoTransportFault, LinkOK
<1> QED
  BY <1>3, <1>4, LinkOKPrimed

\* A browser that takes to P2P was told to, or used it already.
LEMMA BrowserChoice ==
  ASSUME NEW x, NEW b, NEW ms, NEW d \in Seq(Frames),
         \/ Connects(x, b, ms) \/ Leaves(x, b, ms) \/ Speaks(x, b, ms)
         \/ Reports(x, b, ms) \/ GivesUp(x, b, ms) \/ Controls(x, b, ms)
         \/ d # <<>> /\ Hears(x, b, Head(d))
         \/ b = x,
         b.selected = "p2p"
  PROVE  x.selected = "p2p" \/ Holds(d, Ready("p2p"))
<1>1. ASSUME d # <<>>, Hears(x, b, Head(d)), x.selected # "p2p"
      PROVE  Holds(d, Ready("p2p"))
  <2> DEFINE m == Head(d)
  <2>1. m \in Frames /\ Holds(d, m)
    BY <1>1, TailAt DEF Holds
  <2>2. m.type = "ready" /\ m.transport = "p2p"
    BY <1>1 DEF Hears
  <2> HIDE DEF m
  <2>3. m = Ready("p2p")
    BY <2>1, <2>2, FrameIs
  <2> QED
    BY <2>1, <2>3
<1>2. ASSUME \/ Connects(x, b, ms) \/ Leaves(x, b, ms) \/ Speaks(x, b, ms)
             \/ Reports(x, b, ms) \/ GivesUp(x, b, ms) \/ Controls(x, b, ms)
             \/ b = x
      PROVE  x.selected = "p2p"
  BY <1>2 DEF Connects, Leaves, Speaks, Reports, GivesUp, Controls, SameView
<1> QED
  BY <1>1, <1>2

LEMMA BrowserLink ==
  ASSUME TypeOK, NEW s \in Sessions, BrowserStep(s), LinkOK, NoTransportFault
  PROVE  LinkOK' /\ NoTransportFault'
<1> DEFINE d == down[s]["controller"]
<1>1. PICK b \in Browser, ms \in Seq(Frames) :
        /\ BrowserSets(s, b, ms)
        /\ \/ Connects(browser[s], b, ms) \/ Leaves(browser[s], b, ms)
           \/ Speaks(browser[s], b, ms) \/ Reports(browser[s], b, ms)
           \/ GivesUp(browser[s], b, ms) \/ Controls(browser[s], b, ms)
           \/ d # <<>> /\ Hears(browser[s], b, Head(d))
           \/ b = browser[s]
        /\ \/ down' = down \/ down' = [down EXCEPT ![s]["controller"] = <<>>]
           \/ d # <<>> /\ down' = [down EXCEPT ![s]["controller"] = Tail(d)]
        /\ \/ pipe' = pipe
           \/ browser[s].selected = "p2p" /\ (peer.session # s => pipe' = pipe)
  BY BrowserMoves DEF BrowserMove
<1>2. /\ up \in Channels /\ down \in Channels /\ "controller" \in Roles
      /\ "device" \in Roles /\ "device" # "controller"
      /\ browser \in [Sessions -> Browser]
  BY DEF TypeOK, Roles
<1>3. /\ browser' = [browser EXCEPT ![s] = b]
      /\ up' = [up EXCEPT ![s]["controller"] = up[s]["controller"] \o ms]
      /\ UNCHANGED <<lease, halfOpen, peer>>
  BY <1>1 DEF BrowserSets
<1>4. d \in Seq(Frames)
  BY <1>2, ChannelTyped
<1>5. b.selected = "p2p" => UsesP2P(s)
  <2> SUFFICES ASSUME b.selected = "p2p" PROVE UsesP2P(s)
    OBVIOUS
  <2>1. browser[s].selected = "p2p" \/ Holds(d, Ready("p2p"))
    <3> HIDE DEF d
    <3>1. PICK x : x = browser[s]
      OBVIOUS
    <3>2. \/ Connects(x, b, ms) \/ Leaves(x, b, ms) \/ Speaks(x, b, ms)
          \/ Reports(x, b, ms) \/ GivesUp(x, b, ms) \/ Controls(x, b, ms)
          \/ d # <<>> /\ Hears(x, b, Head(d))
          \/ b = x
      BY <1>1, <3>1
    <3>3. x.selected = "p2p" \/ Holds(d, Ready("p2p"))
      BY <1>4, <3>2, BrowserChoice
    <3> QED
      BY <3>1, <3>3
  <2> QED
    BY <2>1 DEF UsesP2P
<1>6. ASSUME NEW q, down' = [down EXCEPT ![s]["controller"] = q],
             \A m : Holds(q, m) => Holds(d, m), NEW t \in Sessions
      PROVE  /\ down'[t]["device"] = down[t]["device"]
             /\ \A m : Holds(down'[t]["controller"], m)
                         => Holds(down[t]["controller"], m)
  <2>1. \A r \in Roles : down'[t][r] = IF t = s /\ r = "controller" THEN q ELSE down[t][r]
    <3>1. ASSUME NEW r \in Roles
          PROVE  [down EXCEPT ![s]["controller"] = q][t][r] =
                   IF t = s /\ r = "controller" THEN q ELSE down[t][r]
      BY <1>2, SetAt
    <3> HIDE DEF d
    <3> QED
      BY <1>6, <3>1
  <2> QED
    BY <1>2, <1>6, <2>1
<1>7. ASSUME NEW t \in Sessions
      PROVE  /\ down'[t]["device"] = down[t]["device"]
             /\ \A m : Holds(down'[t]["controller"], m)
                         => Holds(down[t]["controller"], m)
             /\ up'[t]["device"] = up[t]["device"]
             /\ browser'[t] = IF t = s THEN b ELSE browser[t]
  <2>1. \A m : ~Holds(<<>>, m) /\ (d # <<>> /\ Holds(Tail(d), m) => Holds(d, m))
    BY <1>4, ShortHolds, TailHolds
  <2>2. browser'[t] = IF t = s THEN b ELSE browser[t]
    BY <1>2, <1>3
  <2>3. up'[t]["device"] = up[t]["device"]
    <3>1. PICK q : q = up[s]["controller"] \o ms
      OBVIOUS
    <3>2. [up EXCEPT ![s]["controller"] = q][t]["device"] = up[t]["device"]
      BY <1>2, SetAt
    <3> QED
      BY <1>3, <3>1, <3>2
  <2>4. CASE down' = down
    BY <2>2, <2>3, <2>4
  <2>5. CASE down' # down
    <3>1. PICK q : /\ down' = [down EXCEPT ![s]["controller"] = q]
                   /\ q = <<>> \/ (d # <<>> /\ q = Tail(d))
      BY <1>1, <2>5
    <3>2. \A m : Holds(q, m) => Holds(d, m)
      <4> HIDE DEF d
      <4> QED
        BY <2>1, <3>1
    <3> QED
      BY <1>6, <2>2, <2>3, <3>1, <3>2
  <2> QED
    BY <2>4, <2>5
<1>8. ASSUME NEW t \in Sessions PROVE UsesNow(t) => UsesP2P(t)
  <2>1. browser'[t].selected = "p2p" => UsesP2P(t)
    BY <1>5, <1>7 DEF UsesP2P
  <2>2. Holds(down'[t]["controller"], Ready("p2p")) => UsesP2P(t)
    BY <1>7 DEF UsesP2P
  <2>3. peer'.session = t /\ (pipe' > 0 \/ peer'.controls["p2p"] > 0) => UsesP2P(t)
    BY <1>1, <1>3 DEF UsesP2P
  <2> QED
    BY <2>1, <2>2, <2>3 DEF UsesNow
<1>9. ASSUME NEW t \in Sessions PROVE P2PNow(t) /\ OverNow(t) /\ LinkNow(t)
  <2>1. P2POf(t) /\ Over(t) /\ LinkOf(t)
    BY DEF LinkOK
  <2>2. DeviceBound(t)' = DeviceBound(t)
    BY <1>3 DEF DeviceBound
  <2>3. P2PNow(t)
    BY <1>3, <1>7, <1>8, <2>1 DEF P2PNow, P2POf, AfterP2P
  <2>4. OverNow(t)
    BY <1>3, <1>7, <2>1 DEF OverNow, Over, Served
  <2>5. LinkNow(t)
    BY <1>3, <1>7, <2>1, <2>2 DEF LinkNow, LinkOf
  <2> QED
    BY <2>3, <2>4, <2>5
<1>10. NoTransportFault' /\ (peer'.session = NoSession => pipe' = 0)
  BY <1>1, <1>3, RelayAssumption DEF NoTransportFault, LinkOK
<1> QED
  BY <1>9, <1>10, LinkOKPrimed

LEMMA StepLink ==
  ASSUME IInv, SocketOK, RelayOK, LinkOK, NoTransportFault, [Next]_vars
  PROVE  LinkOK' /\ NoTransportFault'
<1>1. ServerInv /\ PhoneInv /\ TypeOK
  BY TypeParts DEF IInv, ServerInv, PhoneInv
<1>2. /\ peer \in Peer /\ peer' \in Peer /\ pipe \in Nat /\ pipe' \in Nat
  <2>1. IInv'
    BY StepIInv
  <2> QED
    BY <2>1 DEF IInv, TypeOK
<1>3. CASE ServerStep
  BY <1>1, <1>2, <1>3, ServerStepLink
<1>4. CASE PeerStep
  BY <1>1, <1>2, <1>4, PhoneLink
<1>5. ASSUME NEW s \in Sessions, BrowserStep(s)
      PROVE  LinkOK' /\ NoTransportFault'
  BY <1>1, <1>5, BrowserLink
<1>6. CASE UNCHANGED vars
  <2>1. UNCHANGED <<lease, halfOpen, up, down, peer, pipe, browser>>
    BY <1>6 DEF vars, relayVars, peerVars
  <2>2. ASSUME NEW t \in Sessions PROVE P2PNow(t) /\ OverNow(t) /\ LinkNow(t)
    <3>1. P2POf(t) /\ Over(t) /\ LinkOf(t)
      BY DEF LinkOK
    <3>2. DeviceBound(t)' = DeviceBound(t)
      BY <2>1 DEF DeviceBound
    <3>3. P2PNow(t)
      BY <2>1, <3>1 DEF P2PNow, P2POf, UsesNow, UsesP2P, AfterP2P
    <3> QED
      BY <2>1, <3>1, <3>2, <3>3 DEF OverNow, Over, Served, LinkNow, LinkOf
  <2>3. NoTransportFault' /\ (peer'.session = NoSession => pipe' = 0)
    BY <2>1 DEF NoTransportFault, LinkOK
  <2> QED
    BY <2>2, <2>3, LinkOKPrimed
<1> QED
  BY <1>3, <1>4, <1>5, <1>6 DEF Next

LEMMA InitLink == Init => LinkOK /\ NoTransportFault
<1>1. SUFFICES ASSUME Init PROVE LinkOK /\ NoTransportFault
  OBVIOUS
<1>2. /\ peer = Idle /\ pipe = 0 /\ \A t \in Sessions : browser[t].selected = "none"
      /\ \A t \in Sessions : up[t]["device"] = <<>> /\ down[t]["controller"] = <<>>
  BY <1>1 DEF Init, RelayInit, PeerInit, NoMessages, Roles
<1>3. /\ peer.session = NoSession /\ NoSession \notin Sessions /\ peer.code = ""
  BY <1>2, RelayAssumption DEF Idle, Fresh
<1>4. ASSUME NEW t \in Sessions PROVE P2POf(t) /\ Over(t) /\ LinkOf(t)
  <2>1. ~UsesP2P(t)
    <3>1. ~Holds(down[t]["controller"], Ready("p2p"))
      BY <1>2, ShortHolds
    <3>2. browser[t].selected # "p2p" /\ peer.session # t
      BY <1>2, <1>3
    <3> QED
      BY <3>1, <3>2 DEF UsesP2P
  <2> QED
    BY <1>2, <1>3, <2>1 DEF P2POf, Over, LinkOf
<1> QED
  BY <1>2, <1>3, <1>4 DEF LinkOK, NoTransportFault, Faults

\* The phone never ends a session for a fault in the order of what it is sent:
\* a second start, a transport it has already or cannot go to, a recovery it
\* does not expect, or data on a transport that is not selected (handleRelay,
\* handleRelayTransport, receiveControl).  However pairing, the failures of P2P
\* on either side, the timeouts, the recovery, crashes and taking an invitation
\* again interleave, the server sends what the phone is ready for.
THEOREM NeverFaulty == Spec => []NoTransportFault
<1>1. Init => IInv /\ SocketOK /\ RelayOK /\ LinkOK /\ NoTransportFault
  BY InitIInv, InitSocket, InitRelay, InitLink
<1>2. IInv /\ SocketOK /\ RelayOK /\ LinkOK /\ NoTransportFault /\ [Next]_vars
        => (IInv /\ SocketOK /\ RelayOK /\ LinkOK /\ NoTransportFault)'
  BY StepIInv, StepSocket, StepRelay, StepLink
<1> QED
  BY <1>1, <1>2, PTL DEF Spec

-----------------------------------------------------------------------------
(* The browser and the server agree on a lease.                            *)

\* What the browser and the server make of a lease, b being the browser, l the
\* lease, u what the browser has sent and the server not yet read, d what goes
\* the other way.
Guides(m) == m.type \in {"ready", "transport"}
Guided(d) == \E i \in DOMAIN d : Guides(d[i])
OnlyP2P(d) == \A i \in DOMAIN d : Guides(d[i]) => d[i] = Ready("p2p")
\* The last frame of d that guides its reader sends it to the relay.
ToTheRelay(d) ==
  \E i \in DOMAIN d :
    d[i] \in ToTransport /\ \A j \in DOMAIN d : i < j => ~Guides(d[j])
HelloFirst(u) == \A i \in DOMAIN u : u[i].type = "hello" => i = 1
Unpaired(l) ==
  l.state \notin {"SELECTING_TRANSPORT", "RECOVERING_TRANSPORT", "ACTIVE", "ENDED"}

\* Its socket: one hello, and a close of it that is on its way.
Attached(l, b, u, d) ==
  /\ HelloFirst(u)
  /\ b.state = "idle" => u = <<>> /\ "controller" \notin l.bound /\ ~Holds(d, Eof)
  /\ "controller" \in l.bound => ~HasHello(u)
  /\ HasHello(u) \/ "controller" \in l.bound =>
       /\ ~Holds(d, Eof)
       /\ b.state = "gone" /\ l.executing => Holds(u, Eof)
  /\ Holds(d, Closed) => ~l.executing
\* And what it has been told of the transport.
Steered(l, b, u, d) ==
  /\ Unpaired(l) => ~b.started /\ b.report = "none" /\ ~Holds(d, Start)
  /\ Unpaired(l) \/ l.state = "SELECTING_TRANSPORT" =>
       b.selected = "none" /\ ~Guided(d)
  /\ (l.state = "SELECTING_TRANSPORT" \/ OnP2P(l)) /\ b.report = "failed" =>
       HasState(u, "failed")
  /\ OnP2P(l) =>
       /\ b.selected = "p2p" \/ Holds(d, Ready("p2p")) \/ b.report = "failed"
       /\ OnlyP2P(d)
  /\ OnTheRelay(l) => ToTheRelay(d) \/ (b.selected = "relay" /\ ~Guided(d))
View(l, b, u, d) ==
  Attached(l, b, u, d) /\ (b.state # "gone" => Steered(l, b, u, d))
ViewOf(s) == View(lease[s], browser[s], up[s]["controller"], down[s]["controller"])
ViewOK == \A s \in Sessions : ViewOf(s)

ViewNow(s) ==
  View(lease'[s], browser'[s], up'[s]["controller"], down'[s]["controller"])

LEMMA ViewPrimed ==
  ASSUME NEW s
  PROVE  ViewOf(s)' <=> ViewNow(s)
  BY DEF ViewOf, ViewNow, View, Attached, Steered, HelloFirst, Holds, HasHello,
     Unpaired, Guided, Guides, HasState, OnP2P, OnlyP2P, OnTheRelay, ToTheRelay,
     ToTransport

-----------------------------------------------------------------------------
(* Channels as sequences, for what guides the browser.                     *)

LEMMA GuidingFrames ==
  /\ \A t : Guides(Ready(t)) /\ Guides(Transport(t))
  /\ ~Guides(Closed) /\ ~Guides(Eof) /\ ~Guides(Start) /\ ~Guides(Binary)
  /\ \A m : m.type = "signal" => ~Guides(m)
  /\ \A m : m \in ToTransport => Guides(m) /\ m # Ready("p2p")
  /\ \A t : /\ Ready(t) \notin {Start, Eof, Closed}
            /\ Transport(t) \notin {Start, Eof, Closed}
  /\ Start # Eof /\ Start # Closed /\ Eof # Closed /\ Binary \notin {Start, Eof, Closed}
  BY FrameTypes DEF Guides, ToTransport

LEMMA TailGuided ==
  ASSUME NEW d \in Seq(Frames), d # <<>>
  PROVE  /\ Guided(Tail(d)) => Guided(d)
         /\ Guides(Head(d)) => Guided(d)
         /\ OnlyP2P(d) => /\ OnlyP2P(Tail(d))
                          /\ Guides(Head(d)) => Head(d) = Ready("p2p")
         /\ ToTheRelay(d) => \/ ToTheRelay(Tail(d))
                             \/ Head(d) \in ToTransport /\ ~Guided(Tail(d))
<1>1. /\ 1 \in DOMAIN d /\ Head(d) = d[1]
      /\ \A i \in DOMAIN Tail(d) : Tail(d)[i] = d[i + 1] /\ i + 1 \in DOMAIN d
                                   /\ i \in Int /\ 1 < i + 1
  BY TailAt
<1>2. Guided(Tail(d)) => Guided(d)
  BY <1>1 DEF Guided
<1>3. Guides(Head(d)) => Guided(d)
  BY <1>1 DEF Guided
<1>4. OnlyP2P(d) => /\ OnlyP2P(Tail(d))
                    /\ Guides(Head(d)) => Head(d) = Ready("p2p")
  BY <1>1 DEF OnlyP2P
<1>5. ASSUME ToTheRelay(d)
      PROVE  ToTheRelay(Tail(d)) \/ (Head(d) \in ToTransport /\ ~Guided(Tail(d)))
  <2>1. PICK i \in DOMAIN d :
          d[i] \in ToTransport /\ \A j \in DOMAIN d : i < j => ~Guides(d[j])
    BY <1>5 DEF ToTheRelay
  <2>2. CASE i = 1
    <3>1. ASSUME NEW j \in DOMAIN Tail(d) PROVE ~Guides(Tail(d)[j])
      <4>1. PICK k \in DOMAIN d : k = j + 1 /\ Tail(d)[j] = d[k] /\ 1 < k
        BY <1>1
      <4> QED
        BY <2>1, <2>2, <4>1
    <3> QED
      BY <1>1, <2>1, <2>2, <3>1 DEF Guided
  <2>3. CASE i # 1
    <3>1. i - 1 \in DOMAIN Tail(d) /\ Tail(d)[i - 1] = d[i] /\ i \in Int
      BY <2>3, TailAt
    <3>2. ASSUME NEW j \in DOMAIN Tail(d), i - 1 < j PROVE ~Guides(Tail(d)[j])
      <4>1. PICK k \in DOMAIN d : k = j + 1 /\ Tail(d)[j] = d[k] /\ j \in Int
        BY <1>1
      <4>2. i < k
        BY <3>1, <3>2, <4>1
      <4> QED
        BY <2>1, <4>1, <4>2
    <3>3. Tail(d)[i - 1] \in ToTransport
      BY <2>1, <3>1
    <3> QED
      BY <3>1, <3>2, <3>3 DEF ToTheRelay
  <2> QED
    BY <2>2, <2>3
<1> QED
  BY <1>2, <1>3, <1>4, <1>5

LEMMA AppendGuided ==
  ASSUME NEW d \in Seq(Frames), NEW n \in Frames
  PROVE  /\ ~Guides(n) =>
              /\ Guided(Append(d, n)) => Guided(d)
              /\ OnlyP2P(d) => OnlyP2P(Append(d, n))
              /\ ToTheRelay(d) => ToTheRelay(Append(d, n))
         /\ n \in ToTransport => ToTheRelay(Append(d, n))
         /\ ~Guided(d) => OnlyP2P(Append(d, Ready("p2p")))
<1> DEFINE e == Append(d, n)
<1>1. /\ Len(d) \in Nat /\ DOMAIN d = 1..Len(d) /\ DOMAIN e = 1..(Len(d) + 1)
      /\ \A i \in DOMAIN d : i \in DOMAIN e /\ e[i] = d[i]
      /\ e[Len(d) + 1] = n
      /\ \A i \in DOMAIN e : i \in DOMAIN d \/ i = Len(d) + 1
  BY AppendAt
<1> HIDE DEF e
<1>2. ~Guides(n) => (Guided(e) => Guided(d)) /\ (OnlyP2P(d) => OnlyP2P(e))
  BY <1>1 DEF Guided, OnlyP2P
<1>3. ~Guides(n) /\ ToTheRelay(d) => ToTheRelay(e)
  BY <1>1 DEF ToTheRelay
<1>4. n \in ToTransport => ToTheRelay(e)
  <2>1. Len(d) + 1 \in DOMAIN e /\ \A j \in DOMAIN e : ~(Len(d) + 1 < j)
    BY <1>1
  <2> QED
    BY <1>1, <2>1 DEF ToTheRelay
<1>5. ~Guided(d) => OnlyP2P(Append(d, Ready("p2p")))
  <2>1. Ready("p2p") \in Frames
    BY FramesBuilt
  <2>2. \A i \in DOMAIN Append(d, Ready("p2p")) :
          \/ i \in DOMAIN d /\ Append(d, Ready("p2p"))[i] = d[i]
          \/ Append(d, Ready("p2p"))[i] = Ready("p2p")
    BY <2>1, AppendAt
  <2> QED
    BY <2>2 DEF Guided, OnlyP2P
<1> QED
  BY <1>2, <1>3, <1>4, <1>5 DEF e

LEMMA HelloTaken ==
  ASSUME NEW u \in Seq(Frames), u # <<>>, HelloFirst(u)
  PROVE  /\ ~HasHello(Tail(u)) /\ HelloFirst(Tail(u))
         /\ HasHello(u) => Head(u).type = "hello"
<1>1. \A i \in DOMAIN Tail(u) :
        Tail(u)[i] = u[i + 1] /\ i + 1 \in DOMAIN u /\ i + 1 # 1
  BY TailAt
<1>2. ~HasHello(Tail(u))
  BY <1>1 DEF HasHello, HelloFirst
<1>3. HasHello(u) => Head(u).type = "hello"
  BY TailAt DEF HasHello, HelloFirst
<1> QED
  BY <1>2, <1>3 DEF HasHello, HelloFirst

LEMMA HelloSent ==
  ASSUME NEW u \in Seq(Frames), NEW ms \in Seq(Frames), HelloFirst(u)
  PROVE  /\ ~HasHello(ms) => HelloFirst(u \o ms)
         /\ u = <<>> => \A m : ms = <<m>> => HelloFirst(u \o ms)
<1>1. ASSUME ~HasHello(ms) PROVE HelloFirst(u \o ms)
  <2>1. ASSUME NEW i \in DOMAIN (u \o ms), (u \o ms)[i].type = "hello"
        PROVE  i = 1
    <3>1. \/ i \in DOMAIN u /\ (u \o ms)[i] = u[i]
          \/ i - Len(u) \in DOMAIN ms /\ (u \o ms)[i] = ms[i - Len(u)]
      BY ConcatAt
    <3> QED
      BY <1>1, <2>1, <3>1 DEF HasHello, HelloFirst
  <2> QED
    BY <2>1 DEF HelloFirst
<1>2. ASSUME u = <<>>, NEW m, ms = <<m>> PROVE HelloFirst(u \o ms)
  <2>1. u \o ms = <<m>> /\ DOMAIN <<m>> = {1}
    BY <1>2
  <2> QED
    BY <2>1 DEF HelloFirst
<1> QED
  BY <1>1, <1>2

-----------------------------------------------------------------------------
(* What the server does to the browser's view.                             *)

LEMMA SetHere ==
  ASSUME NEW c \in Channels, NEW s \in Sessions, NEW r \in Roles, NEW e
  PROVE  [c EXCEPT ![s][r] = e][s]["controller"] =
           IF r = "controller" THEN e ELSE c[s]["controller"]
<1>1. "controller" \in Roles
  BY DEF Roles
<1>2. c[s] \in [Roles -> Seq(Frames)] /\ c \in [Sessions -> [Roles -> Seq(Frames)]]
  BY DEF Channels
<1> QED
  BY <1>1, <1>2

LEMMA TakesHere ==
  ASSUME ChannelsOK, NEW s \in Sessions, NEW r \in Roles, Takes(s, r)
  PROVE  LET u == up[s]["controller"]
             v == up'[s]["controller"]
         IN /\ u \in Seq(Frames)
            /\ r = "controller" => u # <<>> /\ v = Tail(u) /\ Message(s, r) = Head(u)
            /\ r # "controller" => v = u
<1>1. "controller" \in Roles /\ up \in Channels /\ up[s]["controller"] \in Seq(Frames)
  BY ChannelTyped DEF ChannelsOK, Roles
<1>2. PICK q : q = Tail(up[s][r])
  OBVIOUS
<1>3. up' = [up EXCEPT ![s][r] = q] /\ up[s][r] # <<>>
  BY <1>2 DEF Takes, Taken, Incoming
<1>4. [up EXCEPT ![s][r] = q][s]["controller"] =
        IF r = "controller" THEN q ELSE up[s]["controller"]
  <2>1. up \in Channels
    BY <1>1
  <2> HIDE <1>1, <1>2, <1>3
  <2> QED
    BY <2>1, SetHere
<1>5. r = "controller" => up'[s]["controller"] = q
  BY <1>3, <1>4
<1>6. r # "controller" => up'[s]["controller"] = up[s]["controller"]
  BY <1>3, <1>4
<1> QED
  BY <1>1, <1>2, <1>3, <1>5, <1>6 DEF Message

LEMMA SentHere ==
  ASSUME ChannelsOK, NEW s \in Sessions, NEW to, NEW n, down' = Sent(s, to, n)
  PROVE  LET d == down[s]["controller"]
         IN /\ d \in Seq(Frames)
            /\ down'[s]["controller"] =
                 IF "controller" \in to THEN Append(d, n) ELSE d
<1>1. "controller" \in Roles /\ down \in Channels /\ down[s]["controller"] \in Seq(Frames)
  BY ChannelTyped DEF ChannelsOK, Roles
<1>2. Sent(s, to, n)[s]["controller"] =
        IF "controller" \in to /\ ~("controller" = "device" /\ s \in halfOpen)
          THEN Append(down[s]["controller"], n) ELSE down[s]["controller"]
  BY <1>1, SentAt
<1> QED
  BY <1>1, <1>2

\* The socket, when at most one frame of it is taken.
LEMMA AttachedTaken ==
  ASSUME NEW l, NEW k, NEW b, NEW u \in Seq(Frames), NEW v, NEW d \in Seq(Frames),
         Attached(l, b, u, d), k.executing => l.executing,
         \/ v = u
         \/ /\ u # <<>> /\ v = Tail(u)
            /\ "controller" \in l.bound /\ Head(u) = Eof => ~k.executing,
         \/ "controller" \in k.bound => "controller" \in l.bound
         \/ u # <<>> /\ v = Tail(u) /\ HasHello(u)
  PROVE  Attached(k, b, v, d)
<1>1. /\ HelloFirst(u)
      /\ b.state = "idle" => u = <<>> /\ "controller" \notin l.bound /\ ~Holds(d, Eof)
      /\ "controller" \in l.bound => ~HasHello(u)
      /\ HasHello(u) \/ "controller" \in l.bound =>
           /\ ~Holds(d, Eof)
           /\ b.state = "gone" /\ l.executing => Holds(u, Eof)
      /\ Holds(d, Closed) => ~l.executing
  BY DEF Attached
<1>2. u # <<>> /\ v = Tail(u) =>
        /\ HelloFirst(v) /\ ~HasHello(v)
        /\ HasHello(u) => Head(u).type = "hello"
        /\ Holds(u, Eof) => Head(u) = Eof \/ Holds(v, Eof)
  BY <1>1, HelloTaken, TailHolds
<1>3. u = <<>> => ~HasHello(u)
  BY DEF HasHello
<1>4. Eof.type # "hello"
  BY FrameTypes
<1>5. HelloFirst(v) /\ (HasHello(v) => v = u)
  BY <1>1, <1>2
<1>6. b.state = "idle" => v = <<>> /\ "controller" \notin k.bound /\ ~Holds(d, Eof)
  BY <1>1, <1>3
<1>7. "controller" \in k.bound => ~HasHello(v)
  BY <1>1, <1>2
<1>8. HasHello(v) \/ "controller" \in k.bound => HasHello(u) \/ "controller" \in l.bound
  BY <1>5
<1>9. ASSUME HasHello(v) \/ "controller" \in k.bound, b.state = "gone", k.executing
      PROVE  Holds(v, Eof)
  <2>1. Holds(u, Eof)
    BY <1>1, <1>8, <1>9
  <2>2. CASE v = u
    BY <2>1, <2>2
  <2>3. CASE v # u
    <3>1. u # <<>> /\ v = Tail(u) /\ ("controller" \in l.bound => Head(u) # Eof)
      BY <1>9, <2>3
    <3>2. HasHello(u) => Head(u) # Eof
      BY <1>2, <1>4, <3>1
    <3> QED
      BY <1>2, <1>8, <1>9, <2>1, <3>1, <3>2
  <2> QED
    BY <2>2, <2>3
<1> QED
  BY <1>1, <1>5, <1>6, <1>7, <1>8, <1>9 DEF Attached

LEMMA AttachedSent ==
  ASSUME NEW k, NEW b, NEW v, NEW d \in Seq(Frames), NEW n \in Frames,
         Attached(k, b, v, d), n = Closed => ~k.executing,
         n = Eof => b.state # "idle" /\ ~HasHello(v) /\ "controller" \notin k.bound
  PROVE  Attached(k, b, v, Append(d, n))
<1>1. \A m : Holds(Append(d, n), m) <=> Holds(d, m) \/ n = m
  BY AppendHolds
<1> QED
  BY <1>1 DEF Attached

\* What it was told, when the choice stays.
LEMMA SteeredOn ==
  ASSUME NEW l, NEW k, NEW b, NEW u, NEW v, NEW d \in Seq(Frames), NEW w,
         Steered(l, b, u, d), k.state = l.state, k.selected = l.selected,
         w = d \/ \E n \in Frames : w = Append(d, n) /\ ~Guides(n) /\ n # Start,
         (l.state = "SELECTING_TRANSPORT" \/ OnP2P(l)) /\ HasState(u, "failed")
           => HasState(v, "failed")
  PROVE  Steered(k, b, v, w)
<1>1. /\ Holds(w, Start) => Holds(d, Start)
      /\ Guided(w) => Guided(d)
      /\ OnlyP2P(d) => OnlyP2P(w)
      /\ ToTheRelay(d) => ToTheRelay(w)
      /\ Holds(d, Ready("p2p")) => Holds(w, Ready("p2p"))
  <2>1. ASSUME NEW n \in Frames, w = Append(d, n), ~Guides(n), n # Start
        PROVE  /\ Holds(w, Start) => Holds(d, Start)
               /\ Guided(w) => Guided(d)
               /\ OnlyP2P(d) => OnlyP2P(w)
               /\ ToTheRelay(d) => ToTheRelay(w)
               /\ Holds(d, Ready("p2p")) => Holds(w, Ready("p2p"))
    <3>1. \A m : Holds(w, m) <=> Holds(d, m) \/ n = m
      BY <2>1, AppendHolds
    <3> QED
      BY <2>1, <3>1, AppendGuided
  <2> QED
    BY <2>1
<1>2. /\ Unpaired(k) <=> Unpaired(l)
      /\ OnP2P(k) <=> OnP2P(l)
      /\ OnTheRelay(k) <=> OnTheRelay(l)
  BY DEF Unpaired, OnP2P, OnTheRelay
<1> QED
  BY <1>1, <1>2 DEF Steered

\* And when a transport is chosen, or its choice begins.
LEMMA SteeredAnew ==
  ASSUME NEW l, NEW k, NEW b, NEW u, NEW v, NEW d \in Seq(Frames), NEW w,
         Steered(l, b, u, d)
  PROVE  /\ k.state \in {"RECOVERING_TRANSPORT", "ENDED"} => Steered(k, b, v, w)
         /\ Unpaired(l) /\ Unpaired(k) /\ w = d => Steered(k, b, v, w)
         /\ Unpaired(l) /\ k.state = "SELECTING_TRANSPORT" /\ w = Append(d, Start)
              => Steered(k, b, v, w)
         /\ l.state = "SELECTING_TRANSPORT" /\ OnP2P(k) /\ w = Append(d, Ready("p2p"))
              /\ (HasState(u, "failed") => HasState(v, "failed"))
              => Steered(k, b, v, w)
         /\ OnTheRelay(k) /\ (\E n \in ToTransport : w = Append(d, n))
              => Steered(k, b, v, w)
<1>1. ASSUME k.state \in {"RECOVERING_TRANSPORT", "ENDED"} PROVE Steered(k, b, v, w)
  BY <1>1 DEF Steered, Unpaired, OnP2P, OnTheRelay
<1>2. ASSUME Unpaired(l), Unpaired(k), w = d PROVE Steered(k, b, v, w)
  BY <1>2 DEF Steered, Unpaired, OnP2P, OnTheRelay
<1>3. ASSUME Unpaired(l), k.state = "SELECTING_TRANSPORT", w = Append(d, Start)
      PROVE  Steered(k, b, v, w)
  <2>1. Start \in Frames /\ ~Guides(Start)
    BY FramesBuilt, GuidingFrames
  <2>2. Guided(w) => Guided(d)
    BY <1>3, <2>1, AppendGuided
  <2>3. b.report = "none" /\ b.selected = "none" /\ ~Guided(w)
    BY <1>3, <2>2 DEF Steered
  <2> QED
    BY <1>3, <2>3 DEF Steered, Unpaired, OnP2P, OnTheRelay
<1>4. ASSUME l.state = "SELECTING_TRANSPORT", OnP2P(k), w = Append(d, Ready("p2p")),
             HasState(u, "failed") => HasState(v, "failed")
      PROVE  Steered(k, b, v, w)
  <2>1. Ready("p2p") \in Frames /\ ~Guided(d)
    BY <1>4, FramesBuilt DEF Steered
  <2>2. OnlyP2P(w) /\ Holds(w, Ready("p2p"))
    BY <1>4, <2>1, AppendGuided, AppendHolds
  <2>3. b.report = "failed" => HasState(v, "failed")
    BY <1>4 DEF Steered
  <2> QED
    BY <1>4, <2>2, <2>3 DEF Steered, Unpaired, OnP2P, OnTheRelay
<1>5. ASSUME OnTheRelay(k), NEW n \in ToTransport, w = Append(d, n)
      PROVE  Steered(k, b, v, w)
  <2>1. n \in Frames
    BY FramesBuilt DEF ToTransport
  <2>2. ToTheRelay(w)
    BY <1>5, <2>1, AppendGuided
  <2> QED
    BY <1>5, <2>2 DEF Steered, Unpaired, OnP2P, OnTheRelay
<1> QED
  BY <1>1, <1>2, <1>3, <1>4, <1>5

\* A step of the server for a lease.
Looks(s) == ServerInv /\ Shape(s) /\ ViewOf(s) /\ browser' = browser

LEMMA Received ==
  ASSUME NEW s \in Sessions, Looks(s), lease'[s].executing => lease[s].executing,
         \/ up' = up
         \/ \E r \in Roles :
              /\ Takes(s, r)
              /\ r = "controller" /\ "controller" \in lease[s].bound
                   /\ Message(s, r) = Eof => ~lease'[s].executing,
         \/ "controller" \in lease'[s].bound => "controller" \in lease[s].bound
         \/ Takes(s, "controller") /\ Message(s, "controller").type = "hello"
  PROVE  /\ Attached(lease'[s], browser[s], up'[s]["controller"],
                     down[s]["controller"])
         /\ down[s]["controller"] \in Seq(Frames)
<1> DEFINE u == up[s]["controller"]
           v == up'[s]["controller"]
           d == down[s]["controller"]
<1>1. /\ ChannelsOK /\ u \in Seq(Frames) /\ d \in Seq(Frames)
      /\ "controller" \in Roles
      /\ Attached(lease[s], browser[s], u, d)
  BY ChannelTyped DEF Looks, ServerInv, ChannelsOK, Roles, ViewOf, View
<1>2. \/ v = u
      \/ /\ u # <<>> /\ v = Tail(u)
         /\ "controller" \in lease[s].bound /\ Head(u) = Eof => ~lease'[s].executing
  <2>1. ASSUME NEW r \in Roles, Takes(s, r),
               r = "controller" /\ "controller" \in lease[s].bound
                 /\ Message(s, r) = Eof => ~lease'[s].executing
        PROVE  \/ v = u
               \/ /\ u # <<>> /\ v = Tail(u)
                  /\ "controller" \in lease[s].bound /\ Head(u) = Eof
                       => ~lease'[s].executing
    BY <1>1, <2>1, TakesHere
  <2> QED
    BY <2>1
<1>3. \/ "controller" \in lease'[s].bound => "controller" \in lease[s].bound
      \/ u # <<>> /\ v = Tail(u) /\ HasHello(u)
  <2>1. ASSUME Takes(s, "controller"), Message(s, "controller").type = "hello"
        PROVE  u # <<>> /\ v = Tail(u) /\ HasHello(u)
    <3>1. u # <<>> /\ v = Tail(u) /\ Message(s, "controller") = Head(u)
      BY <1>1, <2>1, TakesHere
    <3>2. 1 \in DOMAIN u /\ Head(u) = u[1]
      BY <1>1, <3>1, TailAt
    <3> QED
      BY <2>1, <3>1, <3>2 DEF HasHello
  <2> QED
    BY <2>1
<1> HIDE DEF u, v, d
<1>4. Attached(lease'[s], browser[s], v, d)
  BY <1>1, <1>2, <1>3, AttachedTaken
<1> QED
  BY <1>1, <1>4 DEF v, d

LEMMA FailureStays ==
  ASSUME ChannelsOK, NEW s \in Sessions,
         \/ up' = up
         \/ \E r \in Roles :
              /\ Takes(s, r)
              /\ ~(/\ r = "controller" /\ Message(s, r).type = "state"
                   /\ Message(s, r).state = "failed")
  PROVE  HasState(up[s]["controller"], "failed")
           => HasState(up'[s]["controller"], "failed")
<1> DEFINE u == up[s]["controller"]
           v == up'[s]["controller"]
<1>1. ASSUME NEW r \in Roles, Takes(s, r),
             ~(/\ r = "controller" /\ Message(s, r).type = "state"
               /\ Message(s, r).state = "failed")
      PROVE  HasState(u, "failed") => HasState(v, "failed")
  <2>1. /\ u \in Seq(Frames)
        /\ r = "controller" => u # <<>> /\ v = Tail(u) /\ Message(s, r) = Head(u)
        /\ r # "controller" => v = u
    BY <1>1, TakesHere
  <2> HIDE DEF u, v
  <2>2. CASE r = "controller"
    <3>1. u # <<>> /\ v = Tail(u)
            /\ ~(Head(u).type = "state" /\ Head(u).state = "failed")
      BY <1>1, <2>1, <2>2
    <3> QED
      BY <2>1, <3>1, TailKinds
  <2>3. CASE r # "controller"
    BY <2>1, <2>3
  <2> QED
    BY <2>2, <2>3
<1> QED
  BY <1>1

\* What a step of the server takes, and whom it binds.
LEMMA MoveTakes ==
  ASSUME NEW s \in Sessions, ServerMove(s), Shape(s), ~Creates(s)
  PROVE  /\ lease'[s].executing => lease[s].executing
         /\ \/ up' = up
            \/ \E r \in Roles :
                 /\ Takes(s, r)
                 /\ r = "controller" /\ "controller" \in lease[s].bound
                      /\ Message(s, r) = Eof => ~lease'[s].executing
         /\ \/ "controller" \in lease'[s].bound => "controller" \in lease[s].bound
            \/ Takes(s, "controller") /\ Message(s, "controller").type = "hello"
<1>1. Eof.type = "eof" /\ "device" \in Roles /\ "device" # "controller"
  BY FrameTypes DEF Roles
<1>2. CASE Closes(s)
  BY <1>2 DEF Closes, Ends
<1>3. CASE Idles(s)
  BY <1>3 DEF Idles, Unmoved, SameChoice
<1>4. CASE FallsBack(s)
  <2>1. lease[s].state = "SELECTING_TRANSPORT" /\ lease[s].bound = Roles
        /\ lease[s].executing /\ SameBound(s) /\ lease'[s].executing = lease[s].executing
    BY <1>4 DEF FallsBack, Shape, Becomes
  <2>2. \/ up' = up
        \/ \E r \in Roles : Takes(s, r) /\ Message(s, r) # Eof
    BY <1>1, <1>4 DEF FallsBack
  <2> QED
    BY <2>1, <2>2 DEF SameBound
<1>5. CASE CommitsRecovery(s)
  BY <1>1, <1>5 DEF CommitsRecovery, SameBound, Becomes
<1>6. ASSUME NEW r \in Roles, Skips(s, r)
      PROVE  /\ Takes(s, r) /\ SameBound(s)
             /\ lease'[s].executing = lease[s].executing
             /\ r = "controller" /\ "controller" \in lease[s].bound
                  /\ Message(s, r) = Eof => ~lease'[s].executing
  BY <1>1, <1>6 DEF Skips, Unmoved, SameChoice, SameBound, Listening, Reached
<1>7. ASSUME NEW r \in Roles,
             \/ Refuses(s, r) \/ Forwards(s, r) \/ Relays(s, r) \/ HearsReady(s, r)
             \/ ChoosesP2P(s, r) \/ BeginsRecovery(s, r)
      PROVE  /\ Takes(s, r) /\ SameBound(s) /\ Message(s, r) # Eof
             /\ lease'[s].executing = lease[s].executing
  <2>1. Takes(s, r) /\ SameBound(s) /\ lease'[s].executing = lease[s].executing
    BY <1>7
    DEF Refuses, Forwards, Relays, HearsReady, ChoosesP2P, BeginsRecovery, Becomes,
        SameChoice, SameBound
  <2>2. Message(s, r).type \in {"hello", "signal", "binary", "state"}
    BY <1>7 DEF Refuses, Forwards, Relays, HearsReady, ChoosesP2P, BeginsRecovery
  <2> QED
    BY <1>1, <2>1, <2>2
<1>8. ASSUME NEW r \in Roles, Waits(s, r) \/ Negotiates(s, r) \/ Joins(s, r)
      PROVE  /\ Takes(s, r) /\ Message(s, r).type = "hello"
             /\ lease[s].executing /\ lease'[s].bound = lease[s].bound \cup {r}
             /\ Message(s, r) # Eof
  <2>1. Takes(s, r) /\ Message(s, r).type = "hello"
        /\ lease[s].executing /\ lease'[s].bound = lease[s].bound \cup {r}
    BY <1>8 DEF Waits, Negotiates, Joins, Binds
  <2> QED
    BY <1>1, <2>1
<1> QED
  BY <1>1, <1>2, <1>3, <1>4, <1>5, <1>6, <1>7, <1>8 DEF ServerMove, SameBound

\* And what it sends.
LEMMA MoveSends ==
  ASSUME ChannelsOK, NEW s \in Sessions, ServerMove(s), ~Closes(s),
         \A r \in Roles : ~Refuses(s, r)
  PROVE  \/ down' = down
         \/ \E to, n : /\ down' = Sent(s, to, n) /\ n \in Frames
                       /\ n # Closed /\ n # Eof
<1>1. /\ Start \in Frames /\ Binary \in Frames
      /\ \A t \in {"relay", "p2p"} : Ready(t) \in Frames
      /\ \A p \in {"recovering", "ready"} : Transport(p) \in Frames
  BY FramesBuilt
<1>2. /\ Start # Closed /\ Start # Eof /\ Binary # Closed /\ Binary # Eof
      /\ \A t : Ready(t) # Closed /\ Ready(t) # Eof
      /\ \A p : Transport(p) # Closed /\ Transport(p) # Eof
      /\ \A m : m.type = "signal" => m # Closed /\ m # Eof
  BY FrameTypes
<1>3. CASE Idles(s) \/ Creates(s)
  BY <1>3 DEF Idles, Unmoved, Creates
<1>4. CASE FallsBack(s) \/ CommitsRecovery(s)
  <2>1. \E to : \/ down' = Sent(s, to, Ready("relay"))
                \/ down' = Sent(s, to, Transport("ready"))
    BY <1>4 DEF FallsBack, CommitsRecovery
  <2> QED
    BY <1>1, <1>2, <2>1
<1>5. ASSUME NEW r \in Roles, Skips(s, r) \/ HearsReady(s, r) \/ Waits(s, r)
      PROVE  down' = down
  BY <1>5 DEF Skips, Unmoved, HearsReady, Waits
<1>6. ASSUME NEW r \in Roles, Forwards(s, r)
      PROVE  \E to, n : /\ down' = Sent(s, to, n) /\ n \in Frames
                        /\ n # Closed /\ n # Eof
  <2>1. /\ down' = Sent(s, {Other(r)}, Message(s, r))
        /\ Message(s, r).type = "signal" /\ Incoming(s, r)
    BY <1>6 DEF Forwards, Takes
  <2>2. Message(s, r) \in Frames
    BY <2>1, FirstFrame DEF Incoming, Message, ChannelsOK
  <2> QED
    BY <1>2, <2>1, <2>2
<1>7. ASSUME NEW r \in Roles,
             \/ Relays(s, r) \/ ChoosesP2P(s, r) \/ BeginsRecovery(s, r)
             \/ Negotiates(s, r) \/ Joins(s, r)
      PROVE  \E to, n : /\ down' = Sent(s, to, n) /\ n \in Frames
                        /\ n # Closed /\ n # Eof
  <2>1. \E to : \E n \in {Binary, Start, Ready("relay"), Ready("p2p"),
                          Transport("recovering")} : down' = Sent(s, to, n)
    BY <1>7 DEF Relays, ChoosesP2P, BeginsRecovery, Negotiates, Joins
  <2> QED
    BY <1>1, <1>2, <2>1
<1> QED
  BY <1>3, <1>4, <1>5, <1>6, <1>7 DEF ServerMove

LEMMA ServerAttached ==
  ASSUME NEW s \in Sessions, Looks(s), ServerMove(s), ~Creates(s)
  PROVE  Attached(lease'[s], browser[s], up'[s]["controller"],
                  down'[s]["controller"])
<1> DEFINE k == lease'[s]
           b == browser[s]
           u == up[s]["controller"]
           v == up'[s]["controller"]
           d == down[s]["controller"]
           w == down'[s]["controller"]
<1>1. Attached(k, b, v, d) /\ d \in Seq(Frames)
  BY MoveTakes, Received DEF Looks
<1>2. ChannelsOK /\ Eof \in Frames /\ Closed \in Frames /\ Eof # Closed
      /\ "controller" \in Roles /\ down \in Channels
  BY FramesBuilt, GuidingFrames DEF Looks, ServerInv, ChannelsOK, Roles
<1>3. ASSUME Closes(s) PROVE Attached(k, b, v, w)
  <2>1. ~k.executing /\ (w = d \/ w = Append(d, Closed))
    BY <1>2, <1>3, SentHere DEF Closes, Ends
  <2> HIDE DEF k, b, v, d, w
  <2>2. Attached(k, b, v, Append(d, Closed))
    <3>1. Closed = Eof => b.state # "idle" /\ ~HasHello(v) /\ "controller" \notin k.bound
      BY <1>2
    <3> QED
      BY <1>1, <1>2, <2>1, <3>1, AttachedSent
  <2> QED
    BY <1>1, <2>1, <2>2
<1>4. ASSUME NEW r \in Roles, Refuses(s, r) PROVE Attached(k, b, v, w)
  <2>1. /\ r = "controller" => w = Append(d, Eof)
        /\ r # "controller" => w = d
    <3>1. PICK e : e = Append(down[s][r], Eof)
      OBVIOUS
    <3>2. down' = [down EXCEPT ![s][r] = e]
      BY <1>4, <3>1 DEF Refuses
    <3>3. [down EXCEPT ![s][r] = e][s]["controller"] =
            IF r = "controller" THEN e ELSE down[s]["controller"]
      <4> HIDE <3>1, <3>2
      <4> QED
        BY <1>2, SetHere
    <3> QED
      BY <3>1, <3>2, <3>3
  <2>2. CASE r # "controller"
    BY <1>1, <2>1, <2>2
  <2>3. CASE r = "controller"
    <3>1. u \in Seq(Frames) /\ u # <<>> /\ v = Tail(u) /\ Head(u).type = "hello"
      BY <1>2, <1>4, <2>3, TakesHere DEF Refuses
    <3>2. HasHello(u)
      BY <3>1, TailAt DEF HasHello
    <3>3. Attached(lease[s], b, u, d) /\ k = lease[s]
      BY <1>4 DEF Looks, ViewOf, View, Refuses
    <3> HIDE DEF k, b, u, v, d, w
    <3>4. HelloFirst(u) /\ "controller" \notin k.bound /\ b.state # "idle"
      BY <3>1, <3>2, <3>3 DEF Attached
    <3>5. ~HasHello(v)
      BY <3>1, <3>4, HelloTaken
    <3>6. Attached(k, b, v, Append(d, Eof))
      BY <1>1, <1>2, <3>4, <3>5, AttachedSent
    <3> QED
      BY <2>1, <2>3, <3>6
  <2> QED
    BY <2>2, <2>3
<1>5. ASSUME ~Closes(s), \A r \in Roles : ~Refuses(s, r)
      PROVE  Attached(k, b, v, w)
  <2>1. CASE down' = down
    BY <1>1, <2>1
  <2>2. ASSUME NEW to, NEW n, down' = Sent(s, to, n), n \in Frames,
               n # Closed, n # Eof
        PROVE  Attached(k, b, v, w)
    <3>1. w = d \/ w = Append(d, n)
      BY <1>2, <2>2, SentHere
    <3> HIDE DEF k, b, v, d, w
    <3> QED
      BY <1>1, <2>2, <3>1, AttachedSent
  <2> QED
    BY <1>2, <1>5, <2>1, <2>2, MoveSends
<1> QED
  BY <1>3, <1>4, <1>5

\* A report of the browser is not lost while the choice stays.
LEMMA ReportStays ==
  ASSUME NEW s \in Sessions, Looks(s),
         \/ Idles(s)
         \/ \E r \in Roles :
              \/ Skips(s, r) \/ HearsReady(s, r) \/ Forwards(s, r)
              \/ Relays(s, r) \/ Refuses(s, r) \/ ChoosesP2P(s, r),
         lease[s].state = "SELECTING_TRANSPORT" \/ OnP2P(lease[s])
  PROVE  HasState(up[s]["controller"], "failed")
           => HasState(up'[s]["controller"], "failed")
<1>1. ChannelsOK
  BY DEF Looks, ServerInv
<1>2. lease[s].bound = Roles /\ lease[s].executing
  BY DEF Looks, Shape, OnP2P
<1>3. CASE Idles(s)
  BY <1>1, <1>3, FailureStays DEF Idles
<1>4. ASSUME NEW r \in Roles, Skips(s, r)
      PROVE  /\ Takes(s, r)
             /\ ~(/\ r = "controller" /\ Message(s, r).type = "state"
                  /\ Message(s, r).state = "failed")
  <2>1. r = "controller" => Listening(s, r)
    BY <1>2, <1>4 DEF Listening, Reached
  <2>2. lease[s].state # "RECOVERING_TRANSPORT" /\ ~OnRelayNow(s)
    BY DEF OnP2P, OnRelayNow
  <2> QED
    BY <1>4, <2>1, <2>2 DEF Skips
<1>5. ASSUME NEW r \in Roles,
             \/ HearsReady(s, r) \/ Forwards(s, r) \/ Relays(s, r)
             \/ Refuses(s, r) \/ ChoosesP2P(s, r)
      PROVE  /\ Takes(s, r)
             /\ ~(/\ r = "controller" /\ Message(s, r).type = "state"
                  /\ Message(s, r).state = "failed")
  BY <1>5 DEF HearsReady, Forwards, Relays, Refuses, ChoosesP2P
<1> QED
  BY <1>1, <1>3, <1>4, <1>5, FailureStays

LEMMA StayingSteered ==
  ASSUME NEW s \in Sessions, Looks(s),
         \/ Idles(s)
         \/ \E r \in Roles :
              \/ Skips(s, r) \/ HearsReady(s, r) \/ Forwards(s, r)
              \/ Relays(s, r) \/ Refuses(s, r),
         Steered(lease[s], browser[s], up[s]["controller"], down[s]["controller"])
  PROVE  Steered(lease'[s], browser[s], up'[s]["controller"], down'[s]["controller"])
<1> DEFINE l == lease[s]
           k == lease'[s]
           b == browser[s]
           u == up[s]["controller"]
           v == up'[s]["controller"]
           d == down[s]["controller"]
           w == down'[s]["controller"]
<1>1. /\ ChannelsOK /\ "controller" \in Roles /\ d \in Seq(Frames)
      /\ down \in Channels
  BY ChannelTyped DEF Looks, ServerInv, ChannelsOK, Roles
<1>2. lease'[s].state = lease[s].state /\ lease'[s].selected = lease[s].selected
  BY DEF Idles, Skips, Unmoved, HearsReady, Forwards, Relays, Refuses, SameChoice
<1>3. w = d \/ \E n \in Frames : w = Append(d, n) /\ ~Guides(n) /\ n # Start
  <2>1. CASE Idles(s) \/ \E r \in Roles : Skips(s, r) \/ HearsReady(s, r)
    BY <2>1 DEF Idles, Skips, Unmoved, HearsReady
  <2>2. ASSUME NEW r \in Roles, Forwards(s, r) \/ Relays(s, r)
        PROVE  w = d \/ \E n \in Frames : w = Append(d, n) /\ ~Guides(n) /\ n # Start
    <3>1. PICK n : /\ down' = Sent(s, {Other(r)}, n)
                   /\ \/ n = Message(s, r) /\ n.type = "signal" /\ Incoming(s, r)
                      \/ n = Binary
      BY <2>2 DEF Forwards, Relays, Takes
    <3>2. n \in Frames
      BY <1>1, <3>1, FirstFrame, FramesBuilt DEF Incoming, Message, ChannelsOK
    <3>3. ~Guides(n) /\ n # Start
      BY <3>1, GuidingFrames, FrameTypes
    <3>4. w = d \/ w = Append(d, n)
      BY <1>1, <3>1, SentHere
    <3> QED
      BY <3>2, <3>3, <3>4
  <2>3. ASSUME NEW r \in Roles, Refuses(s, r)
        PROVE  w = d \/ \E n \in Frames : w = Append(d, n) /\ ~Guides(n) /\ n # Start
    <3>1. PICK e : e = Append(down[s][r], Eof)
      OBVIOUS
    <3>2. down' = [down EXCEPT ![s][r] = e]
      BY <2>3, <3>1 DEF Refuses
    <3>3. w = d \/ w = Append(d, Eof)
      BY <1>1, <3>1, <3>2, SetHere
    <3> QED
      BY <3>3, FramesBuilt, GuidingFrames
  <2> QED
    BY <2>1, <2>2, <2>3
<1>4. (l.state = "SELECTING_TRANSPORT" \/ OnP2P(l)) /\ HasState(u, "failed")
        => HasState(v, "failed")
  BY ReportStays
<1>5. Steered(l, b, u, d) /\ k.state = l.state /\ k.selected = l.selected
  BY <1>2
<1>6. Steered(k, b, v, w)
  <2> HIDE DEF l, k, b, u, v, d, w
  <2> QED
    BY <1>1, <1>3, <1>4, <1>5, SteeredOn
<1> QED
  BY <1>6

LEMMA ServerSteered ==
  ASSUME NEW s \in Sessions, Looks(s), ServerMove(s), ~Creates(s),
         Steered(lease[s], browser[s], up[s]["controller"], down[s]["controller"])
  PROVE  Steered(lease'[s], browser[s], up'[s]["controller"], down'[s]["controller"])
<1> DEFINE l == lease[s]
           k == lease'[s]
           b == browser[s]
           u == up[s]["controller"]
           v == up'[s]["controller"]
           d == down[s]["controller"]
           w == down'[s]["controller"]
<1>1. /\ ChannelsOK /\ "controller" \in Roles /\ d \in Seq(Frames)
      /\ down \in Channels
  BY ChannelTyped DEF Looks, ServerInv, ChannelsOK, Roles
<1>2. Steered(l, b, u, d)
  OBVIOUS
<1>3. ASSUME \/ k.state \in {"RECOVERING_TRANSPORT", "ENDED"}
             \/ Unpaired(l) /\ Unpaired(k) /\ w = d
             \/ Unpaired(l) /\ k.state = "SELECTING_TRANSPORT" /\ w = Append(d, Start)
             \/ l.state = "SELECTING_TRANSPORT" /\ OnP2P(k) /\ w = Append(d, Ready("p2p"))
                  /\ (HasState(u, "failed") => HasState(v, "failed"))
             \/ OnTheRelay(k) /\ (\E n \in ToTransport : w = Append(d, n))
      PROVE  Steered(k, b, v, w)
  <2> HIDE DEF l, k, b, u, v, d, w
  <2> QED
    BY <1>1, <1>2, <1>3, SteeredAnew
<1>4. CASE Closes(s)
  <2>1. k.state = "ENDED"
    BY <1>4 DEF Closes, Ends
  <2> QED
    BY <1>3, <2>1
<1>5. ASSUME NEW n, NEW to, down' = Sent(s, to, n), "controller" \in to
      PROVE  w = Append(d, n)
  BY <1>1, <1>5, SentHere
<1>6. CASE FallsBack(s) \/ CommitsRecovery(s) \/ \E r \in Roles : Joins(s, r)
  <2>1. OnTheRelay(k)
    BY <1>6 DEF FallsBack, CommitsRecovery, Joins, Becomes, OnTheRelay
  <2>2. FallsBack(s) => "controller" \in lease[s].bound
    BY <1>1 DEF FallsBack, Looks, Shape
  <2>3. \E n \in ToTransport : \E to : down' = Sent(s, to, n) /\ "controller" \in to
    BY <1>1, <1>6, <2>2 DEF FallsBack, CommitsRecovery, Joins, ToTransport
  <2> QED
    BY <1>3, <1>5, <2>1, <2>3
<1>7. ASSUME NEW r \in Roles, ChoosesP2P(s, r) PROVE Steered(k, b, v, w)
  <2>1. l.state = "SELECTING_TRANSPORT" /\ OnP2P(k) /\ w = Append(d, Ready("p2p"))
    BY <1>1, <1>5, <1>7 DEF ChoosesP2P, Becomes, OnP2P
  <2>2. HasState(u, "failed") => HasState(v, "failed")
    BY <1>7, <2>1, ReportStays
  <2> QED
    BY <1>3, <2>1, <2>2
<1>8. ASSUME NEW r \in Roles, BeginsRecovery(s, r) PROVE Steered(k, b, v, w)
  <2>1. k.state = "RECOVERING_TRANSPORT"
    BY <1>8 DEF BeginsRecovery, Becomes
  <2> QED
    BY <1>3, <2>1
<1>9. ASSUME NEW r \in Roles, Waits(s, r) \/ Negotiates(s, r)
      PROVE  Steered(k, b, v, w)
  <2>1. Unpaired(l)
    BY <1>9 DEF Waits, Negotiates, Binds, Looks, Shape, Unpaired
  <2>2. CASE Waits(s, r)
    BY <1>3, <2>1, <2>2 DEF Waits, Becomes, Unpaired
  <2>3. CASE Negotiates(s, r)
    <3>1. k.state = "SELECTING_TRANSPORT" /\ w = Append(d, Start)
      BY <1>1, <1>5, <2>3 DEF Negotiates, Becomes
    <3> QED
      BY <1>3, <2>1, <3>1
  <2> QED
    BY <1>9, <2>2, <2>3
<1>10. CASE \/ Idles(s)
            \/ \E r \in Roles :
                 \/ Skips(s, r) \/ HearsReady(s, r) \/ Forwards(s, r)
                 \/ Relays(s, r) \/ Refuses(s, r)
  BY <1>10, StayingSteered
<1> QED
  BY <1>4, <1>6, <1>7, <1>8, <1>9, <1>10 DEF ServerMove

\* createSession: nobody has come yet.
LEMMA CreatesView ==
  ASSUME NEW s \in Sessions, RelayOf(s), Creates(s), ViewOf(s), browser' = browser
  PROVE  ViewNow(s)
<1>1. /\ lease'[s].bound = {} /\ lease'[s].state = "WAITING_PEERS"
      /\ up' = up /\ down' = down /\ lease[s].state = "NONE"
  BY DEF Creates
<1>2. /\ browser[s].state = "idle" /\ up[s]["controller"] = <<>>
      /\ down[s]["controller"] = <<>> /\ ~HasHello(<<>>)
  BY <1>1 DEF RelayOf, Untouched, Roles, HasHello
<1>3. Attached(lease'[s], browser[s], <<>>, <<>>)
  BY <1>1, <1>2, ShortHolds DEF ViewOf, View, Attached
<1>4. Steered(lease[s], browser[s], <<>>, <<>>)
  BY <1>2 DEF ViewOf, View
<1>5. Steered(lease'[s], browser[s], <<>>, <<>>)
  BY <1>1, <1>4 DEF Steered, Unpaired, OnP2P, OnTheRelay
<1> QED
  BY <1>1, <1>2, <1>3, <1>5 DEF ViewNow, View

LEMMA ServerView ==
  ASSUME ServerInv, NEW s \in Sessions, RelayOf(s), ServerMove(s), ViewOf(s),
         browser' = browser
  PROVE  ViewNow(s)
<1>1. CASE Creates(s)
  BY <1>1, CreatesView
<1>2. CASE ~Creates(s)
  <2>1. Looks(s)
    BY DEF Looks, RelayOf
  <2>2. Attached(lease'[s], browser[s], up'[s]["controller"], down'[s]["controller"])
    BY <1>2, <2>1, ServerAttached
  <2>3. browser[s].state # "gone" =>
          Steered(lease'[s], browser[s], up'[s]["controller"], down'[s]["controller"])
    BY <1>2, <2>1, ServerSteered DEF ViewOf, View
  <2> QED
    BY <2>2, <2>3 DEF ViewNow, View
<1> QED
  BY <1>1, <1>2

-----------------------------------------------------------------------------
(* The phone's steps are not for the browser.                              *)

LEMMA DeviceOnly ==
  ASSUME NEW c \in Channels, NEW s, NEW q, NEW t \in Sessions
  PROVE  [c EXCEPT ![s]["device"] = q][t]["controller"] = c[t]["controller"]
  BY DEF Channels, Roles

LEMMA PhoneAside ==
  ASSUME PhoneInv, PeerStep, NEW t \in Sessions
  PROVE  /\ up'[t]["controller"] = up[t]["controller"]
         /\ down'[t]["controller"] = down[t]["controller"]
<1>1. up \in Channels /\ down \in Channels
  BY DEF PhoneInv, ChannelsOK
<1>2. CASE PhoneCalm
  <2>1. down'[t]["controller"] = down[t]["controller"]
    BY <1>2, CalmAlone DEF PhoneInv
  <2>2. up'[t]["controller"] = up[t]["controller"]
    <3>1. CASE up' = up
      BY <3>1
    <3>2. ASSUME NEW ms, Sends(ms) PROVE up'[t]["controller"] = up[t]["controller"]
      <4>1. PICK q : q = up[peer.session]["device"] \o ms
        OBVIOUS
      <4>2. up' = [up EXCEPT ![peer.session]["device"] = q]
        BY <3>2, <4>1 DEF Sends
      <4> QED
        BY <1>1, <4>2, DeviceOnly
    <3> QED
      BY <1>2, <3>1, <3>2 DEF PhoneCalm, Silent
  <2> QED
    BY <2>1, <2>2
<1>3. ASSUME NEW q, NEW s, down' = [down EXCEPT ![s]["device"] = q]
      PROVE  down'[t]["controller"] = down[t]["controller"]
  BY <1>1, <1>3, DeviceOnly
<1>4. ASSUME NEW q, NEW s, up' = [up EXCEPT ![s]["device"] = q]
      PROVE  up'[t]["controller"] = up[t]["controller"]
  BY <1>1, <1>4, DeviceOnly
<1>5. ASSUME NEW s \in Sessions, AcceptInvitation(s)
      PROVE  /\ down' = [down EXCEPT ![s]["device"] = <<>>] /\ up' = up
  BY <1>5 DEF AcceptInvitation, Invited, others
<1>6. CASE RelayOpens
  <2>1. PICK ms : /\ up' = [up EXCEPT ![peer.session]["device"] =
                               up[peer.session]["device"] \o ms]
                  /\ down' = down
    BY <1>6 DEF RelayOpens, Become
  <2>2. PICK q : q = up[peer.session]["device"] \o ms
    OBVIOUS
  <2>3. up' = [up EXCEPT ![peer.session]["device"] = q]
    BY <2>1, <2>2
  <2> QED
    BY <1>4, <2>1, <2>3
<1>7. CASE Teardown \/ Crash
  <2>1. /\ down' = down \/ down' = [down EXCEPT ![peer.session]["device"] = <<>>]
        /\ \/ up' = up
           \/ up' = [up EXCEPT ![peer.session]["device"] = <<>>]
           \/ up' = [up EXCEPT ![peer.session]["device"] =
                         Append(up[peer.session]["device"], Eof)]
    BY <1>7 DEF Teardown, Crash
  <2>2. PICK e : e = Append(up[peer.session]["device"], Eof)
    OBVIOUS
  <2>3. \/ up' = up
        \/ up' = [up EXCEPT ![peer.session]["device"] = <<>>]
        \/ up' = [up EXCEPT ![peer.session]["device"] = e]
    BY <2>1, <2>2
  <2> QED
    BY <1>3, <1>4, <2>1, <2>3
<1> QED
  BY <1>2, <1>3, <1>5, <1>6, <1>7, PhoneSteps

-----------------------------------------------------------------------------
(* The browser's own.                                                      *)

LEMMA ClosingFrames ==
  ASSUME NEW m \in Frames
  PROVE  m.type = "closed" => m = Closed
<1>1. CASE m \in [type : {"transport.state", "binary", "start", "closed", "eof"}]
  BY <1>1 DEF Closed
<1>2. CASE m \notin [type : {"transport.state", "binary", "start", "closed", "eof"}]
  <2>1. \/ m \in [type : {"hello"}, version : {1, 2}]
        \/ m \in [type : {"signal"}, kind : SignalKinds, seq : Nat]
        \/ m \in [type : {"state"}, state : {"ready", "failed"}, seq : Nat]
        \/ m \in [type : {"ready"}, transport : {"relay", "p2p"}]
        \/ m \in [type : {"transport"}, phase : {"recovering", "ready"}]
    BY <1>2 DEF Frames
  <2>2. m.type \in {"hello", "signal", "state", "ready", "transport"}
    BY <2>1
  <2> QED
    BY <2>2
<1> QED
  BY <1>1, <1>2

\* A frame it sends that is neither the first nor the last.
LEMMA AttachedSaid ==
  ASSUME NEW l, NEW x, NEW b, NEW u \in Seq(Frames), NEW d, NEW m \in Frames,
         Attached(l, x, u, d), x.state = "open", b.state = "open", m.type # "hello"
  PROVE  Attached(l, b, u \o <<m>>, d)
<1>1. <<m>> \in Seq(Frames) /\ ~HasHello(<<m>>)
  BY OneFrame
<1>2. HelloFirst(u \o <<m>>) /\ (HasHello(u \o <<m>>) <=> HasHello(u))
  BY <1>1, HelloSent, ConcatKinds DEF Attached
<1> QED
  BY <1>2 DEF Attached

LEMMA ConnectsView ==
  ASSUME NEW l, NEW x, NEW b, NEW ms \in Seq(Frames), NEW u \in Seq(Frames), NEW d,
         Connects(x, b, ms), View(l, x, u, d)
  PROVE  View(l, b, u \o ms, d)
<1>1. /\ x.state = "idle" /\ b.state = "open" /\ SameView(x, b)
      /\ \E n \in {1, 2} : ms = <<Hello(n)>>
  BY DEF Connects
<1>2. u = <<>> /\ "controller" \notin l.bound /\ ~Holds(d, Eof)
      /\ (Holds(d, Closed) => ~l.executing)
  BY <1>1 DEF View, Attached
<1>3. HelloFirst(u \o ms)
  BY <1>1, <1>2, HelloSent DEF View, Attached
<1>4. Attached(l, b, u \o ms, d)
  BY <1>1, <1>2, <1>3 DEF Attached
<1>5. Steered(l, x, u, d) /\ ~HasState(u, "failed")
  BY <1>1, <1>2, OneFrame DEF View
<1>6. Steered(l, b, u \o ms, d)
  BY <1>1, <1>5 DEF Steered, SameView
<1> QED
  BY <1>4, <1>6 DEF View

LEMMA LeavesView ==
  ASSUME NEW l, NEW x, NEW b, NEW ms \in Seq(Frames), NEW u \in Seq(Frames), NEW d,
         Leaves(x, b, ms), View(l, x, u, d)
  PROVE  View(l, b, u \o ms, <<>>)
<1>1. x.state = "open" /\ b.state = "gone" /\ ms = <<Eof>>
  BY DEF Leaves
<1>2. ~HasHello(ms) /\ Holds(ms, Eof) /\ \A m : ~Holds(<<>>, m)
  BY <1>1, OneFrame, ShortHolds, FrameTypes
<1>3. /\ HelloFirst(u \o ms) /\ (HasHello(u \o ms) <=> HasHello(u))
      /\ Holds(u \o ms, Eof)
  BY <1>2, HelloSent, ConcatKinds, ConcatHolds DEF View, Attached
<1> QED
  BY <1>1, <1>2, <1>3 DEF View, Attached

LEMMA HearsSteered ==
  ASSUME NEW l, NEW x, NEW b, NEW u, NEW d \in Seq(Frames), d # <<>>,
         Hears(x, b, Head(d)), Steered(l, x, u, d)
  PROVE  Steered(l, b, u, Tail(d))
<1> DEFINE m == Head(d)
           w == Tail(d)
<1>1. m \in Frames /\ Holds(d, m)
  BY TailAt DEF Holds
<1>2. /\ b.report = x.report
      /\ b.started = (IF m.type = "start" THEN TRUE ELSE x.started)
      /\ b.selected = CASE m.type = "ready" ->
                             IF m.transport = "p2p" /\ x.report = "failed"
                               THEN "none" ELSE m.transport
                        [] m.type = "transport" ->
                             IF m.phase = "ready" THEN "relay" ELSE "none"
                        [] OTHER -> x.selected
  BY DEF Hears
<1>3. /\ Guided(w) => Guided(d)
      /\ Guides(m) => Guided(d)
      /\ OnlyP2P(d) => OnlyP2P(w) /\ (Guides(m) => m = Ready("p2p"))
      /\ ToTheRelay(d) => ToTheRelay(w) \/ (m \in ToTransport /\ ~Guided(w))
  BY TailGuided
<1>4. \A n : /\ Holds(w, n) => Holds(d, n)
             /\ Holds(d, n) => m = n \/ Holds(w, n)
  BY TailHolds
<1> HIDE DEF m, w
<1>5. m.type = "start" => m = Start
  BY <1>1, FrameIs
<1>6. /\ ~Guides(m) => b.selected = x.selected
      /\ m = Ready("p2p") => b.selected = "p2p" \/ b.report = "failed"
      /\ m \in ToTransport => b.selected = "relay"
  <2>1. ~Guides(m) => b.selected = x.selected
    BY <1>2 DEF Guides
  <2>2. ASSUME m = Ready("p2p") PROVE b.selected = "p2p" \/ b.report = "failed"
    <3>1. m.type = "ready" /\ m.transport = "p2p"
      BY <2>2, FrameTypes
    <3> QED
      BY <1>2, <3>1
  <2>3. ASSUME m = Ready("relay") PROVE b.selected = "relay"
    <3>1. m.type = "ready" /\ m.transport = "relay"
      BY <2>3, FrameTypes
    <3> QED
      BY <1>2, <3>1
  <2>4. ASSUME m = Transport("ready") PROVE b.selected = "relay"
    <3>1. m.type = "transport" /\ m.phase = "ready"
      BY <2>4, FrameTypes
    <3> QED
      BY <1>2, <3>1
  <2> QED
    BY <2>1, <2>2, <2>3, <2>4 DEF ToTransport
<1>7. Unpaired(l) => ~b.started /\ b.report = "none" /\ ~Holds(w, Start)
  <2> SUFFICES ASSUME Unpaired(l)
               PROVE  ~b.started /\ b.report = "none" /\ ~Holds(w, Start)
    OBVIOUS
  <2>1. ~x.started /\ x.report = "none" /\ ~Holds(d, Start)
    BY DEF Steered
  <2>2. m.type # "start"
    BY <1>1, <1>5, <2>1
  <2> QED
    BY <1>2, <1>4, <2>1, <2>2
<1>8. Unpaired(l) \/ l.state = "SELECTING_TRANSPORT" =>
        b.selected = "none" /\ ~Guided(w)
  BY <1>3, <1>6 DEF Steered
<1>9. (l.state = "SELECTING_TRANSPORT" \/ OnP2P(l)) /\ b.report = "failed" =>
        HasState(u, "failed")
  BY <1>2 DEF Steered
<1>10. ASSUME OnP2P(l)
       PROVE  /\ b.selected = "p2p" \/ Holds(w, Ready("p2p")) \/ b.report = "failed"
              /\ OnlyP2P(w)
  <2>1. /\ x.selected = "p2p" \/ Holds(d, Ready("p2p")) \/ x.report = "failed"
        /\ OnlyP2P(d)
    BY <1>10 DEF Steered
  <2>2. CASE m = Ready("p2p")
    BY <1>3, <1>6, <2>1, <2>2
  <2>3. CASE m # Ready("p2p")
    <3>1. b.selected = x.selected /\ OnlyP2P(w)
      BY <1>3, <1>6, <2>1, <2>3
    <3> QED
      BY <1>2, <1>4, <2>1, <2>3, <3>1
  <2> QED
    BY <2>2, <2>3
<1>11. ASSUME OnTheRelay(l)
       PROVE  ToTheRelay(w) \/ (b.selected = "relay" /\ ~Guided(w))
  <2>1. ToTheRelay(d) \/ (x.selected = "relay" /\ ~Guided(d))
    BY <1>11 DEF Steered
  <2> QED
    BY <1>3, <1>6, <2>1
<1> QED
  BY <1>7, <1>8, <1>9, <1>10, <1>11 DEF Steered, w

LEMMA HearsView ==
  ASSUME NEW l, NEW x, NEW b, NEW u, NEW d \in Seq(Frames), d # <<>>,
         Hears(x, b, Head(d)), View(l, x, u, d)
  PROVE  View(l, b, u, Tail(d))
<1> DEFINE m == Head(d)
           w == Tail(d)
<1>1. m \in Frames /\ Holds(d, m)
  BY TailAt DEF Holds
<1>2. /\ x.state = "open"
      /\ b.state = (IF m.type \in {"closed", "eof"} THEN "gone" ELSE "open")
  BY DEF Hears
<1>3. \A n : Holds(w, n) => Holds(d, n)
  BY TailHolds
<1>4. Attached(l, x, u, d)
  BY DEF View
<1> HIDE DEF m, w
<1>5. b.state = "gone" => m = Closed \/ m = Eof
  BY <1>1, <1>2, FrameIs, ClosingFrames
<1>6. Attached(l, b, u, w)
  <2>1. b.state # "idle"
    BY <1>2
  <2>2. ASSUME HasHello(u) \/ "controller" \in l.bound, b.state = "gone", l.executing
        PROVE  FALSE
    BY <1>1, <1>4, <1>5, <2>2 DEF Attached
  <2> QED
    BY <1>3, <1>4, <2>1, <2>2 DEF Attached
<1>7. Steered(l, x, u, d)
  BY <1>2 DEF View
<1>8. Steered(l, b, u, w)
  BY <1>7, HearsSteered DEF w
<1> QED
  BY <1>6, <1>8 DEF View, w

LEMMA SaysView ==
  ASSUME NEW l, NEW x, NEW b, NEW ms \in Seq(Frames), NEW u \in Seq(Frames),
         NEW d \in Seq(Frames),
         \/ Speaks(x, b, ms) \/ Reports(x, b, ms)
         \/ GivesUp(x, b, ms) \/ (Controls(x, b, ms) /\ b.state = "open"),
         View(l, x, u, d)
  PROVE  View(l, b, u \o ms, d)
<1>1. PICK m : ms = <<m>> /\ m \in Frames /\ m.type # "hello"
               /\ (GivesUp(x, b, ms) => m.type = "state" /\ m.state = "failed")
  <2>1. ASSUME NEW k \in SignalKinds, NEW n \in Nat
        PROVE  /\ Signal(k, n) \in Frames /\ Signal(k, n).type = "signal"
    BY FramesBuilt, FrameTypes
  <2>2. ASSUME NEW y \in {"ready", "failed"}, NEW n \in Nat
        PROVE  /\ P2PState(y, n) \in Frames /\ P2PState(y, n).type = "state"
               /\ P2PState(y, n).state = y
    BY FramesBuilt, FrameTypes
  <2>3. Binary \in Frames /\ Binary.type = "binary"
    BY FramesBuilt, FrameTypes
  <2>4. CASE GivesUp(x, b, ms)
    <3>1. PICK n \in Nat : ms = <<P2PState("failed", n)>>
      BY <2>4 DEF GivesUp
    <3> QED
      BY <2>2, <3>1
  <2>5. CASE ~GivesUp(x, b, ms)
    <3>1. CASE Speaks(x, b, ms)
      <4>1. PICK k \in SignalKinds, n \in Nat : ms = <<Signal(k, n)>>
        BY <3>1 DEF Speaks
      <4> QED
        BY <2>1, <2>5, <4>1
    <3>2. CASE Reports(x, b, ms)
      <4>1. PICK n \in Nat : ms = <<P2PState("ready", n)>>
        BY <3>2 DEF Reports
      <4> QED
        BY <2>2, <2>5, <4>1
    <3>3. CASE Controls(x, b, ms)
      BY <2>3, <2>5, <3>3 DEF Controls
    <3> QED
      BY <2>5, <3>1, <3>2, <3>3
  <2> QED
    BY <2>4, <2>5
<1>2. x.state = "open" /\ b.state = "open"
  BY DEF Speaks, Reports, GivesUp, Controls
<1>3. Attached(l, b, u \o ms, d)
  BY <1>1, <1>2, AttachedSaid DEF View
<1>4. Steered(l, x, u, d)
  BY <1>2 DEF View
<1>5. /\ HasState(u, "failed") => HasState(u \o ms, "failed")
      /\ GivesUp(x, b, ms) => HasState(u \o ms, "failed")
  <2>1. \A y : HasState(u \o ms, y) <=> HasState(u, y) \/ HasState(ms, y)
    BY ConcatKinds
  <2>2. GivesUp(x, b, ms) => HasState(ms, "failed")
    BY <1>1, OneFrame
  <2> QED
    BY <2>1, <2>2
<1>6. Steered(l, b, u \o ms, d)
  <2>1. CASE Speaks(x, b, ms) \/ Controls(x, b, ms)
    <3>1. SameView(x, b)
      BY <2>1 DEF Speaks, Controls, SameView
    <3> QED
      BY <1>4, <1>5, <3>1 DEF Steered, SameView
  <2>2. CASE Reports(x, b, ms)
    <3>1. /\ x.started /\ x.selected = "none" /\ x.report = "none"
          /\ b.selected = "none" /\ b.report = "ready"
      BY <2>2 DEF Reports
    <3> QED
      BY <1>4, <3>1 DEF Steered
  <2>3. CASE GivesUp(x, b, ms)
    <3>1. /\ x.started /\ x.selected # "relay"
          /\ b.selected = "none" /\ b.report = "failed"
      BY <2>3 DEF GivesUp
    <3> QED
      BY <1>4, <1>5, <2>3, <3>1 DEF Steered
  <2> QED
    BY <2>1, <2>2, <2>3
<1> QED
  BY <1>3, <1>6 DEF View

LEMMA SetOwn ==
  ASSUME NEW c \in Channels, NEW s \in Sessions, NEW e
  PROVE  [c EXCEPT ![s]["controller"] = e][s]["controller"] = e
<1>1. "controller" \in Roles
  BY DEF Roles
<1>2. c[s] \in [Roles -> Seq(Frames)]
  BY DEF Channels
<1> QED
  BY <1>1, <1>2 DEF Channels

LEMMA BrowserOwnView ==
  ASSUME TypeOK, NEW s \in Sessions, BrowserMove(s), ViewOf(s)
  PROVE  ViewNow(s)
<1> DEFINE l == lease[s]
           x == browser[s]
           u == up[s]["controller"]
           d == down[s]["controller"]
<1>1. PICK b \in Browser, ms \in Seq(Frames) :
        /\ BrowserSets(s, b, ms)
        /\ \/ Connects(x, b, ms) /\ down' = down
           \/ /\ Leaves(x, b, ms)
              /\ down' = [down EXCEPT ![s]["controller"] = <<>>]
           \/ /\ Hears(x, b, Head(d)) /\ ms = <<>> /\ d # <<>>
              /\ down' = [down EXCEPT ![s]["controller"] = Tail(d)]
           \/ /\ \/ Speaks(x, b, ms) \/ Reports(x, b, ms)
                 \/ GivesUp(x, b, ms) \/ Controls(x, b, ms)
              /\ down' = down
           \/ b = x /\ ms = <<>> /\ down' = down
  BY DEF BrowserMove
<1>2. /\ up \in Channels /\ down \in Channels /\ "controller" \in Roles
      /\ browser \in [Sessions -> Browser]
  BY DEF TypeOK, Roles
<1>3. /\ browser' = [browser EXCEPT ![s] = b]
      /\ up' = [up EXCEPT ![s]["controller"] = u \o ms] /\ lease' = lease
  BY <1>1 DEF BrowserSets
<1>4. u \in Seq(Frames) /\ d \in Seq(Frames) /\ View(l, x, u, d)
  BY <1>2, ChannelTyped DEF ViewOf
<1>5. browser'[s] = b /\ lease'[s] = l
  BY <1>2, <1>3
<1>6. up'[s]["controller"] = u \o ms
  <2>1. PICK q : q = u \o ms
    OBVIOUS
  <2>2. up' = [up EXCEPT ![s]["controller"] = q]
    BY <1>3, <2>1
  <2>3. [up EXCEPT ![s]["controller"] = q][s]["controller"] = q
    <3>1. up \in Channels
      BY <1>2
    <3> HIDE <1>2, <1>3, <2>2
    <3> QED
      BY <3>1, SetOwn
  <2> QED
    BY <2>1, <2>2, <2>3
<1>7. ASSUME NEW e, down' = [down EXCEPT ![s]["controller"] = e]
      PROVE  down'[s]["controller"] = e
  <2>1. [down EXCEPT ![s]["controller"] = e][s]["controller"] = e
    <3>1. down \in Channels
      BY <1>2
    <3> HIDE <1>2, <1>3, <1>7
    <3> QED
      BY <3>1, SetOwn
  <2> QED
    BY <1>7, <2>1
<1> SUFFICES View(l, b, u \o ms, down'[s]["controller"])
  BY <1>5, <1>6 DEF ViewNow
<1>8. /\ Connects(x, b, ms) => View(l, b, u \o ms, d)
      /\ Leaves(x, b, ms) => View(l, b, u \o ms, <<>>)
      /\ Hears(x, b, Head(d)) /\ d # <<>> => View(l, b, u, Tail(d))
      /\ Speaks(x, b, ms) \/ Reports(x, b, ms) \/ GivesUp(x, b, ms)
           => View(l, b, u \o ms, d)
      /\ Controls(x, b, ms) => View(l, b, u \o ms, d)
  <2> HIDE DEF l, x, u, d
  <2>1. Connects(x, b, ms) => View(l, b, u \o ms, d)
    BY <1>4, ConnectsView
  <2>2. Leaves(x, b, ms) => View(l, b, u \o ms, <<>>)
    BY <1>4, LeavesView
  <2>3. Hears(x, b, Head(d)) /\ d # <<>> => View(l, b, u, Tail(d))
    BY <1>4, HearsView
  <2>4. Speaks(x, b, ms) \/ Reports(x, b, ms) \/ GivesUp(x, b, ms)
          => View(l, b, u \o ms, d)
    BY <1>4, SaysView
  <2>5. Controls(x, b, ms) => View(l, b, u \o ms, d)
    <3>1. Controls(x, b, ms) => b.state = "open"
      BY DEF Controls
    <3> QED
      BY <1>4, <3>1, SaysView
  <2> QED
    BY <2>1, <2>2, <2>3, <2>4, <2>5
<1>9. ms = <<>> => u \o ms = u
  BY <1>4
<1>10. down' = down => down'[s]["controller"] = d
  OBVIOUS
<1> HIDE DEF l, x, u, d
<1> QED
  BY <1>1, <1>4, <1>7, <1>8, <1>9, <1>10

LEMMA BrowserOtherView ==
  ASSUME TypeOK, NEW s \in Sessions, BrowserMove(s), NEW t \in Sessions, t # s,
         ViewOf(t)
  PROVE  ViewNow(t)
<1>1. PICK b \in Browser, ms \in Seq(Frames) :
        /\ BrowserSets(s, b, ms)
        /\ \/ down' = down
           \/ down' = [down EXCEPT ![s]["controller"] = <<>>]
           \/ down' = [down EXCEPT ![s]["controller"] =
                           Tail(down[s]["controller"])]
  BY DEF BrowserMove
<1>2. /\ up \in Channels /\ down \in Channels
      /\ browser \in [Sessions -> Browser]
  BY DEF TypeOK
<1>3. /\ browser' = [browser EXCEPT ![s] = b]
      /\ up' = [up EXCEPT ![s]["controller"] = up[s]["controller"] \o ms]
      /\ lease' = lease
  BY <1>1 DEF BrowserSets
<1>4. browser'[t] = browser[t] /\ lease'[t] = lease[t]
  BY <1>2, <1>3
<1>5. up'[t] = up[t]
  BY <1>2, <1>3, SetAlone
<1>6. ASSUME NEW e, down' = [down EXCEPT ![s]["controller"] = e]
      PROVE  down'[t] = down[t]
  BY <1>2, <1>6, SetAlone
<1>7. down'[t] = down[t]
  <2>1. PICK e : e = Tail(down[s]["controller"])
    OBVIOUS
  <2>2. \/ down' = down
        \/ down' = [down EXCEPT ![s]["controller"] = <<>>]
        \/ down' = [down EXCEPT ![s]["controller"] = e]
    BY <1>1, <2>1
  <2> QED
    BY <1>6, <2>2
<1> QED
  BY <1>4, <1>5, <1>7 DEF ViewOf, ViewNow

LEMMA StepView ==
  ASSUME IInv, RelayOK, ViewOK, [Next]_vars
  PROVE  ViewOK'
<1>1. SUFFICES ASSUME NEW t \in Sessions PROVE ViewNow(t)
  BY ViewPrimed DEF ViewOK
<1>2. ServerInv /\ PhoneInv /\ TypeOK
  BY TypeParts DEF IInv, ServerInv, PhoneInv
<1>3. ViewOf(t)
  BY DEF ViewOK
<1>4. CASE ServerStep
  <2>1. browser' = browser
    BY <1>2, <1>4, ServerMoves
  <2>2. PICK s \in Sessions : ServerMove(s)
    BY <1>2, <1>4, ServerMoves
  <2>3. CASE t = s
    BY <1>2, <1>3, <2>1, <2>2, <2>3, ServerView DEF RelayOK
  <2>4. CASE t # s
    <3>1. lease'[t] = lease[t] /\ up'[t] = up[t] /\ down'[t] = down[t]
      BY <1>2, <2>2, <2>4, ServerAlone DEF ServerInv
    <3> QED
      BY <1>3, <2>1, <3>1 DEF ViewOf, ViewNow
  <2> QED
    BY <2>3, <2>4
<1>5. CASE PeerStep
  <2>1. browser' = browser /\ lease' = lease
    BY <1>2, <1>5, PhoneKeeps DEF PeerStep
  <2>2. /\ up'[t]["controller"] = up[t]["controller"]
        /\ down'[t]["controller"] = down[t]["controller"]
    BY <1>2, <1>5, PhoneAside
  <2> QED
    BY <1>3, <2>1, <2>2 DEF ViewOf, ViewNow
<1>6. ASSUME NEW s \in Sessions, BrowserStep(s) PROVE ViewNow(t)
  <2>1. BrowserMove(s)
    BY <1>2, <1>6, BrowserMoves
  <2> QED
    BY <1>2, <1>3, <2>1, BrowserOwnView, BrowserOtherView
<1>7. CASE UNCHANGED vars
  <2>1. UNCHANGED <<lease, up, down, browser>>
    BY <1>7 DEF vars, relayVars
  <2> QED
    BY <1>3, <2>1 DEF ViewOf, ViewNow
<1> QED
  BY <1>4, <1>5, <1>6, <1>7 DEF Next

LEMMA InitView == Init => ViewOK
<1>1. SUFFICES ASSUME Init, NEW t \in Sessions PROVE ViewOf(t)
  BY DEF ViewOK
<1>2. /\ lease[t].state = "NONE" /\ lease[t].bound = {}
      /\ up[t]["controller"] = <<>> /\ down[t]["controller"] = <<>>
      /\ browser[t].state = "idle" /\ browser[t].selected = "none"
      /\ browser[t].report = "none" /\ ~browser[t].started
  BY <1>1 DEF Init, RelayInit, NoLease, NoMessages, Roles
<1>3. /\ \A m : ~Holds(<<>>, m)
      /\ ~HasHello(<<>>) /\ HelloFirst(<<>>) /\ ~Guided(<<>>)
  BY ShortHolds DEF HasHello, HelloFirst, Guided
<1> QED
  BY <1>2, <1>3 DEF ViewOf, View, Attached, Steered, Unpaired, OnP2P, OnTheRelay

\* What the invariants say of a lease with nothing in flight.
LEMMA QuietAgrees ==
  ASSUME NEW s \in Sessions, IInv, SocketOf(s), RelayOf(s), LinkOf(s), ViewOf(s),
         lease[s].executing, lease[s].state = "ACTIVE", s \notin halfOpen, Quiet(s)
  PROVE  /\ browser[s].selected = lease[s].selected
         /\ peer.session = s
         /\ ~peer.closed => peer.selected = lease[s].selected
<1>1. /\ up[s]["device"] = <<>> /\ up[s]["controller"] = <<>>
      /\ down[s]["device"] = <<>> /\ down[s]["controller"] = <<>>
      /\ "device" \in Roles /\ "controller" \in Roles
  BY DEF Quiet, Roles
<1>2. lease[s].bound = Roles /\ (OnP2P(lease[s]) \/ OnTheRelay(lease[s]))
  <2>1. lease[s].selected \in {"none", "relay", "p2p"}
    BY DEF IInv, TypeOK, Lease, Transports
  <2> QED
    BY <2>1 DEF RelayOf, Shape, OnP2P, OnTheRelay
<1>3. /\ \A m : ~Holds(<<>>, m)
      /\ \A x : ~HasState(<<>>, x)
      /\ ~Guided(<<>>) /\ ~ToTheRelay(<<>>)
  <2>1. ~Guided(<<>>) /\ ~ToTheRelay(<<>>)
    BY DEF Guided, ToTheRelay
  <2>2. \A m : ~Holds(<<>>, m)
    BY ShortHolds
  <2>3. \A x : ~HasState(<<>>, x)
    BY DEF HasState
  <2> QED
    BY <2>1, <2>2, <2>3
<1>4. browser[s].selected = lease[s].selected
  <2>1. View(lease[s], browser[s], <<>>, <<>>)
    BY <1>1 DEF ViewOf
  <2>2. browser[s].state # "gone"
    BY <1>1, <1>2, <1>3, <2>1 DEF View, Attached
  <2>3. Steered(lease[s], browser[s], <<>>, <<>>)
    BY <2>1, <2>2 DEF View
  <2>4. OnP2P(lease[s]) => browser[s].selected = "p2p"
    BY <1>3, <2>3 DEF Steered
  <2>5. OnTheRelay(lease[s]) => browser[s].selected = "relay"
    BY <1>3, <2>3 DEF Steered
  <2> QED
    BY <1>2, <2>4, <2>5 DEF OnP2P, OnTheRelay
<1>5. DeviceBound(s)
  BY <1>1, <1>2 DEF DeviceBound
<1>6. peer.session = s
  BY <1>1, <1>3, <1>5 DEF SocketOf, Served
<1>7. ASSUME ~peer.closed PROVE peer.selected = lease[s].selected
  <2>1. Link(lease[s], DeviceBound(s), peer, <<>>, <<>>)
    BY <1>1, <1>6, <1>7 DEF LinkOf
  <2>2. Agreed(lease[s], peer, <<>>, <<>>) /\ PhoneShape(peer)
    BY <1>5, <2>1 DEF Link
  <2>3. OnTheRelay(lease[s]) => peer.selected = "relay"
    BY <1>3, <2>2 DEF Agreed
  <2>4. ASSUME OnP2P(lease[s]) PROVE peer.selected = "p2p"
    <3>1. ~peer.failureReported
      BY <1>3, <2>2, <2>4 DEF Agreed
    <3>2. ~peer.recovering /\ ~peer.awaiting
      BY <2>2, <3>1 DEF PhoneShape
    <3> QED
      BY <1>3, <2>2, <2>4, <3>2 DEF Agreed
  <2> QED
    BY <1>2, <2>3, <2>4 DEF OnP2P, OnTheRelay
<1> QED
  BY <1>4, <1>6, <1>7

\* Once nothing is in flight on the sockets of an active lease whose device has
\* not vanished, the server (session.selectedTransport), the browser and the
\* phone, unless it is just closing, carry the data the same way: whoever gave
\* P2P up first, and however that crossed the choice, the timeout or the
\* recovery, all three end up on the same transport.
THEOREM AllAgree == Spec => []QuietAgreement
<1>1. Init => IInv /\ SocketOK /\ RelayOK /\ LinkOK /\ NoTransportFault /\ ViewOK
  BY InitIInv, InitSocket, InitRelay, InitLink, InitView
<1>2. IInv /\ SocketOK /\ RelayOK /\ LinkOK /\ NoTransportFault /\ ViewOK /\ [Next]_vars
        => (IInv /\ SocketOK /\ RelayOK /\ LinkOK /\ NoTransportFault /\ ViewOK)'
  BY StepIInv, StepSocket, StepRelay, StepLink, StepView
<1>3. IInv /\ SocketOK /\ RelayOK /\ LinkOK /\ ViewOK => QuietAgreement
  BY QuietAgrees DEF QuietAgreement, SocketOK, RelayOK, LinkOK, ViewOK
<1> QED
  BY <1>1, <1>2, <1>3, PTL DEF Spec
=============================================================================
