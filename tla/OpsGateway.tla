----------------------------- MODULE OpsGateway -----------------------------
(***************************************************************************)
(* The server's half of the maintenance channel (device-ops.service.ts),   *)
(* for one device: the tasks HTTP clients create and poll, the session     *)
(* they share, and the WebSocket the device opens for it.  A socket is a   *)
(* pair of FIFO channels whose two ends close one after the other.  Time   *)
(* is left to the scheduler: a deadline may pass at any moment.            *)
(***************************************************************************)
EXTENDS Integers, Sequences, FiniteSets, SequencesExt, OpsExecutor

CONSTANTS
  Sessions, NoSession, Sockets, NoSocket,
  Ops,                 \* operations clients may ask for, task by task
  Advertised,          \* those the connected phone knows
  TaskCapacity,        \* DEVICE_OPS_MAX_TASKS
  SessionCapacity,     \* DEVICE_OPS_MAX_SESSION_TASKS
  ArtifactCapacity     \* DEVICE_OPS_MAX_STORED_ARTIFACT_BYTES, in screenshots

ASSUME GatewayAssumption ==
  /\ NoSession \notin Sessions /\ NoSocket \notin Sockets
  /\ IsFiniteSet(Tasks)
  /\ Ops \in [Tasks -> SUBSET Operations]
  /\ TaskCapacity \in Nat /\ SessionCapacity \in Nat /\ ArtifactCapacity \in Nat

VARIABLES
  session,   \* the device's session: sessionsByDevice and sessionsById
  socket,    \* session.socket
  tasks,     \* tasks
  finished,  \* the tasks retained that have ended, the oldest first
  stored,    \* storedArtifactBytes
  wire,      \* each socket: its two ends and the session its hello named
  up, down,  \* frames on their way to the server and to the phone
  invites    \* OPEN_SESSION commands MQTT may deliver, once or again

gatewayVars ==
  <<session, socket, tasks, finished, stored, wire, up, down, invites>>

Terminal == {"SUCCESS", "FAILURE", "TIMEOUT", "REJECTED"}
Task ==
  [status : {"none", "EXECUTING", "gone"} \cup Terminal,
   session : Sessions \cup {NoSession}, op : {"none"} \cup Operations,
   publishing : BOOLEAN, sentOn : Sockets \cup {NoSocket},
   artifact : 0..MaxStarts]
NoTask == [status |-> "none", session |-> NoSession, op |-> "none",
           publishing |-> FALSE, sentOn |-> NoSocket, artifact |-> 0]

\* "unbound": accepted, its hello not yet received.
Wire == [server : {"none", "unbound", "open", "closing", "closed"},
         phone : {"none", "open", "closing", "closed"},
         session : Sessions \cup {NoSession}]

Hello(s) == [type |-> "hello", session |-> s]
Request(t, op) == [type |-> "request", task |-> t, op |-> op]
Artifact(j) == [type |-> "artifact", job |-> j]
Response(t, status, n) ==
  [type |-> "response", task |-> t, status |-> status, artifact |-> n]
Unreadable == [type |-> "unreadable"]   \* one the server's parsers refuse
Close == [type |-> "close"]
Eof == [type |-> "eof"]                 \* the close frame of the WebSocket

UpFrames ==
  [type : {"hello"}, session : Sessions]
  \cup [type : {"artifact"}, job : Jobs]
  \cup [type : {"response"}, task : Tasks, status : Terminal, artifact : 0..MaxStarts]
  \cup [type : {"unreadable", "close"}]
DownFrames == [type : {"request"}, task : Tasks, op : Operations] \cup [type : {"eof"}]

GatewayInit ==
  /\ session = NoSession /\ socket = NoSocket
  /\ tasks = [t \in Tasks |-> NoTask]
  /\ finished = <<>> /\ stored = 0
  /\ wire = [k \in Sockets |-> [server |-> "none", phone |-> "none",
                                session |-> NoSession]]
  /\ up = [k \in Sockets |-> <<>>] /\ down = [k \in Sockets |-> <<>>]
  /\ invites = {}

Executing(s) == {t \in Tasks : tasks[t].status = "EXECUTING" /\ tasks[t].session = s}
Retained == {t \in Tasks : tasks[t].status \notin {"none", "gone"}}

-----------------------------------------------------------------------------
(* finishTask, sendTask, expireSession and cleanupTasks.                   *)

\* Every change of the tasks: those that end now are the youngest to end.
Record(T) ==
  /\ tasks' = T
  /\ finished' = finished \o SetToSeq({t \in Tasks :
       tasks[t].status = "EXECUTING" /\ T[t].status \in Terminal})

Finish(ts, status) ==
  [t \in Tasks |-> IF t \in ts /\ tasks[t].status = "EXECUTING"
                     THEN [tasks[t] EXCEPT !.status = status] ELSE tasks[t]]

\* What is written to a connection the phone has lost goes nowhere.
Deliver(k, ms) ==
  down' = IF wire[k].phone \in {"open", "closing"}
            THEN [down EXCEPT ![k] = @ \o ms] ELSE down

\* sendTask for each of ts, on socket k: once per socket, and only what the
\* phone has advertised.
Send(k, ts, T) ==
  LET due == {t \in ts : T[t].status = "EXECUTING" /\ T[t].sentOn # k}
      known == {t \in due : T[t].op \in Advertised}
  IN /\ Record([t \in Tasks |->
          CASE t \in known -> [T[t] EXCEPT !.sentOn = k]
            [] t \in due \ known -> [T[t] EXCEPT !.status = "REJECTED"]
            [] OTHER -> T[t]])
     /\ Deliver(k, [i \in 1..Cardinality(known) |->
                     LET t == SetToSeq(known)[i] IN Request(t, T[t].op)])

\* socket.close() of the server's end.
ServerCloses(k) ==
  /\ wire' = [wire EXCEPT ![k].server = "closing"]
  /\ IF wire[k].server = "closing" THEN UNCHANGED down ELSE Deliver(k, <<Eof>>)

ExpireSession ==
  /\ session' = NoSession /\ socket' = NoSocket
  /\ Record(Finish(Executing(session), "TIMEOUT"))
  /\ IF socket = NoSocket THEN UNCHANGED <<wire, down>> ELSE ServerCloses(socket)

\* Seeded defect: each task that goes gives back the bytes of a screenshot.
CleanupOfAny(n) ==
  LET m == IF Cardinality(Retained) >= TaskCapacity /\ n = 0 /\ finished # <<>> THEN 1 ELSE n
      gone == {finished[i] : i \in 1..m}
  IN [kept |-> [t \in Tasks |->
                  IF t \in gone THEN [tasks[t] EXCEPT !.status = "gone", !.artifact = 0]
                                ELSE tasks[t]],
      left |-> SubSeq(finished, m + 1, Len(finished)),
      bytes |-> stored - m]

\* The n oldest results have been kept for ten minutes; the oldest others
\* go while the tasks are too many.
Cleanup(n) ==
  LET excess == Cardinality(Retained) - TaskCapacity + 1
      m == IF excess <= n THEN n
           ELSE IF excess <= Len(finished) THEN excess ELSE Len(finished)
      gone == {finished[i] : i \in 1..m}
  IN [kept |-> [t \in Tasks |->
                  IF t \in gone THEN [tasks[t] EXCEPT !.status = "gone", !.artifact = 0]
                                ELSE tasks[t]],
      left |-> SubSeq(finished, m + 1, Len(finished)),
      bytes |-> stored - Cardinality({t \in gone : tasks[t].artifact # 0})]

-----------------------------------------------------------------------------
(* The HTTP client.                                                        *)

\* sessionFor: the session the device has, unless it is crowded or about to
\* expire, or a new one.
SessionFor ==
  IF session = NoSession THEN Sessions \ invites
  ELSE {s \in {session} : Cardinality(Executing(s)) < SessionCapacity}

\* createOperation, up to the await of the publication.  A request refused
\* has no effect but the cleanup, which is GetTask.
CreateOperation(t, op) ==
  \E n \in 0..Len(finished), s \in SessionFor :
    LET rest == Cleanup(n)
        new == [NoTask EXCEPT !.status = "EXECUTING", !.op = op, !.publishing = TRUE,
                              !.session = s]
    IN /\ tasks[t].status = "none"
       /\ Cardinality(Retained) - (Len(finished) - Len(rest.left)) < TaskCapacity
       /\ session' = s /\ invites' = invites \cup {s}
       /\ tasks' = [rest.kept EXCEPT ![t] = new]
       /\ finished' = rest.left /\ stored' = rest.bytes
       /\ UNCHANGED <<socket, wire, up, down>>

\* The broker has acknowledged the command: sendTask, if there is a socket.
PublishAcked(t) ==
  LET T == [tasks EXCEPT ![t].publishing = FALSE]
  IN /\ tasks[t].publishing
     /\ IF /\ socket # NoSocket /\ session = tasks[t].session
           /\ wire[socket].server = "open"
          THEN Send(socket, {t}, T)
          ELSE tasks' = T /\ UNCHANGED <<finished, down>>
  /\ UNCHANGED <<session, socket, stored, wire, up, invites>>

PublishFails(t) ==
  /\ tasks[t].publishing /\ Trouble
  /\ Record([Finish({t}, "FAILURE") EXCEPT ![t].publishing = FALSE])
  /\ UNCHANGED <<session, socket, stored, wire, up, down, invites>>

\* getTask: a poll forgets old results.
GetTask ==
  \E n \in 0..Len(finished) :
    LET rest == Cleanup(n)
    IN /\ rest.left # finished
       /\ tasks' = rest.kept /\ finished' = rest.left /\ stored' = rest.bytes
       /\ UNCHANGED <<session, socket, wire, up, down, invites>>

-----------------------------------------------------------------------------
(* Timers.                                                                 *)

TaskTimesOut(t) ==
  /\ tasks[t].status = "EXECUTING" /\ Trouble
  /\ Record(Finish({t}, "TIMEOUT"))
  /\ UNCHANGED <<session, socket, stored, wire, up, down, invites>>

SessionExpires ==
  /\ session # NoSession /\ Trouble
  /\ ExpireSession
  /\ UNCHANGED <<stored, up, invites>>

-----------------------------------------------------------------------------
(* acceptDeviceSocket: what the device sends.                              *)

Refuse(k) ==
  /\ ServerCloses(k)
  /\ UNCHANGED <<session, socket, tasks, finished, stored>>

Ignore == UNCHANGED <<session, socket, tasks, finished, stored, wire, down>>

\* Seeded defect: only what was never sent is sent on a new socket.
BindHelloUnsentOnly(k, s) ==
  IF s # session \/ (socket # NoSocket /\ wire[socket].server = "open")
    THEN Refuse(k)
    ELSE /\ socket' = k
         /\ wire' = [wire EXCEPT ![k].session = s, ![k].server = "open"]
         /\ Send(k, {t \in Executing(s) : tasks[t].sentOn = NoSocket}, tasks)
         /\ UNCHANGED <<session, stored>>

\* bindHello: an open socket of the session is never replaced, one that is
\* closing is.
BindHello(k, s) ==
  IF s # session \/ (socket # NoSocket /\ wire[socket].server = "open")
    THEN Refuse(k)
    ELSE /\ socket' = k
         /\ wire' = [wire EXCEPT ![k].session = s, ![k].server = "open"]
         /\ Send(k, Executing(s), tasks)
         /\ UNCHANGED <<session, stored>>

Correlated(k, t) ==
  t \in Retained /\ tasks[t].session = wire[k].session

\* makeArtifactRoom: the oldest result with a screenshot loses it.
OldestArtifact ==
  LET held == {i \in 1..Len(finished) : tasks[finished[i]].artifact # 0}
  IN {finished[i] : i \in {i \in held : \A h \in held : i <= h}}

\* Seeded defect: the oldest screenshot goes and its bytes stay counted.
HandleArtifactOnTop(k, t, n) ==
  IF ~Correlated(k, t) \/ tasks[t].status # "EXECUTING" \/ tasks[t].artifact # 0
    THEN Ignore
    ELSE /\ tasks' = [i \in Tasks |->
              CASE i = t -> [tasks[i] EXCEPT !.artifact = n]
                [] stored >= ArtifactCapacity /\ i \in OldestArtifact ->
                     [tasks[i] EXCEPT !.artifact = 0]
                [] OTHER -> tasks[i]]
         /\ stored' = stored + 1
         /\ UNCHANGED <<session, socket, finished, wire, down>>

HandleArtifact(k, t, n) ==
  LET full == stored >= ArtifactCapacity
  IN IF ~Correlated(k, t) \/ (/\ tasks[t].status = "EXECUTING"
                              /\ tasks[t].artifact \notin {0, n})
       THEN Refuse(k)
     ELSE IF tasks[t].status # "EXECUTING" \/ tasks[t].artifact = n
       THEN Ignore
     ELSE /\ IF full /\ OldestArtifact = {}
               THEN Record(Finish({t}, "FAILURE")) /\ UNCHANGED stored
               ELSE /\ tasks' = [i \in Tasks |->
                         CASE i = t -> [tasks[i] EXCEPT !.artifact = n]
                           [] full /\ i \in OldestArtifact ->
                                [tasks[i] EXCEPT !.artifact = 0]
                           [] OTHER -> tasks[i]]
                    /\ stored' = IF full THEN stored ELSE stored + 1
                    /\ UNCHANGED finished
          /\ UNCHANGED <<session, socket, wire, down>>

HandleResponse(k, m) ==
  IF ~Correlated(k, m.task) THEN Refuse(k)
  ELSE /\ Record(Finish({m.task},
            IF /\ tasks[m.task].op = "capture" /\ m.status = "SUCCESS"
               /\ tasks[m.task].artifact # m.artifact
              THEN "FAILURE" ELSE m.status))
       /\ UNCHANGED <<session, socket, stored, wire, down>>

HandleClose(k) ==
  IF session = wire[k].session
    THEN ExpireSession /\ UNCHANGED stored
    ELSE Ignore

ServerReceives(k) ==
  /\ wire[k].server \in {"unbound", "open", "closing"} /\ up[k] # <<>>
  /\ up' = [up EXCEPT ![k] = Tail(@)]
  /\ LET m == Head(up[k])
     IN IF wire[k].session = NoSession
          THEN IF m.type = "hello" THEN BindHello(k, m.session) ELSE Refuse(k)
        ELSE CASE m.type = "artifact" -> HandleArtifact(k, m.job[1], m.job[2])
               [] m.type = "response" -> HandleResponse(k, m)
               [] m.type = "close" -> HandleClose(k)
               [] OTHER -> Refuse(k)
  /\ UNCHANGED invites

\* Five seconds without a hello; one that late does not arrive any more.
HelloTimesOut(k) ==
  /\ wire[k].server = "unbound" /\ Trouble
  /\ Refuse(k)
  /\ up' = [up EXCEPT ![k] = <<>>]
  /\ UNCHANGED invites

\* The close event of the server's end; what had not arrived never will.
ServerSeesClose(k) ==
  /\ wire[k].server \in {"unbound", "open", "closing"} /\ wire[k].phone = "closed"
  /\ wire' = [wire EXCEPT ![k].server = "closed"]
  /\ up' = [up EXCEPT ![k] = <<>>]
  /\ IF socket = k
       THEN /\ socket' = NoSocket
            /\ Record(Finish({t \in Executing(session) : tasks[t].sentOn = k},
                             "FAILURE"))
       ELSE UNCHANGED <<socket, tasks, finished>>
  /\ UNCHANGED <<session, stored, down, invites>>

\* All of it is in memory.
ServerRestarts ==
  /\ Trouble
  /\ session' = NoSession /\ socket' = NoSocket
  /\ tasks' = [t \in Tasks |-> IF tasks[t].status = "none" THEN tasks[t]
                               ELSE [NoTask EXCEPT !.status = "gone"]]
  /\ finished' = <<>> /\ stored' = 0
  /\ wire' = [k \in Sockets |->
       IF wire[k].server = "none" THEN wire[k] ELSE [wire[k] EXCEPT !.server = "closed"]]
  /\ up' = [k \in Sockets |-> <<>>]
  /\ down' = [k \in Sockets |->
       IF wire[k].phone = "open" THEN Append(down[k], Eof) ELSE down[k]]
  /\ UNCHANGED invites
=============================================================================
