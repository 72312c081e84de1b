---------------------------- MODULE DeviceOpsProofs ----------------------------
(***************************************************************************)
(* Safety of the maintenance channel for any tasks, sockets, sessions and  *)
(* capacities: the screenshots are accounted for, no task is left behind   *)
(* on a lost socket, a screenshot or a write runs once, and a change of    *)
(* the brightness that fails is undone.                                    *)
(***************************************************************************)
EXTENDS DeviceOps, FiniteSetTheorems, TLAPS

\* The results retained are each of a task of its own, and what is stored is what
\* the tasks still have.
BooksOf(ts, ended, bytes) ==
  /\ \A i, j \in 1..Len(ended) : ended[i] = ended[j] => i = j
  /\ \A i \in 1..Len(ended) : ts[ended[i]].status \in Terminal
  /\ \A t \in Tasks : ts[t].status \in {"none", "gone"} => ts[t].artifact = 0
  /\ bytes = Cardinality({t \in Tasks : ts[t].artifact # 0})
  /\ bytes <= ArtifactCapacity

Books == BooksOf(tasks, finished, stored)

\* A task that executes is one of the session the device has; if it was sent, it
\* was on the session's socket.
Sent ==
  \A t \in Tasks : tasks[t].status = "EXECUTING" =>
    /\ tasks[t].session = session /\ session # NoSession /\ tasks[t].op # "none"
    /\ tasks[t].sentOn \in {NoSocket, socket}

\* Everything that was ever asked for in the name of t is the operation o.
Concerns(t, o) ==
  /\ tasks[t].op \in {"none", o}
  /\ \A k \in Sockets : \A i \in 1..Len(down[k]) :
       down[k][i].type = "request" /\ down[k][i].task = t => down[k][i].op = o
  /\ \A n \in 1..MaxStarts : job[<<t, n>>].step # "idle" => job[<<t, n>>].op = o

\* A task asks for one operation, and for none before it is created.
OneOp ==
  \A t \in Tasks :
    /\ \E o \in Operations : Concerns(t, o)
    /\ tasks[t].status = "none" =>
         \A o \in Operations : Concerns(t, o)

\* Requests can still reach the executor.
Listening == active # NoSession \/ \E k \in Sockets : wire[k].phone = "closing"

\* Execution n of a request for a screenshot or a write has begun.
Started(t, n) == job[<<t, n>>].step # "idle" /\ job[<<t, n>>].op # "read"

\* In the first session of the phone such a request runs once: while it runs it is
\* held, and once it has been answered the answer is remembered.
FirstSession ==
  /\ line # NoSocket => active # NoSession
  /\ openings = 0 =>
       active = NoSession /\ (\A k \in Sockets : wire[k].phone = "none")
       /\ \A t \in Tasks, n \in 1..MaxStarts : ~Started(t, n)
  /\ openings <= 1 =>
       \A t \in Tasks, n \in 1..MaxStarts : Started(t, n) =>
         /\ \A m \in 1..MaxStarts : Started(t, m) => m = n
         /\ Listening => responses[t] # "none" \/ job[<<t, n>>].held

\* Where a change of the brightness that nobody disturbed has left the settings.
Undisturbed(x) ==
  /\ x.step = "mode" => screen = x.prev
  /\ x.step = "level" => screen.level = x.prev.level /\ screen.mode = x.want.mode
  /\ x.step = "verify" => screen = x.want
  /\ x.step = "undoLevel" => screen.mode = x.want.mode
  /\ x.step = "undoMode" => screen.level = x.prev.level
  /\ x.step = "throw" => screen = x.prev

Settled ==
  \A j \in Jobs : IsSetting(j) /\ job[j].clean =>
    /\ Undisturbed(job[j])
    /\ \A i \in Jobs : IsSetting(i) => i = j

IInv == TypeOK /\ Books /\ Sent /\ OneOp /\ FirstSession /\ Settled

-----------------------------------------------------------------------------
(* Facts about the data.                                                   *)

LEMMA StillIsScreen == Still \in Screen /\ NoJob \in Job
<1>1. PICK l : l \in Levels
  BY ExecutorAssumption
<1>2. [level |-> l, mode |-> "manual"] \in Screen
  BY <1>1 DEF Screen
<1>3. Still \in Screen
  BY <1>2 DEF Still
<1> QED
  BY <1>3 DEF NoJob, Job, Steps

LEMMA SetToSeqFacts ==
  ASSUME NEW S, IsFiniteSet(S)
  PROVE  /\ SetToSeq(S) \in [1..Cardinality(S) -> S] /\ SetToSeq(S) \in Seq(S)
         /\ Cardinality(S) \in Nat /\ Len(SetToSeq(S)) = Cardinality(S)
         /\ \A i, j \in 1..Cardinality(S) : SetToSeq(S)[i] = SetToSeq(S)[j] => i = j
<1>1. Cardinality(S) \in Nat /\ ExistsBijection(1..Cardinality(S), S)
  BY FS_CardinalityType
<1>2. PICK f \in [1..Cardinality(S) -> S] : IsInjective(f)
  BY <1>1 DEF ExistsBijection, Bijection, Injection, IsInjective
<1>3. SetToSeq(S) \in [1..Cardinality(S) -> S] /\ IsInjective(SetToSeq(S))
  BY <1>2 DEF SetToSeq
<1> QED
  BY <1>1, <1>3 DEF IsInjective

LEMMA SomeTasks ==
  ASSUME NEW S, S \subseteq Tasks
  PROVE  IsFiniteSet(S) /\ Cardinality(S) \in Nat
  BY GatewayAssumption, FS_Subset, FS_CardinalityType

-----------------------------------------------------------------------------
(* The books of the server.                                                *)

LEMMA RecordFacts ==
  ASSUME TypeOK, Books, NEW T \in [Tasks -> Task], Record(T), stored' = stored,
         \A t \in Tasks : T[t].artifact = tasks[t].artifact,
         \A t \in Tasks : T[t].status = tasks[t].status
                          \/ (tasks[t].status = "EXECUTING" /\ T[t].status \in Terminal)
  PROVE  tasks' = T /\ finished' \in Seq(Tasks) /\ Books'
<1> DEFINE S == {t \in Tasks : tasks[t].status = "EXECUTING" /\ T[t].status \in Terminal}
<1>1. PICK s : s = SetToSeq(S)
  OBVIOUS
<1>2. /\ s \in Seq(S) /\ Cardinality(S) \in Nat /\ Len(s) = Cardinality(S)
      /\ \A i, j \in 1..Cardinality(S) : s[i] = s[j] => i = j
      /\ \A i \in 1..Len(s) : s[i] \in S
  <2>1. IsFiniteSet(S)
    BY SomeTasks
  <2>2. /\ s \in [1..Cardinality(S) -> S] /\ s \in Seq(S)
        /\ Cardinality(S) \in Nat /\ Len(s) = Cardinality(S)
        /\ \A i, j \in 1..Cardinality(S) : s[i] = s[j] => i = j
    BY <1>1, <2>1, SetToSeqFacts
  <2> HIDE DEF S
  <2> QED
    BY <2>2
<1>3. tasks' = T /\ finished' = finished \o s
  BY <1>1 DEF Record
<1> HIDE DEF S
<1>4. finished \in Seq(Tasks) /\ s \in Seq(Tasks) /\ Len(finished) \in Nat
  BY <1>2 DEF S, TypeOK
<1>5. finished' \in Seq(Tasks) /\ Len(finished') = Len(finished) + Len(s)
  BY <1>3, <1>4
<1>6. /\ \A i \in 1..Len(finished) : finished'[i] = finished[i]
      /\ \A i \in 1..Len(finished') : i > Len(finished) =>
           i - Len(finished) \in 1..Len(s) /\ finished'[i] = s[i - Len(finished)]
  BY <1>3, <1>4, <1>5
<1>7. /\ \A i, j \in 1..Len(finished) : finished[i] = finished[j] => i = j
      /\ \A i \in 1..Len(finished) : tasks[finished[i]].status \in Terminal
      /\ \A i \in 1..Len(finished) : finished[i] \in Tasks
  BY <1>4 DEF Books, BooksOf
<1>8. \A i \in 1..Len(finished') : T[finished'[i]].status \in Terminal
  <2> SUFFICES ASSUME NEW i \in 1..Len(finished')
               PROVE  T[finished'[i]].status \in Terminal
    OBVIOUS
  <2>1. CASE i \in 1..Len(finished)
    <3>1. tasks[finished[i]].status \in Terminal /\ finished[i] \in Tasks
      BY <1>7, <2>1
    <3>2. tasks[finished[i]].status # "EXECUTING"
      BY <3>1 DEF Terminal
    <3> QED
      BY <1>6, <2>1, <3>1, <3>2
  <2>2. CASE i > Len(finished)
    BY <1>2, <1>6, <2>2 DEF S
  <2> QED
    BY <1>4, <2>1, <2>2
<1>9. \A i, j \in 1..Len(finished') : finished'[i] = finished'[j] => i = j
  <2> SUFFICES ASSUME NEW i \in 1..Len(finished'), NEW j \in 1..Len(finished'),
                      finished'[i] = finished'[j]
               PROVE  i = j
    OBVIOUS
  <2>1. \A h \in 1..Len(finished') :
          \/ h \in 1..Len(finished) /\ tasks[finished'[h]].status \in Terminal
          \/ h > Len(finished) /\ tasks[finished'[h]].status = "EXECUTING"
    BY <1>2, <1>4, <1>6, <1>7 DEF S
  <2>2. "EXECUTING" \notin Terminal
    BY DEF Terminal
  <2>3. CASE i \in 1..Len(finished) /\ j \in 1..Len(finished)
    BY <1>6, <1>7, <2>3
  <2>4. CASE i > Len(finished) /\ j > Len(finished)
    <3>1. i - Len(finished) = j - Len(finished)
      BY <1>2, <1>6, <2>4
    <3> QED
      BY <1>4, <3>1
  <2> QED
    BY <2>1, <2>2, <2>3, <2>4
<1>10. \A t \in Tasks : T[t].status \in {"none", "gone"} => tasks[t].artifact = 0
  BY DEF Books, BooksOf, Terminal
<1>11. {t \in Tasks : T[t].artifact # 0} = {t \in Tasks : tasks[t].artifact # 0}
  OBVIOUS
<1> QED
  BY <1>3, <1>5, <1>8, <1>9, <1>10, <1>11 DEF Books, BooksOf

\* Old results that go take their screenshots with them.
LEMMA CleanupFacts ==
  ASSUME TypeOK, Books, NEW n \in 0..Len(finished)
  PROVE  /\ Cleanup(n).kept \in [Tasks -> Task] /\ Cleanup(n).left \in Seq(Tasks)
         /\ Cleanup(n).bytes \in Nat
         /\ BooksOf(Cleanup(n).kept, Cleanup(n).left, Cleanup(n).bytes)
         /\ \A t \in Tasks :
              \/ Cleanup(n).kept[t] = tasks[t]
              \/ /\ tasks[t].status \in Terminal /\ Cleanup(n).kept[t].status = "gone"
                 /\ Cleanup(n).kept[t].op = tasks[t].op
<1>1. /\ finished \in Seq(Tasks) /\ Len(finished) \in Nat /\ stored \in Nat
      /\ Cardinality(Retained) \in Nat /\ TaskCapacity \in Nat
      /\ \A i \in 1..Len(finished) : finished[i] \in Tasks
  BY SomeTasks, GatewayAssumption DEF TypeOK, Retained
<1>2. PICK x \in Int : x = Cardinality(Retained) - TaskCapacity + 1
  BY <1>1
<1>3. PICK m \in 0..Len(finished) :
        m = IF x <= n THEN n ELSE IF x <= Len(finished) THEN x ELSE Len(finished)
  BY <1>1
<1>4. PICK gone \in SUBSET Tasks : gone = {finished[i] : i \in 1..m}
  <2>1. {finished[i] : i \in 1..m} \in SUBSET Tasks
    BY <1>1, <1>3
  <2> QED
    BY <2>1
<1>5. PICK K : K = [t \in Tasks |->
                    IF t \in gone THEN [tasks[t] EXCEPT !.status = "gone", !.artifact = 0]
                                  ELSE tasks[t]]
  OBVIOUS
<1>6. PICK L : L = SubSeq(finished, m + 1, Len(finished))
  OBVIOUS
<1>7. PICK b : b = stored - Cardinality({t \in gone : tasks[t].artifact # 0})
  OBVIOUS
<1>8. Cleanup(n) = [kept |-> K, left |-> L, bytes |-> b]
  BY <1>2, <1>3, <1>4, <1>5, <1>6, <1>7 DEF Cleanup
<1>9. Cleanup(n).kept = K /\ Cleanup(n).left = L /\ Cleanup(n).bytes = b
  BY <1>8
<1>10. /\ \A i, j \in 1..Len(finished) : finished[i] = finished[j] => i = j
       /\ \A i \in 1..Len(finished) : tasks[finished[i]].status \in Terminal
       /\ \A t \in Tasks : tasks[t].status \in {"none", "gone"} => tasks[t].artifact = 0
       /\ stored = Cardinality({t \in Tasks : tasks[t].artifact # 0})
       /\ stored <= ArtifactCapacity
  BY DEF Books, BooksOf
<1>11. \A t \in gone : tasks[t].status \in Terminal
  BY <1>1, <1>4, <1>10
<1>12. \A t \in Tasks :
         /\ K[t] \in Task
         /\ t \notin gone => K[t] = tasks[t]
         /\ t \in gone => K[t].status = "gone" /\ K[t].artifact = 0 /\ K[t].op = tasks[t].op
  <2> SUFFICES ASSUME NEW t \in Tasks
               PROVE  /\ K[t] \in Task
                      /\ t \notin gone => K[t] = tasks[t]
                      /\ t \in gone => K[t].status = "gone" /\ K[t].artifact = 0
                                       /\ K[t].op = tasks[t].op
    OBVIOUS
  <2>1. tasks[t] \in Task
    BY DEF TypeOK
  <2>2. CASE t \notin gone
    BY <1>5, <2>1, <2>2
  <2>3. CASE t \in gone
    <3>1. PICK y : y = [tasks[t] EXCEPT !.status = "gone"]
      OBVIOUS
    <3>2. y \in Task /\ y.status = "gone" /\ y.op = tasks[t].op
      BY <2>1, <3>1 DEF Task
    <3>3. K[t] = [y EXCEPT !.artifact = 0]
      BY <1>5, <2>3, <3>1
    <3>4. 0 \in 0..MaxStarts
      BY ExecutorAssumption
    <3> QED
      BY <2>3, <3>2, <3>3, <3>4 DEF Task
  <2> QED
    BY <2>2, <2>3
<1>13. K \in [Tasks -> Task]
  BY <1>5, <1>12
<1>14. /\ L \in Seq(Tasks) /\ Len(L) = Len(finished) - m
       /\ \A i \in 1..Len(L) : i + m \in 1..Len(finished) /\ L[i] = finished[i + m]
  BY <1>1, <1>6
<1>15. \A i \in 1..Len(L) : L[i] \notin gone /\ L[i] \in Tasks
  <2> SUFFICES ASSUME NEW i \in 1..Len(L), L[i] \in gone
               PROVE  FALSE
    BY <1>1, <1>14
  <2>1. PICK h \in 1..m : L[i] = finished[h]
    BY <1>4
  <2>2. h = i + m
    BY <1>1, <1>10, <1>14, <2>1
  <2> QED
    BY <1>1, <1>14, <2>1, <2>2
<1>16. \A i \in 1..Len(L) : K[L[i]].status \in Terminal
  BY <1>10, <1>12, <1>14, <1>15
<1>17. \A i, j \in 1..Len(L) : L[i] = L[j] => i = j
  <2> SUFFICES ASSUME NEW i \in 1..Len(L), NEW j \in 1..Len(L), L[i] = L[j]
               PROVE  i = j
    OBVIOUS
  <2>1. i + m = j + m
    BY <1>10, <1>14
  <2> QED
    BY <1>1, <1>14, <2>1
<1>18. \A t \in Tasks : K[t].status \in {"none", "gone"} => K[t].artifact = 0
  BY <1>10, <1>12
<1>19. b \in Nat /\ b = Cardinality({t \in Tasks : K[t].artifact # 0}) /\ b <= stored
  <2> DEFINE A == {t \in Tasks : tasks[t].artifact # 0}
             B == {t \in gone : tasks[t].artifact # 0}
  <2>1. /\ IsFiniteSet(A) /\ IsFiniteSet(B) /\ IsFiniteSet(A \ B)
        /\ Cardinality(A) \in Nat /\ Cardinality(B) \in Nat /\ Cardinality(A \ B) \in Nat
    BY SomeTasks
  <2>2. Cardinality(A \ B) = Cardinality(A) - Cardinality(A \cap B)
    BY <2>1, FS_Difference
  <2>3. A \cap B = B /\ A \ B = {t \in Tasks : K[t].artifact # 0}
    BY <1>12
  <2>4. Cardinality(A) = stored /\ b = stored - Cardinality(B)
    BY <1>7, <1>10
  <2>5. Cardinality(A \ B) = Cardinality({t \in Tasks : K[t].artifact # 0})
    BY <2>3
  <2> HIDE DEF A, B
  <2>6. Cardinality(A \ B) = stored - Cardinality(B)
    BY <2>2, <2>3, <2>4
  <2>7. b = Cardinality(A \ B) /\ b \in Nat /\ b <= stored
    BY <1>1, <2>1, <2>4, <2>6
  <2> QED
    BY <2>5, <2>7
<1>20. BooksOf(K, L, b)
  BY <1>1, <1>10, <1>16, <1>17, <1>18, <1>19, GatewayAssumption DEF BooksOf
<1> QED
  BY <1>9, <1>11, <1>12, <1>13, <1>14, <1>19, <1>20

-----------------------------------------------------------------------------
(* What is sent to the phone.                                              *)

FrameOf(m, k) == \E h \in 1..Len(down[k]) : down[k][h] = m
Asked(m) == m.type = "request" => m.op = tasks[m.task].op

\* What is new on the way to the phone asks for what the task asks for.
DownGrows ==
  /\ down' \in [Sockets -> Seq(DownFrames)]
  /\ \A k \in Sockets : \A i \in 1..Len(down'[k]) :
       FrameOf(down'[k][i], k) \/ Asked(down'[k][i])

LEMMA DownStays ==
  ASSUME TypeOK, down' = down
  PROVE  DownGrows
  BY DEF TypeOK, DownGrows, FrameOf

LEMMA AppendFacts ==
  ASSUME TypeOK, NEW k \in Sockets, NEW ms \in Seq(DownFrames),
         \A i \in 1..Len(ms) : Asked(ms[i]),
         down' = [down EXCEPT ![k] = @ \o ms]
  PROVE  DownGrows
<1>1. down \in [Sockets -> Seq(DownFrames)] /\ down[k] \in Seq(DownFrames)
  BY DEF TypeOK
<1>2. /\ down'[k] = down[k] \o ms /\ \A c \in Sockets : c # k => down'[c] = down[c]
      /\ down[k] \o ms \in Seq(DownFrames)
  BY <1>1
<1>3. down' \in [Sockets -> Seq(DownFrames)]
  BY <1>1, <1>2
<1>4. \A i \in 1..Len(down'[k]) : FrameOf(down'[k][i], k) \/ Asked(down'[k][i])
  <2> SUFFICES ASSUME NEW i \in 1..Len(down'[k])
               PROVE  FrameOf(down'[k][i], k) \/ Asked(down'[k][i])
    OBVIOUS
  <2>1. Len(down[k]) \in Nat /\ Len(ms) \in Nat /\ Len(down'[k]) = Len(down[k]) + Len(ms)
    BY <1>1, <1>2
  <2>2. CASE i <= Len(down[k])
    <3>1. i \in 1..Len(down[k]) /\ down'[k][i] = down[k][i]
      BY <1>1, <1>2, <2>1, <2>2
    <3> QED
      BY <3>1 DEF FrameOf
  <2>3. CASE i > Len(down[k])
    <3>1. i - Len(down[k]) \in 1..Len(ms) /\ down'[k][i] = ms[i - Len(down[k])]
      BY <1>1, <1>2, <2>1, <2>3
    <3> QED
      BY <3>1
  <2> QED
    BY <2>1, <2>2, <2>3
<1>5. \A c \in Sockets : c # k => \A i \in 1..Len(down'[c]) : FrameOf(down'[c][i], c)
  BY <1>2 DEF FrameOf
<1> QED
  BY <1>3, <1>4, <1>5 DEF DownGrows

LEMMA DeliverFacts ==
  ASSUME TypeOK, NEW k \in Sockets, NEW ms \in Seq(DownFrames),
         \A i \in 1..Len(ms) : Asked(ms[i]), Deliver(k, ms)
  PROVE  DownGrows
  BY AppendFacts, DownStays DEF Deliver

LEMMA ServerClosesFacts ==
  ASSUME TypeOK, NEW k \in Sockets, ServerCloses(k)
  PROVE  /\ DownGrows /\ wire' \in [Sockets -> Wire]
         /\ \A c \in Sockets : wire'[c].phone = wire[c].phone
<1>1. DownGrows
  <2>1. Eof \in DownFrames /\ Eof.type # "request"
    BY DEF Eof, DownFrames
  <2>2. /\ <<Eof>> \in Seq(DownFrames)
        /\ \A i \in 1..Len(<<Eof>>) : Asked(<<Eof>>[i])
    BY <2>1 DEF Asked
  <2> QED
    BY <2>2, DeliverFacts, DownStays DEF ServerCloses
<1>2. wire' = [wire EXCEPT ![k].server = "closing"] /\ wire \in [Sockets -> Wire]
  BY DEF ServerCloses, TypeOK
<1>3. wire'[k] = [wire[k] EXCEPT !.server = "closing"]
      /\ \A c \in Sockets : c # k => wire'[c] = wire[c]
  BY <1>2
<1>4. wire'[k] \in Wire /\ wire'[k].phone = wire[k].phone
  BY <1>2, <1>3 DEF Wire
<1> QED
  BY <1>1, <1>2, <1>3, <1>4

\* A task that is sent waits on that socket, and one the phone does not know ends.
LEMMA SendFacts ==
  ASSUME TypeOK, Books, NEW k \in Sockets, NEW ts \in SUBSET Tasks,
         NEW T \in [Tasks -> Task], Send(k, ts, T), stored' = stored,
         \A t \in Tasks : /\ T[t].status = tasks[t].status /\ T[t].op = tasks[t].op
                          /\ T[t].artifact = tasks[t].artifact
                          /\ T[t].session = tasks[t].session
                          /\ T[t].status = "EXECUTING" => T[t].op # "none"
  PROVE  /\ tasks' \in [Tasks -> Task] /\ finished' \in Seq(Tasks) /\ Books' /\ DownGrows
         /\ \A t \in Tasks :
              /\ tasks'[t].session = tasks[t].session /\ tasks'[t].op = tasks[t].op
              /\ tasks'[t].status = tasks[t].status
                 \/ (tasks[t].status = "EXECUTING" /\ tasks'[t].status \in Terminal)
              /\ tasks'[t].sentOn \in {T[t].sentOn, k}
              /\ t \in ts /\ tasks'[t].status = "EXECUTING" => tasks'[t].sentOn = k
<1>1. PICK due \in SUBSET Tasks : due = {t \in ts : T[t].status = "EXECUTING" /\ T[t].sentOn # k}
  OBVIOUS
<1>2. PICK known \in SUBSET due : known = {t \in due : T[t].op \in Advertised}
  OBVIOUS
<1>3. PICK N : N = [t \in Tasks |->
          CASE t \in known -> [T[t] EXCEPT !.sentOn = k]
            [] t \in due \ known -> [T[t] EXCEPT !.status = "REJECTED"]
            [] OTHER -> T[t]]
  OBVIOUS
<1>4. PICK ms : ms = [i \in 1..Cardinality(known) |->
                        LET t == SetToSeq(known)[i] IN Request(t, T[t].op)]
  OBVIOUS
<1>5. Record(N) /\ Deliver(k, ms)
  <2> DEFINE D == {t \in ts : T[t].status = "EXECUTING" /\ T[t].sentOn # k}
             E == {t \in D : T[t].op \in Advertised}
  <2>1. due = D /\ known = E
    BY <1>1, <1>2
  <2>2. /\ Record([t \in Tasks |->
          CASE t \in E -> [T[t] EXCEPT !.sentOn = k]
            [] t \in D \ E -> [T[t] EXCEPT !.status = "REJECTED"]
            [] OTHER -> T[t]])
        /\ Deliver(k, [i \in 1..Cardinality(E) |->
                     LET t == SetToSeq(E)[i] IN Request(t, T[t].op)])
    BY DEF Send
  <2> HIDE DEF D, E
  <2> QED
    BY <1>3, <1>4, <2>1, <2>2
<1>6. \A t \in Tasks :
        /\ N[t] \in Task /\ N[t].session = T[t].session /\ N[t].op = T[t].op
        /\ N[t].artifact = T[t].artifact
        /\ N[t].status = T[t].status \/ (T[t].status = "EXECUTING" /\ N[t].status \in Terminal)
        /\ N[t].sentOn \in {T[t].sentOn, k}
        /\ t \in ts /\ N[t].status = "EXECUTING" => N[t].sentOn = k
  <2> SUFFICES ASSUME NEW t \in Tasks
               PROVE  /\ N[t] \in Task /\ N[t].session = T[t].session /\ N[t].op = T[t].op
                      /\ N[t].artifact = T[t].artifact
                      /\ N[t].status = T[t].status
                         \/ (T[t].status = "EXECUTING" /\ N[t].status \in Terminal)
                      /\ N[t].sentOn \in {T[t].sentOn, k}
                      /\ t \in ts /\ N[t].status = "EXECUTING" => N[t].sentOn = k
    OBVIOUS
  <2>1. T[t] \in Task
    OBVIOUS
  <2>2. CASE t \in known
    <3>1. N[t] = [T[t] EXCEPT !.sentOn = k]
      BY <1>3, <2>2
    <3> QED
      BY <2>1, <3>1 DEF Task
  <2>3. CASE t \in due \ known
    <3>1. N[t] = [T[t] EXCEPT !.status = "REJECTED"] /\ T[t].status = "EXECUTING"
      BY <1>1, <1>3, <2>3
    <3> QED
      BY <2>1, <3>1 DEF Task, Terminal
  <2>4. CASE t \notin due
    <3>1. N[t] = T[t]
      BY <1>3, <2>4
    <3> QED
      BY <1>1, <2>1, <2>4, <3>1
  <2> QED
    BY <2>2, <2>3, <2>4
<1>7. N \in [Tasks -> Task]
  BY <1>3, <1>6
<1>8. tasks' = N /\ finished' \in Seq(Tasks) /\ Books'
  BY <1>5, <1>6, <1>7, RecordFacts
<1>9. /\ Cardinality(known) \in Nat
      /\ \A i \in 1..Cardinality(known) : SetToSeq(known)[i] \in known
  BY SomeTasks, SetToSeqFacts
<1>10. ms \in Seq(DownFrames) /\ \A i \in 1..Len(ms) : Asked(ms[i])
  <2>1. \A i \in 1..Cardinality(known) : ms[i] \in DownFrames /\ Asked(ms[i])
    <3> SUFFICES ASSUME NEW i \in 1..Cardinality(known)
                 PROVE  ms[i] \in DownFrames /\ Asked(ms[i])
      OBVIOUS
    <3>1. PICK t \in known : t = SetToSeq(known)[i]
      BY <1>9
    <3>2. t \in Tasks /\ T[t] \in Task /\ T[t].op # "none"
      BY <1>1, <3>1
    <3>3. ms[i] = [type |-> "request", task |-> t, op |-> T[t].op]
      BY <1>4, <3>1 DEF Request
    <3> QED
      BY <3>2, <3>3 DEF DownFrames, Task, Asked
  <2>2. ms \in [1..Cardinality(known) -> DownFrames]
    BY <1>4, <2>1
  <2> HIDE DEF DownFrames
  <2>3. ms \in Seq(DownFrames) /\ Len(ms) = Cardinality(known)
    BY <1>9, <2>2
  <2> QED
    BY <2>1, <2>3
<1>11. DownGrows
  BY <1>5, <1>10, DeliverFacts
<1> QED
  BY <1>6, <1>7, <1>8, <1>11

LEMMA FinishFacts ==
  ASSUME TypeOK, NEW ts \in SUBSET Tasks, NEW status \in Terminal
  PROVE  /\ Finish(ts, status) \in [Tasks -> Task]
         /\ \A t \in Tasks :
              /\ Finish(ts, status)[t].session = tasks[t].session
              /\ Finish(ts, status)[t].op = tasks[t].op
              /\ Finish(ts, status)[t].artifact = tasks[t].artifact
              /\ Finish(ts, status)[t].sentOn = tasks[t].sentOn
              /\ Finish(ts, status)[t].publishing = tasks[t].publishing
              /\ Finish(ts, status)[t].status = tasks[t].status
                 \/ (tasks[t].status = "EXECUTING" /\ Finish(ts, status)[t].status \in Terminal)
              /\ t \in ts => Finish(ts, status)[t].status # "EXECUTING"
<1>1. PICK F : F = Finish(ts, status)
  OBVIOUS
<1>2. \A t \in Tasks :
        /\ F[t] \in Task /\ F[t].session = tasks[t].session /\ F[t].op = tasks[t].op
        /\ F[t].artifact = tasks[t].artifact /\ F[t].sentOn = tasks[t].sentOn
        /\ F[t].publishing = tasks[t].publishing
        /\ F[t].status = tasks[t].status
           \/ (tasks[t].status = "EXECUTING" /\ F[t].status \in Terminal)
        /\ t \in ts => F[t].status # "EXECUTING"
  <2> SUFFICES ASSUME NEW t \in Tasks
               PROVE  /\ F[t] \in Task /\ F[t].session = tasks[t].session
                      /\ F[t].op = tasks[t].op
                      /\ F[t].artifact = tasks[t].artifact /\ F[t].sentOn = tasks[t].sentOn
                      /\ F[t].publishing = tasks[t].publishing
                      /\ F[t].status = tasks[t].status
                         \/ (tasks[t].status = "EXECUTING" /\ F[t].status \in Terminal)
                      /\ t \in ts => F[t].status # "EXECUTING"
    OBVIOUS
  <2>1. tasks[t] \in Task
    BY DEF TypeOK
  <2>2. CASE t \in ts /\ tasks[t].status = "EXECUTING"
    <3>1. F[t] = [tasks[t] EXCEPT !.status = status]
      BY <1>1, <2>2 DEF Finish
    <3> QED
      BY <2>1, <2>2, <3>1 DEF Task, Terminal
  <2>3. CASE ~(t \in ts /\ tasks[t].status = "EXECUTING")
    <3>1. F[t] = tasks[t]
      BY <1>1, <2>3 DEF Finish
    <3> QED
      BY <2>1, <2>3, <3>1
  <2> QED
    BY <2>2, <2>3
<1>3. F \in [Tasks -> Task]
  BY <1>1, <1>2 DEF Finish
<1> QED
  BY <1>1, <1>2, <1>3

\* The end of tasks leaves the books as they were.
LEMMA EndOfTasks ==
  ASSUME TypeOK, Books, NEW ts \in SUBSET Tasks, NEW status \in Terminal,
         Record(Finish(ts, status)), stored' = stored
  PROVE  /\ tasks' \in [Tasks -> Task] /\ finished' \in Seq(Tasks) /\ Books'
         /\ \A t \in Tasks :
              /\ tasks'[t].session = tasks[t].session /\ tasks'[t].op = tasks[t].op
              /\ tasks'[t].artifact = tasks[t].artifact
              /\ tasks'[t].sentOn = tasks[t].sentOn
              /\ tasks'[t].status = tasks[t].status
                 \/ (tasks[t].status = "EXECUTING" /\ tasks'[t].status \in Terminal)
              /\ t \in ts => tasks'[t].status # "EXECUTING"
<1>1. PICK F : F = Finish(ts, status)
  OBVIOUS
<1>2. Record(F)
  BY <1>1
<1>3. /\ F \in [Tasks -> Task]
      /\ \A t \in Tasks :
           /\ F[t].session = tasks[t].session /\ F[t].op = tasks[t].op
           /\ F[t].artifact = tasks[t].artifact /\ F[t].sentOn = tasks[t].sentOn
           /\ F[t].status = tasks[t].status
              \/ (tasks[t].status = "EXECUTING" /\ F[t].status \in Terminal)
           /\ t \in ts => F[t].status # "EXECUTING"
  BY <1>1, FinishFacts
<1>4. tasks' = F /\ finished' \in Seq(Tasks) /\ Books'
  BY <1>2, <1>3, RecordFacts
<1> QED
  BY <1>3, <1>4

LEMMA ExpireFacts ==
  ASSUME TypeOK, Books, Sent, ExpireSession, stored' = stored
  PROVE  /\ session' = NoSession /\ socket' = NoSocket
         /\ tasks' \in [Tasks -> Task] /\ finished' \in Seq(Tasks) /\ Books'
         /\ \A t \in Tasks :
              /\ tasks'[t].op = tasks[t].op /\ tasks'[t].status # "EXECUTING"
              /\ tasks'[t].status = "none" => tasks[t].status = "none"
         /\ DownGrows /\ wire' \in [Sockets -> Wire]
         /\ \A c \in Sockets : wire'[c].phone = wire[c].phone
<1>1. session' = NoSession /\ socket' = NoSocket
      /\ Record(Finish(Executing(session), "TIMEOUT"))
  BY DEF ExpireSession
<1>2. Executing(session) \in SUBSET Tasks /\ "TIMEOUT" \in Terminal
      /\ \A t \in Tasks : tasks[t].status = "EXECUTING" => t \in Executing(session)
  BY DEF Executing, Terminal, Sent
<1>3. /\ tasks' \in [Tasks -> Task] /\ finished' \in Seq(Tasks) /\ Books'
      /\ \A t \in Tasks :
           /\ tasks'[t].op = tasks[t].op
           /\ tasks'[t].status = tasks[t].status
              \/ (tasks[t].status = "EXECUTING" /\ tasks'[t].status \in Terminal)
           /\ t \in Executing(session) => tasks'[t].status # "EXECUTING"
  BY <1>1, <1>2, EndOfTasks
<1>4. \A t \in Tasks :
         /\ tasks'[t].op = tasks[t].op /\ tasks'[t].status # "EXECUTING"
         /\ tasks'[t].status = "none" => tasks[t].status = "none"
  BY <1>2, <1>3 DEF Terminal
<1>5. DownGrows /\ wire' \in [Sockets -> Wire]
      /\ \A c \in Sockets : wire'[c].phone = wire[c].phone
  <2>1. CASE socket = NoSocket
    BY <2>1, DownStays DEF ExpireSession, TypeOK
  <2>2. CASE socket # NoSocket
    BY <2>2, ServerClosesFacts DEF ExpireSession, TypeOK
  <2> QED
    BY <2>1, <2>2
<1> QED
  BY <1>1, <1>3, <1>4, <1>5

-----------------------------------------------------------------------------
(* A task asks for one operation.                                          *)

TasksAsk ==
  \A t \in Tasks :
    /\ tasks'[t].op \in {tasks[t].op, "none"}
       \/ (tasks[t].status = "none" /\ tasks'[t].op \in Operations)
    /\ tasks'[t].status = "none" =>
         tasks[t].status = "none" /\ tasks'[t].op \in {tasks[t].op, "none"}

\* What is started was asked for.
JobsAsk ==
  \A t \in Tasks, n \in 1..MaxStarts : job'[<<t, n>>].step # "idle" =>
    \/ job[<<t, n>>].step # "idle" /\ job'[<<t, n>>].op = job[<<t, n>>].op
    \/ \E k \in Sockets : \E m \in DownFrames :
         /\ FrameOf(m, k) /\ m.type = "request" /\ m.task = t
         /\ job'[<<t, n>>].op = m.op

LEMMA ConcernsStep ==
  ASSUME DownGrows, JobsAsk, NEW t \in Tasks, NEW o \in Operations, Concerns(t, o),
         tasks'[t].op \in {"none", o}
  PROVE  Concerns(t, o)'
<1>1. \A k \in Sockets : \A m : FrameOf(m, k) /\ m.type = "request" /\ m.task = t => m.op = o
  BY DEF FrameOf, Concerns
<1>2. ASSUME NEW k \in Sockets, NEW i \in 1..Len(down'[k]),
             down'[k][i].type = "request", down'[k][i].task = t
      PROVE  down'[k][i].op = o
  <2>1. CASE FrameOf(down'[k][i], k)
    BY <1>1, <1>2, <2>1
  <2>2. CASE Asked(down'[k][i])
    <3>1. down'[k][i].op = tasks[t].op /\ down'[k][i] \in DownFrames
      BY <1>2, <2>2 DEF Asked, DownGrows
    <3>2. down'[k][i].op # "none"
      BY <1>2, <3>1 DEF DownFrames, Operations
    <3> QED
      BY <3>1, <3>2 DEF Concerns
  <2> QED
    BY <2>1, <2>2 DEF DownGrows
<1>3. ASSUME NEW n \in 1..MaxStarts, job'[<<t, n>>].step # "idle"
      PROVE  job'[<<t, n>>].op = o
  <2>1. CASE job[<<t, n>>].step # "idle" /\ job'[<<t, n>>].op = job[<<t, n>>].op
    BY <2>1 DEF Concerns
  <2>2. CASE \E k \in Sockets : \E m \in DownFrames :
               /\ FrameOf(m, k) /\ m.type = "request" /\ m.task = t
               /\ job'[<<t, n>>].op = m.op
    BY <1>1, <2>2
  <2> QED
    BY <1>3, <2>1, <2>2 DEF JobsAsk
<1> QED
  BY <1>2, <1>3 DEF Concerns

LEMMA OneOpStep ==
  ASSUME OneOp, TasksAsk, DownGrows, JobsAsk
  PROVE  OneOp'
<1> SUFFICES ASSUME NEW t \in Tasks
             PROVE  /\ \E o \in Operations : Concerns(t, o)'
                    /\ tasks'[t].status = "none" => \A o \in Operations : Concerns(t, o)'
  BY DEF OneOp, Operations
<1>1. /\ \E o \in Operations : Concerns(t, o)
      /\ tasks[t].status = "none" => \A o \in Operations : Concerns(t, o)
  BY DEF OneOp, Operations
<1>2. tasks'[t].status = "none" => \A o \in Operations : Concerns(t, o)'
  <2> SUFFICES ASSUME tasks'[t].status = "none", NEW o \in Operations
               PROVE  Concerns(t, o)'
    OBVIOUS
  <2>1. tasks[t].status = "none" /\ tasks'[t].op \in {tasks[t].op, "none"}
    BY DEF TasksAsk
  <2>2. Concerns(t, o) /\ tasks'[t].op \in {"none", o}
    BY <1>1, <2>1 DEF Concerns
  <2> QED
    BY <2>2, ConcernsStep
<1>3. \E o \in Operations : Concerns(t, o)'
  <2>1. CASE tasks'[t].op \in {tasks[t].op, "none"}
    <3>1. PICK o \in Operations : Concerns(t, o)
      BY <1>1
    <3>2. tasks'[t].op \in {"none", o}
      BY <2>1, <3>1 DEF Concerns
    <3> QED
      BY <3>1, <3>2, ConcernsStep
  <2>2. CASE tasks[t].status = "none" /\ tasks'[t].op \in Operations
    <3>1. PICK o \in Operations : o = tasks'[t].op
      BY <2>2
    <3>2. Concerns(t, o) /\ tasks'[t].op \in {"none", o}
      BY <1>1, <2>2, <3>1
    <3> QED
      BY <3>2, ConcernsStep
  <2> QED
    BY <2>1, <2>2 DEF TasksAsk
<1> QED
  BY <1>2, <1>3

-----------------------------------------------------------------------------
(* The steps of the server.                                                *)

\* They leave the phone alone.
LEMMA GatewayKeeps ==
  ASSUME IInv, UNCHANGED <<sessionVars, screen, job>>, troubles' \in 0..MaxTroubles,
         session' \in Sessions \cup {NoSession}, socket' \in Sockets \cup {NoSocket},
         tasks' \in [Tasks -> Task], finished' \in Seq(Tasks), stored' \in Nat,
         wire' \in [Sockets -> Wire], up' \in [Sockets -> Seq(UpFrames)],
         invites' \subseteq Sessions, DownGrows,
         \A c \in Sockets : wire'[c].phone = wire[c].phone,
         Books', Sent', TasksAsk
  PROVE  IInv'
<1>1. TypeOK'
  <2>1. down' \in [Sockets -> Seq(DownFrames)]
    BY DEF DownGrows
  <2> QED
    BY <2>1 DEF IInv, TypeOK, sessionVars
<1>2. OneOp'
  <2>1. JobsAsk
    BY DEF JobsAsk
  <2> QED
    BY <2>1, OneOpStep DEF IInv
<1>3. FirstSession'
  BY DEF IInv, FirstSession, Started, Listening, sessionVars
<1>4. Settled'
  BY DEF IInv, Settled, Undisturbed, IsSetting
<1> QED
  BY <1>1, <1>2, <1>3, <1>4 DEF IInv

LEMMA TroubleFacts ==
  ASSUME TypeOK, Trouble \/ UNCHANGED troubles
  PROVE  troubles' \in 0..MaxTroubles
  BY ExecutorAssumption DEF TypeOK, Trouble

LEMMA GetTaskStep ==
  ASSUME IInv, GetTask, UNCHANGED <<sessionVars, executorVars>>
  PROVE  IInv'
<1> USE DEF IInv
<1>1. PICK n \in 0..Len(finished) :
        /\ tasks' = Cleanup(n).kept /\ finished' = Cleanup(n).left
        /\ stored' = Cleanup(n).bytes
        /\ UNCHANGED <<session, socket, wire, up, down, invites>>
  BY DEF GetTask
<1>2. /\ tasks' \in [Tasks -> Task] /\ finished' \in Seq(Tasks) /\ stored' \in Nat /\ Books'
      /\ \A t \in Tasks :
           \/ tasks'[t] = tasks[t]
           \/ /\ tasks[t].status \in Terminal /\ tasks'[t].status = "gone"
              /\ tasks'[t].op = tasks[t].op
  BY <1>1, CleanupFacts DEF Books
<1>3. Sent'
  BY <1>1, <1>2 DEF Sent
<1>4. TasksAsk
  BY <1>2 DEF TasksAsk
<1>5. DownGrows
  BY <1>1, DownStays
<1> QED
  BY <1>1, <1>2, <1>3, <1>4, <1>5, GatewayKeeps DEF TypeOK, executorVars

LEMMA CreateOperationStep ==
  ASSUME IInv, NEW t \in Tasks, NEW op \in Ops[t], CreateOperation(t, op),
         UNCHANGED <<sessionVars, executorVars>>
  PROVE  IInv'
<1> USE DEF IInv
<1>1. PICK n, s, new :
        /\ n \in 0..Len(finished) /\ s \in SessionFor
        /\ new = [NoTask EXCEPT !.status = "EXECUTING", !.op = op, !.publishing = TRUE,
                                !.session = s]
        /\ tasks[t].status = "none"
        /\ session' = s /\ invites' = invites \cup {s}
        /\ tasks' = [Cleanup(n).kept EXCEPT ![t] = new]
        /\ finished' = Cleanup(n).left /\ stored' = Cleanup(n).bytes
        /\ UNCHANGED <<socket, wire, up, down>>
  BY DEF CreateOperation
<1>2. PICK K, L, b : K = Cleanup(n).kept /\ L = Cleanup(n).left /\ b = Cleanup(n).bytes
  OBVIOUS
<1>3. /\ K \in [Tasks -> Task] /\ L \in Seq(Tasks) /\ b \in Nat /\ BooksOf(K, L, b)
      /\ \A u \in Tasks :
           \/ K[u] = tasks[u]
           \/ /\ tasks[u].status \in Terminal /\ K[u].status = "gone"
              /\ K[u].op = tasks[u].op
  BY <1>1, <1>2, CleanupFacts
<1>4. s \in Sessions /\ session \in {NoSession, s} /\ s # NoSession /\ op \in Operations
  BY <1>1, GatewayAssumption DEF SessionFor, TypeOK, Operations
<1>5. new = [status |-> "EXECUTING", session |-> s, op |-> op, publishing |-> TRUE,
             sentOn |-> NoSocket, artifact |-> 0]
  BY <1>1 DEF NoTask
<1>6. new \in Task
  <2>1. 0 \in 0..MaxStarts
    BY ExecutorAssumption
  <2> QED
    BY <1>4, <1>5, <2>1 DEF Task, Operations
<1>7. /\ tasks' \in [Tasks -> Task] /\ tasks'[t] = new
      /\ \A u \in Tasks : u # t => tasks'[u] = K[u]
  BY <1>1, <1>2, <1>3, <1>6
<1>8. K[t] = tasks[t] /\ K[t].artifact = 0
  BY <1>1, <1>3 DEF Terminal, BooksOf
<1>9. Books'
  <2>1. \A i \in 1..Len(L) : L[i] \in Tasks /\ L[i] # t
    BY <1>1, <1>3, <1>8 DEF BooksOf, Terminal
  <2>2. \A i \in 1..Len(L) : tasks'[L[i]].status \in Terminal
    BY <1>3, <1>7, <2>1 DEF BooksOf
  <2>3. \A u \in Tasks : tasks'[u].status \in {"none", "gone"} => tasks'[u].artifact = 0
    BY <1>3, <1>5, <1>7 DEF BooksOf
  <2>4. {u \in Tasks : tasks'[u].artifact # 0} = {u \in Tasks : K[u].artifact # 0}
    BY <1>5, <1>7, <1>8
  <2> QED
    BY <1>1, <1>2, <1>3, <2>2, <2>3, <2>4 DEF Books, BooksOf
<1>10. Sent'
  <2> SUFFICES ASSUME NEW u \in Tasks, tasks'[u].status = "EXECUTING"
               PROVE  /\ tasks'[u].session = session' /\ session' # NoSession
                      /\ tasks'[u].op # "none"
                      /\ tasks'[u].sentOn \in {NoSocket, socket'}
    BY DEF Sent
  <2>1. CASE u = t
    <3>1. tasks'[u] = new /\ session' = s
      BY <1>1, <1>7, <2>1
    <3> QED
      BY <1>4, <1>5, <3>1 DEF Operations
  <2>2. CASE u # t
    <3>1. tasks'[u] = tasks[u] /\ tasks[u].status = "EXECUTING"
      BY <1>3, <1>7, <2>2
    <3> QED
      BY <1>1, <1>4, <3>1 DEF Sent
  <2> QED
    BY <2>1, <2>2
<1>11. TasksAsk
  <2> SUFFICES ASSUME NEW u \in Tasks
               PROVE  /\ tasks'[u].op \in {tasks[u].op, "none"}
                         \/ (tasks[u].status = "none" /\ tasks'[u].op \in Operations)
                      /\ tasks'[u].status = "none" =>
                           tasks[u].status = "none" /\ tasks'[u].op \in {tasks[u].op, "none"}
    BY DEF TasksAsk
  <2>1. CASE u = t
    BY <1>1, <1>4, <1>5, <1>7, <2>1
  <2>2. CASE u # t
    BY <1>3, <1>7, <2>2
  <2> QED
    BY <2>1, <2>2
<1>12. DownGrows
  BY <1>1, DownStays
<1> QED
  BY <1>1, <1>2, <1>3, <1>4, <1>7, <1>9, <1>10, <1>11, <1>12, GatewayKeeps
     DEF TypeOK, executorVars

LEMMA PublishAckedStep ==
  ASSUME IInv, NEW t \in Tasks, PublishAcked(t), UNCHANGED <<sessionVars, executorVars>>
  PROVE  IInv'
<1> USE DEF IInv
<1>1. PICK T : T = [tasks EXCEPT ![t].publishing = FALSE]
  OBVIOUS
<1>2. UNCHANGED <<session, socket, stored, wire, up, invites>>
  BY DEF PublishAcked
<1>3. /\ T[t] = [tasks[t] EXCEPT !.publishing = FALSE]
      /\ \A u \in Tasks : u # t => T[u] = tasks[u]
      /\ tasks \in [Tasks -> Task]
  BY <1>1 DEF TypeOK
<1>4. /\ T[t] \in Task /\ T[t].session = tasks[t].session /\ T[t].op = tasks[t].op
      /\ T[t].status = tasks[t].status /\ T[t].artifact = tasks[t].artifact
      /\ T[t].sentOn = tasks[t].sentOn
  <2>1. tasks[t] \in Task /\ T[t] = [tasks[t] EXCEPT !.publishing = FALSE]
    BY <1>3
  <2> QED
    BY <2>1 DEF Task
<1>5. T \in [Tasks -> Task]
  BY <1>1, <1>3, <1>4
<1>6. \A u \in Tasks :
        /\ T[u].session = tasks[u].session /\ T[u].op = tasks[u].op
        /\ T[u].status = tasks[u].status /\ T[u].artifact = tasks[u].artifact
        /\ T[u].sentOn = tasks[u].sentOn
        /\ T[u].status = "EXECUTING" => T[u].op # "none"
  BY <1>3, <1>4 DEF Sent
<1>7. CASE socket # NoSocket /\ Send(socket, {t}, T)
  <2>1. socket \in Sockets
    BY <1>7 DEF TypeOK
  <2>2. /\ tasks' \in [Tasks -> Task] /\ finished' \in Seq(Tasks) /\ Books' /\ DownGrows
        /\ \A u \in Tasks :
              /\ tasks'[u].session = tasks[u].session /\ tasks'[u].op = tasks[u].op
              /\ tasks'[u].status = tasks[u].status
                 \/ (tasks[u].status = "EXECUTING" /\ tasks'[u].status \in Terminal)
              /\ tasks'[u].sentOn \in {T[u].sentOn, socket}
    <3>1. \A u \in Tasks : /\ T[u].status = tasks[u].status /\ T[u].op = tasks[u].op
                           /\ T[u].artifact = tasks[u].artifact
                           /\ T[u].session = tasks[u].session
                           /\ T[u].status = "EXECUTING" => T[u].op # "none"
      BY <1>6
    <3>2. {t} \in SUBSET Tasks /\ stored' = stored /\ TypeOK /\ Books
      BY <1>2
    <3>3. PICK k \in Sockets : k = socket
      BY <2>1
    <3>4. PICK ts \in SUBSET Tasks : ts = {t}
      BY <3>2
    <3>5. Send(k, ts, T)
      BY <1>7, <3>3, <3>4
    <3> HIDE DEF IInv
    <3>6. /\ tasks' \in [Tasks -> Task] /\ finished' \in Seq(Tasks) /\ Books' /\ DownGrows
          /\ \A u \in Tasks :
              /\ tasks'[u].session = tasks[u].session /\ tasks'[u].op = tasks[u].op
              /\ tasks'[u].status = tasks[u].status
                 \/ (tasks[u].status = "EXECUTING" /\ tasks'[u].status \in Terminal)
              /\ tasks'[u].sentOn \in {T[u].sentOn, k}
              /\ u \in ts /\ tasks'[u].status = "EXECUTING" => tasks'[u].sentOn = k
      BY <1>5, <3>1, <3>2, <3>5, SendFacts
    <3> QED
      BY <3>3, <3>6
  <2>3. Sent'
    BY <1>2, <1>6, <2>2 DEF Sent, Terminal
  <2>4. TasksAsk
    BY <2>2 DEF TasksAsk, Terminal
  <2> QED
    BY <1>2, <2>2, <2>3, <2>4, GatewayKeeps DEF TypeOK, executorVars
<1>8. CASE tasks' = T /\ UNCHANGED <<finished, down>>
  <2>1. Sent'
    BY <1>2, <1>6, <1>8 DEF Sent
  <2>2. TasksAsk
    BY <1>6, <1>8 DEF TasksAsk
  <2>3. Books'
    <3>1. {u \in Tasks : T[u].artifact # 0} = {u \in Tasks : tasks[u].artifact # 0}
      BY <1>6
    <3>2. \A i \in 1..Len(finished) : finished[i] \in Tasks
      BY DEF TypeOK
    <3> QED
      BY <1>2, <1>6, <1>8, <3>1, <3>2 DEF Books, BooksOf
  <2>4. DownGrows
    BY <1>8, DownStays
  <2> QED
    BY <1>2, <1>5, <1>8, <2>1, <2>2, <2>3, <2>4, GatewayKeeps DEF TypeOK, executorVars
<1> QED
  BY <1>1, <1>7, <1>8 DEF PublishAcked

LEMMA PublishFailsStep ==
  ASSUME IInv, NEW t \in Tasks, PublishFails(t), UNCHANGED <<sessionVars, screen, job>>
  PROVE  IInv'
<1> USE DEF IInv
<1>1. PICK F : F = Finish({t}, "FAILURE")
  OBVIOUS
<1>2. PICK T : T = [F EXCEPT ![t].publishing = FALSE]
  OBVIOUS
<1>3. Record(T) /\ Trouble /\ UNCHANGED <<session, socket, stored, wire, up, down, invites>>
  BY <1>1, <1>2 DEF PublishFails
<1>4. /\ F \in [Tasks -> Task]
      /\ \A u \in Tasks :
           /\ F[u].session = tasks[u].session /\ F[u].op = tasks[u].op
           /\ F[u].artifact = tasks[u].artifact /\ F[u].sentOn = tasks[u].sentOn
           /\ F[u].status = tasks[u].status
              \/ (tasks[u].status = "EXECUTING" /\ F[u].status \in Terminal)
  <2>1. {t} \in SUBSET Tasks /\ "FAILURE" \in Terminal
    BY DEF Terminal
  <2> QED
    BY <1>1, <2>1, FinishFacts
<1>5. T[t] = [F[t] EXCEPT !.publishing = FALSE] /\ F[t] \in Task
      /\ \A u \in Tasks : u # t => T[u] = F[u]
  BY <1>2, <1>4
<1>6. /\ T[t] \in Task /\ T[t].session = F[t].session /\ T[t].op = F[t].op
      /\ T[t].status = F[t].status /\ T[t].artifact = F[t].artifact
      /\ T[t].sentOn = F[t].sentOn
  BY <1>5 DEF Task
<1>7. T \in [Tasks -> Task]
  BY <1>2, <1>4, <1>6
<1>8. \A u \in Tasks :
        /\ T[u].session = tasks[u].session /\ T[u].op = tasks[u].op
        /\ T[u].artifact = tasks[u].artifact /\ T[u].sentOn = tasks[u].sentOn
        /\ T[u].status = tasks[u].status
           \/ (tasks[u].status = "EXECUTING" /\ T[u].status \in Terminal)
  <2> SUFFICES ASSUME NEW u \in Tasks
               PROVE  /\ T[u].session = tasks[u].session /\ T[u].op = tasks[u].op
                      /\ T[u].artifact = tasks[u].artifact /\ T[u].sentOn = tasks[u].sentOn
                      /\ T[u].status = tasks[u].status
                         \/ (tasks[u].status = "EXECUTING" /\ T[u].status \in Terminal)
    OBVIOUS
  <2>1. CASE u = t
    BY <1>4, <1>6, <2>1
  <2>2. CASE u # t
    BY <1>4, <1>5, <2>2
  <2> QED
    BY <2>1, <2>2
<1>9. tasks' = T /\ finished' \in Seq(Tasks) /\ Books'
  BY <1>3, <1>7, <1>8, RecordFacts
<1>10. Sent'
  BY <1>3, <1>8, <1>9 DEF Sent, Terminal
<1>11. TasksAsk
  BY <1>8, <1>9 DEF TasksAsk, Terminal
<1>12. DownGrows
  BY <1>3, DownStays
<1>13. troubles' \in 0..MaxTroubles
  BY <1>3, TroubleFacts
<1> QED
  BY <1>3, <1>7, <1>9, <1>10, <1>11, <1>12, <1>13, GatewayKeeps DEF TypeOK

LEMMA TaskTimesOutStep ==
  ASSUME IInv, NEW t \in Tasks, TaskTimesOut(t), UNCHANGED <<sessionVars, screen, job>>
  PROVE  IInv'
<1> USE DEF IInv
<1>1. /\ Record(Finish({t}, "TIMEOUT")) /\ Trouble
      /\ UNCHANGED <<session, socket, stored, wire, up, down, invites>>
  BY DEF TaskTimesOut
<1>2. {t} \in SUBSET Tasks /\ "TIMEOUT" \in Terminal
  BY DEF Terminal
<1>3. /\ tasks' \in [Tasks -> Task] /\ finished' \in Seq(Tasks) /\ Books'
      /\ \A u \in Tasks :
           /\ tasks'[u].session = tasks[u].session /\ tasks'[u].op = tasks[u].op
           /\ tasks'[u].sentOn = tasks[u].sentOn
           /\ tasks'[u].status = tasks[u].status
              \/ (tasks[u].status = "EXECUTING" /\ tasks'[u].status \in Terminal)
  BY <1>1, <1>2, EndOfTasks
<1>4. Sent'
  BY <1>1, <1>3 DEF Sent, Terminal
<1>5. TasksAsk
  BY <1>3 DEF TasksAsk, Terminal
<1>6. DownGrows /\ troubles' \in 0..MaxTroubles
  BY <1>1, DownStays, TroubleFacts
<1> QED
  BY <1>1, <1>3, <1>4, <1>5, <1>6, GatewayKeeps DEF TypeOK

LEMMA ExpireStep ==
  ASSUME IInv, ExpireSession, UNCHANGED <<stored, invites>>,
         up' \in [Sockets -> Seq(UpFrames)], Trouble \/ UNCHANGED troubles,
         UNCHANGED <<sessionVars, screen, job>>
  PROVE  IInv'
<1>1. /\ session' = NoSession /\ socket' = NoSocket
      /\ tasks' \in [Tasks -> Task] /\ finished' \in Seq(Tasks) /\ Books'
      /\ \A t \in Tasks :
           /\ tasks'[t].op = tasks[t].op /\ tasks'[t].status # "EXECUTING"
           /\ tasks'[t].status = "none" => tasks[t].status = "none"
      /\ DownGrows /\ wire' \in [Sockets -> Wire]
      /\ \A c \in Sockets : wire'[c].phone = wire[c].phone
  BY ExpireFacts DEF IInv
<1>2. Sent' /\ TasksAsk
  BY <1>1 DEF Sent, TasksAsk
<1>3. troubles' \in 0..MaxTroubles
  BY TroubleFacts DEF IInv
<1> QED
  BY <1>1, <1>2, <1>3, GatewayKeeps DEF IInv, TypeOK

LEMMA RefuseStep ==
  ASSUME IInv, NEW k \in Sockets, Refuse(k), UNCHANGED invites,
         up' \in [Sockets -> Seq(UpFrames)], Trouble \/ UNCHANGED troubles,
         UNCHANGED <<sessionVars, screen, job>>
  PROVE  IInv'
<1>1. ServerCloses(k) /\ UNCHANGED <<session, socket, tasks, finished, stored>>
  BY DEF Refuse
<1>2. /\ DownGrows /\ wire' \in [Sockets -> Wire]
      /\ \A c \in Sockets : wire'[c].phone = wire[c].phone
  BY <1>1, ServerClosesFacts DEF IInv
<1>3. Books' /\ Sent' /\ TasksAsk
  BY <1>1 DEF IInv, Books, BooksOf, Sent, TasksAsk
<1>4. troubles' \in 0..MaxTroubles
  BY TroubleFacts DEF IInv
<1> QED
  BY <1>1, <1>2, <1>3, <1>4, GatewayKeeps DEF IInv, TypeOK

\* What is neither answered nor acted on changes nothing but the queue it was in.
LEMMA IgnoreStep ==
  ASSUME IInv, Ignore, UNCHANGED invites,
         up' \in [Sockets -> Seq(UpFrames)], Trouble \/ UNCHANGED troubles,
         UNCHANGED <<sessionVars, screen, job>>
  PROVE  IInv'
<1>1. UNCHANGED <<session, socket, tasks, finished, stored, wire, down>>
  BY DEF Ignore
<1>2. Books' /\ Sent' /\ TasksAsk
  BY <1>1 DEF IInv, Books, BooksOf, Sent, TasksAsk
<1>3. troubles' \in 0..MaxTroubles
  BY TroubleFacts DEF IInv
<1>4. DownGrows
  BY <1>1, DownStays DEF IInv
<1> QED
  BY <1>1, <1>2, <1>3, <1>4, GatewayKeeps DEF IInv, TypeOK

LEMMA BindHelloStep ==
  ASSUME IInv, NEW k \in Sockets, NEW s \in Sessions, BindHello(k, s),
         UNCHANGED <<invites, troubles>>, up' \in [Sockets -> Seq(UpFrames)],
         UNCHANGED <<sessionVars, screen, job>>
  PROVE  IInv'
<1>1. CASE Refuse(k)
  BY <1>1, RefuseStep
<1>2. CASE ~Refuse(k)
  <2>1. /\ session = s /\ socket' = k
        /\ wire' = [wire EXCEPT ![k].session = s, ![k].server = "open"]
        /\ Send(k, Executing(s), tasks) /\ UNCHANGED <<session, stored>>
    BY <1>2 DEF BindHello
  <2>2. PICK ts \in SUBSET Tasks : ts = Executing(s)
    BY DEF Executing
  <2>3. PICK T : T = tasks /\ T \in [Tasks -> Task]
    BY DEF IInv, TypeOK
  <2>4. Send(k, ts, T)
    BY <2>1, <2>2, <2>3
  <2>5. \A t \in Tasks : /\ T[t].status = tasks[t].status /\ T[t].op = tasks[t].op
                         /\ T[t].artifact = tasks[t].artifact
                         /\ T[t].session = tasks[t].session
                         /\ T[t].status = "EXECUTING" => T[t].op # "none"
    BY <2>3 DEF IInv, Sent
  <2>6. TypeOK /\ Books /\ stored' = stored
    BY <2>1 DEF IInv
  <2>7. /\ tasks' \in [Tasks -> Task] /\ finished' \in Seq(Tasks) /\ Books' /\ DownGrows
        /\ \A t \in Tasks :
             /\ tasks'[t].session = tasks[t].session /\ tasks'[t].op = tasks[t].op
             /\ tasks'[t].status = tasks[t].status
                \/ (tasks[t].status = "EXECUTING" /\ tasks'[t].status \in Terminal)
             /\ tasks'[t].sentOn \in {T[t].sentOn, k}
             /\ t \in ts /\ tasks'[t].status = "EXECUTING" => tasks'[t].sentOn = k
    <3>1. T \in [Tasks -> Task]
      BY <2>3
    <3>2. /\ tasks' \in [Tasks -> Task] /\ finished' \in Seq(Tasks) /\ Books' /\ DownGrows
          /\ \A t \in Tasks : tasks'[t].session = tasks[t].session
          /\ \A t \in Tasks : tasks'[t].op = tasks[t].op
      BY <2>4, <2>5, <2>6, <3>1, SendFacts
    <3>3. \A t \in Tasks :
            tasks'[t].status = tasks[t].status
            \/ (tasks[t].status = "EXECUTING" /\ tasks'[t].status \in Terminal)
      BY <2>4, <2>5, <2>6, <3>1, SendFacts
    <3>4. \A t \in Tasks : tasks'[t].sentOn \in {T[t].sentOn, k}
      BY <2>4, <2>5, <2>6, <3>1, SendFacts
    <3>5. \A t \in Tasks :
            t \in ts /\ tasks'[t].status = "EXECUTING" => tasks'[t].sentOn = k
      BY <2>4, <2>5, <2>6, <3>1, SendFacts
    <3> QED
      BY <3>2, <3>3, <3>4, <3>5
  <2>8. Sent'
    <3> SUFFICES ASSUME NEW t \in Tasks, tasks'[t].status = "EXECUTING"
                 PROVE  /\ tasks'[t].session = session' /\ session' # NoSession
                        /\ tasks'[t].op # "none" /\ tasks'[t].sentOn = socket'
      BY DEF Sent
    <3>1. tasks[t].status = "EXECUTING"
      BY <2>7 DEF Terminal
    <3>2. tasks[t].session = s /\ s # NoSession /\ tasks[t].op # "none"
      BY <2>1, <3>1 DEF IInv, Sent
    <3>3. t \in ts
      BY <2>2, <3>1, <3>2 DEF Executing
    <3> QED
      BY <2>1, <2>7, <3>2, <3>3
  <2>9. TasksAsk
    BY <2>7 DEF TasksAsk, Terminal
  <2>10. wire' \in [Sockets -> Wire] /\ \A c \in Sockets : wire'[c].phone = wire[c].phone
    <3>1. wire \in [Sockets -> Wire] /\ wire[k] \in Wire
      BY DEF IInv, TypeOK
    <3>2. PICK w : w = [wire[k] EXCEPT !.session = s]
      OBVIOUS
    <3>3. w \in Wire /\ w.phone = wire[k].phone
      BY <3>1, <3>2 DEF Wire
    <3>4. PICK v : v = [w EXCEPT !.server = "open"]
      OBVIOUS
    <3>5. v \in Wire /\ v.phone = w.phone
      BY <3>3, <3>4 DEF Wire
    <3>6. wire' = [wire EXCEPT ![k] = v]
      BY <2>1, <3>1, <3>2, <3>4
    <3> QED
      BY <3>1, <3>3, <3>5, <3>6
  <2>11. troubles' \in 0..MaxTroubles /\ session' \in Sessions \cup {NoSession}
    BY <2>1, TroubleFacts DEF IInv, TypeOK
  <2> QED
    BY <2>1, <2>7, <2>8, <2>9, <2>10, <2>11, GatewayKeeps DEF IInv, TypeOK
<1> QED
  BY <1>1, <1>2

LEMMA ResponseStep ==
  ASSUME IInv, NEW k \in Sockets, NEW m \in UpFrames, m.type = "response",
         HandleResponse(k, m),
         UNCHANGED <<invites, troubles>>, up' \in [Sockets -> Seq(UpFrames)],
         UNCHANGED <<sessionVars, screen, job>>
  PROVE  IInv'
<1>1. CASE Refuse(k)
  BY <1>1, RefuseStep
<1>2. CASE ~Refuse(k)
  <2>1. m.task \in Tasks /\ m.status \in Terminal
    BY DEF UpFrames
  <2>2. PICK status \in Terminal, ts \in SUBSET Tasks : Record(Finish(ts, status))
    <3>1. {m.task} \in SUBSET Tasks /\ "FAILURE" \in Terminal
      BY <2>1 DEF Terminal
    <3>2. PICK x \in Terminal :
            x = IF /\ tasks[m.task].op = "capture" /\ m.status = "SUCCESS"
                   /\ tasks[m.task].artifact # m.artifact
                  THEN "FAILURE" ELSE m.status
      BY <2>1, <3>1
    <3>3. Record(Finish({m.task}, x))
      BY <1>2, <3>2 DEF HandleResponse
    <3> QED
      BY <3>1, <3>3
  <2>3. UNCHANGED <<session, socket, stored, wire, down>>
    BY <1>2 DEF HandleResponse
  <2>4. /\ tasks' \in [Tasks -> Task] /\ finished' \in Seq(Tasks) /\ Books'
        /\ \A u \in Tasks :
             /\ tasks'[u].session = tasks[u].session /\ tasks'[u].op = tasks[u].op
             /\ tasks'[u].sentOn = tasks[u].sentOn
             /\ tasks'[u].status = tasks[u].status
                \/ (tasks[u].status = "EXECUTING" /\ tasks'[u].status \in Terminal)
    BY <2>2, <2>3, EndOfTasks DEF IInv
  <2>5. Sent'
    BY <2>3, <2>4 DEF IInv, Sent, Terminal
  <2>6. TasksAsk
    BY <2>4 DEF TasksAsk, Terminal
  <2>7. DownGrows /\ troubles' \in 0..MaxTroubles
    BY <2>3, DownStays, TroubleFacts DEF IInv
  <2> QED
    BY <2>3, <2>4, <2>5, <2>6, <2>7, GatewayKeeps DEF IInv, TypeOK
<1> QED
  BY <1>1, <1>2

LEMMA CloseStep ==
  ASSUME IInv, NEW k \in Sockets, HandleClose(k),
         UNCHANGED <<invites, troubles>>, up' \in [Sockets -> Seq(UpFrames)],
         UNCHANGED <<sessionVars, screen, job>>
  PROVE  IInv'
<1>1. CASE ExpireSession /\ UNCHANGED stored
  BY <1>1, ExpireStep
<1>2. CASE Ignore
  BY <1>2, IgnoreStep
<1> QED
  BY <1>1, <1>2 DEF HandleClose

\* A screenshot is stored in a free place or in that of the oldest one.
LEMMA StoreFacts ==
  ASSUME TypeOK, Books, NEW t \in Tasks, NEW n \in 1..MaxStarts,
         tasks[t].status = "EXECUTING", tasks[t].artifact = 0,
         NEW full \in BOOLEAN, full <=> stored >= ArtifactCapacity,
         full => OldestArtifact # {},
         tasks' = [i \in Tasks |->
                    CASE i = t -> [tasks[i] EXCEPT !.artifact = n]
                      [] full /\ i \in OldestArtifact -> [tasks[i] EXCEPT !.artifact = 0]
                      [] OTHER -> tasks[i]],
         stored' = IF full THEN stored ELSE stored + 1,
         UNCHANGED finished
  PROVE  /\ tasks' \in [Tasks -> Task] /\ stored' \in Nat /\ Books'
         /\ \A u \in Tasks :
              /\ tasks'[u].status = tasks[u].status /\ tasks'[u].op = tasks[u].op
              /\ tasks'[u].session = tasks[u].session /\ tasks'[u].sentOn = tasks[u].sentOn
<1>1. /\ finished \in Seq(Tasks) /\ Len(finished) \in Nat /\ stored \in Nat
      /\ tasks \in [Tasks -> Task]
      /\ \A i \in 1..Len(finished) : finished[i] \in Tasks
  BY DEF TypeOK
<1>2. /\ \A i, j \in 1..Len(finished) : finished[i] = finished[j] => i = j
      /\ \A i \in 1..Len(finished) : tasks[finished[i]].status \in Terminal
      /\ \A u \in Tasks : tasks[u].status \in {"none", "gone"} => tasks[u].artifact = 0
      /\ stored = Cardinality({u \in Tasks : tasks[u].artifact # 0})
      /\ stored <= ArtifactCapacity
  BY DEF Books, BooksOf
<1>3. \A u \in OldestArtifact : /\ u \in Tasks /\ tasks[u].artifact # 0
                                /\ tasks[u].status \in Terminal
  BY <1>1, <1>2 DEF OldestArtifact
<1>4. \A u, v \in OldestArtifact : u = v
  <2> SUFFICES ASSUME NEW u \in OldestArtifact, NEW v \in OldestArtifact
               PROVE  u = v
    OBVIOUS
  <2> DEFINE held == {i \in 1..Len(finished) : tasks[finished[i]].artifact # 0}
  <2>1. PICK i \in held : u = finished[i] /\ \A h \in held : i <= h
    BY DEF OldestArtifact
  <2>2. PICK j \in held : v = finished[j] /\ \A h \in held : j <= h
    BY DEF OldestArtifact
  <2>3. i <= j /\ j <= i /\ i \in Nat /\ j \in Nat
    BY <1>1, <2>1, <2>2
  <2> QED
    BY <2>1, <2>2, <2>3
<1>5. t \notin OldestArtifact
  BY <1>3 DEF Terminal
<1>6. \A u \in Tasks :
        /\ tasks'[u] \in Task
        /\ tasks'[u].status = tasks[u].status /\ tasks'[u].op = tasks[u].op
        /\ tasks'[u].session = tasks[u].session /\ tasks'[u].sentOn = tasks[u].sentOn
        /\ u = t => tasks'[u].artifact = n
        /\ full /\ u \in OldestArtifact => tasks'[u].artifact = 0
        /\ u # t /\ ~(full /\ u \in OldestArtifact) => tasks'[u].artifact = tasks[u].artifact
  <2> SUFFICES ASSUME NEW u \in Tasks
               PROVE  /\ tasks'[u] \in Task
                      /\ tasks'[u].status = tasks[u].status /\ tasks'[u].op = tasks[u].op
                      /\ tasks'[u].session = tasks[u].session
                      /\ tasks'[u].sentOn = tasks[u].sentOn
                      /\ u = t => tasks'[u].artifact = n
                      /\ full /\ u \in OldestArtifact => tasks'[u].artifact = 0
                      /\ u # t /\ ~(full /\ u \in OldestArtifact) =>
                           tasks'[u].artifact = tasks[u].artifact
    OBVIOUS
  <2>1. tasks[u] \in Task /\ n \in 0..MaxStarts /\ 0 \in 0..MaxStarts
    BY <1>1, ExecutorAssumption
  <2>2. CASE u = t
    <3>1. tasks'[u] = [tasks[u] EXCEPT !.artifact = n]
      BY <1>5, <2>2
    <3> QED
      BY <1>5, <2>1, <2>2, <3>1 DEF Task
  <2>3. CASE u # t /\ full /\ u \in OldestArtifact
    <3>1. tasks'[u] = [tasks[u] EXCEPT !.artifact = 0]
      BY <2>3
    <3> QED
      BY <2>1, <2>3, <3>1 DEF Task
  <2>4. CASE u # t /\ ~(full /\ u \in OldestArtifact)
    <3>1. tasks'[u] = tasks[u]
      BY <2>4
    <3> QED
      BY <2>1, <2>4, <3>1
  <2> QED
    BY <2>2, <2>3, <2>4
<1>7. tasks' \in [Tasks -> Task]
  BY <1>6
<1> DEFINE A == {u \in Tasks : tasks[u].artifact # 0}
           B == {u \in Tasks : tasks'[u].artifact # 0}
<1>8. /\ IsFiniteSet(A) /\ Cardinality(A) = stored /\ t \notin A
      /\ \A u : u \in A <=> u \in Tasks /\ tasks[u].artifact # 0
      /\ \A u : u \in B <=> u \in Tasks /\ tasks'[u].artifact # 0
  BY <1>2, SomeTasks
<1>9. stored' = Cardinality(B)
  <2>1. CASE ~full
    <3>1. B = A \cup {t}
      BY <1>6, <1>8, <2>1
    <3> HIDE DEF A, B
    <3> QED
      BY <1>8, <2>1, <3>1, FS_AddElement
  <2>2. CASE full
    <3>1. PICK o \in OldestArtifact : TRUE
      BY <2>2
    <3>2. o \in A /\ o # t
      BY <1>3, <1>5, <1>8
    <3>3. B = (A \ {o}) \cup {t}
      BY <1>3, <1>4, <1>6, <1>8, <2>2
    <3> HIDE DEF A, B
    <3>4. PICK D : D = A \ {o}
      OBVIOUS
    <3>5. IsFiniteSet(D) /\ Cardinality(D) = stored - 1 /\ t \notin D
      BY <1>8, <3>2, <3>4, FS_RemoveElement
    <3>6. B = D \cup {t}
      BY <3>3, <3>4
    <3>7. Cardinality(D \cup {t}) = Cardinality(D) + 1
      BY <3>5, FS_AddElement
    <3> QED
      BY <1>1, <2>2, <3>5, <3>6, <3>7
  <2> QED
    BY <2>1, <2>2
<1>10. stored' \in Nat /\ stored' <= ArtifactCapacity
  <2>1. ArtifactCapacity \in Nat
    BY GatewayAssumption
  <2> QED
    BY <1>1, <1>2, <2>1
<1>11. \A u \in Tasks : tasks'[u].status \in {"none", "gone"} => tasks'[u].artifact = 0
  BY <1>2, <1>6
<1>12. \A i \in 1..Len(finished') : tasks'[finished'[i]].status \in Terminal
  BY <1>1, <1>2, <1>6
<1> QED
  BY <1>2, <1>6, <1>7, <1>9, <1>10, <1>11, <1>12 DEF Books, BooksOf

LEMMA ArtifactStep ==
  ASSUME IInv, NEW k \in Sockets, NEW t \in Tasks, NEW n \in 1..MaxStarts,
         HandleArtifact(k, t, n),
         UNCHANGED <<invites, troubles>>, up' \in [Sockets -> Seq(UpFrames)],
         UNCHANGED <<sessionVars, screen, job>>
  PROVE  IInv'
<1>1. CASE Refuse(k)
  BY <1>1, RefuseStep
<1>2. CASE Ignore
  BY <1>2, IgnoreStep
<1>3. CASE ~Refuse(k) /\ ~Ignore
  <2>1. PICK full \in BOOLEAN : full <=> stored >= ArtifactCapacity
    OBVIOUS
  <2>2. /\ tasks[t].status = "EXECUTING" /\ tasks[t].artifact = 0
        /\ UNCHANGED <<session, socket, wire, down>>
        /\ \/ Record(Finish({t}, "FAILURE")) /\ UNCHANGED stored
           \/ /\ full => OldestArtifact # {}
              /\ tasks' = [i \in Tasks |->
                    CASE i = t -> [tasks[i] EXCEPT !.artifact = n]
                      [] full /\ i \in OldestArtifact -> [tasks[i] EXCEPT !.artifact = 0]
                      [] OTHER -> tasks[i]]
              /\ stored' = IF full THEN stored ELSE stored + 1
              /\ UNCHANGED finished
    BY <1>3, <2>1 DEF HandleArtifact
  <2>3. /\ tasks' \in [Tasks -> Task] /\ finished' \in Seq(Tasks) /\ stored' \in Nat /\ Books'
        /\ \A u \in Tasks :
             /\ tasks'[u].session = tasks[u].session /\ tasks'[u].op = tasks[u].op
             /\ tasks'[u].sentOn = tasks[u].sentOn
             /\ tasks'[u].status = tasks[u].status
                \/ (tasks[u].status = "EXECUTING" /\ tasks'[u].status \in Terminal)
    <3>1. CASE Record(Finish({t}, "FAILURE")) /\ UNCHANGED stored
      <4>1. {t} \in SUBSET Tasks /\ "FAILURE" \in Terminal
        BY DEF Terminal
      <4> QED
        BY <3>1, <4>1, EndOfTasks DEF IInv, TypeOK
    <3>2. CASE ~(Record(Finish({t}, "FAILURE")) /\ UNCHANGED stored)
      <4>1. /\ full => OldestArtifact # {}
            /\ tasks' = [i \in Tasks |->
                  CASE i = t -> [tasks[i] EXCEPT !.artifact = n]
                    [] full /\ i \in OldestArtifact -> [tasks[i] EXCEPT !.artifact = 0]
                    [] OTHER -> tasks[i]]
            /\ stored' = IF full THEN stored ELSE stored + 1
            /\ UNCHANGED finished
        BY <2>2, <3>2
      <4>2. /\ tasks' \in [Tasks -> Task] /\ stored' \in Nat /\ Books'
            /\ \A u \in Tasks :
                 /\ tasks'[u].status = tasks[u].status /\ tasks'[u].op = tasks[u].op
                 /\ tasks'[u].session = tasks[u].session /\ tasks'[u].sentOn = tasks[u].sentOn
        <5>1. TypeOK /\ Books /\ tasks[t].status = "EXECUTING" /\ tasks[t].artifact = 0
              /\ (full <=> stored >= ArtifactCapacity)
          BY <2>1, <2>2 DEF IInv
        <5>2. tasks' \in [Tasks -> Task] /\ stored' \in Nat /\ Books'
          BY <4>1, <5>1, StoreFacts
        <5>3. \A u \in Tasks :
                 /\ tasks'[u].status = tasks[u].status /\ tasks'[u].op = tasks[u].op
                 /\ tasks'[u].session = tasks[u].session /\ tasks'[u].sentOn = tasks[u].sentOn
          BY <4>1, <5>1, StoreFacts
        <5> QED
          BY <5>2, <5>3
      <4> QED
        BY <4>1, <4>2 DEF IInv, TypeOK
    <3> QED
      BY <3>1, <3>2
  <2>4. Sent'
    BY <2>2, <2>3 DEF IInv, Sent, Terminal
  <2>5. TasksAsk
    BY <2>3 DEF TasksAsk, Terminal
  <2>6. DownGrows /\ troubles' \in 0..MaxTroubles
    BY <2>2, DownStays, TroubleFacts DEF IInv
  <2> QED
    BY <2>2, <2>3, <2>4, <2>5, <2>6, GatewayKeeps DEF IInv, TypeOK
<1> QED
  BY <1>1, <1>2, <1>3

LEMMA ServerReceivesStep ==
  ASSUME IInv, NEW k \in Sockets, ServerReceives(k), UNCHANGED <<sessionVars, executorVars>>
  PROVE  IInv'
<1>1. PICK m : m = Head(up[k])
  OBVIOUS
<1>2. up[k] \in Seq(UpFrames) /\ up[k] # <<>> /\ up' = [up EXCEPT ![k] = Tail(@)]
      /\ up \in [Sockets -> Seq(UpFrames)]
  BY DEF IInv, TypeOK, ServerReceives
<1>3. m \in UpFrames /\ Tail(up[k]) \in Seq(UpFrames)
  BY <1>1, <1>2
<1>4. up' \in [Sockets -> Seq(UpFrames)]
  BY <1>2, <1>3
<1>5. UNCHANGED <<invites, troubles>> /\ UNCHANGED <<sessionVars, screen, job>>
  BY DEF ServerReceives, executorVars
<1>6. \/ m.type = "hello" /\ BindHello(k, m.session)
      \/ Refuse(k)
      \/ m.type = "artifact" /\ HandleArtifact(k, m.job[1], m.job[2])
      \/ m.type = "response" /\ HandleResponse(k, m)
      \/ HandleClose(k)
  BY <1>1 DEF ServerReceives
<1>7. CASE m.type = "hello" /\ BindHello(k, m.session)
  <2>1. m.session \in Sessions
    BY <1>3, <1>7 DEF UpFrames
  <2> QED
    BY <1>4, <1>5, <1>7, <2>1, BindHelloStep
<1>8. CASE Refuse(k)
  BY <1>4, <1>5, <1>8, RefuseStep
<1>9. CASE m.type = "artifact" /\ HandleArtifact(k, m.job[1], m.job[2])
  <2>1. m.job \in Jobs
    BY <1>3, <1>9 DEF UpFrames
  <2>2. m.job[1] \in Tasks /\ m.job[2] \in 1..MaxStarts
    BY <2>1 DEF Jobs
  <2> QED
    BY <1>4, <1>5, <1>9, <2>2, ArtifactStep
<1>10. CASE m.type = "response" /\ HandleResponse(k, m)
  BY <1>3, <1>4, <1>5, <1>10, ResponseStep
<1>11. CASE HandleClose(k)
  BY <1>4, <1>5, <1>11, CloseStep
<1> QED
  BY <1>6, <1>7, <1>8, <1>9, <1>10, <1>11

LEMMA HelloTimesOutStep ==
  ASSUME IInv, NEW k \in Sockets, HelloTimesOut(k), UNCHANGED <<sessionVars, screen, job>>
  PROVE  IInv'
<1>1. up' \in [Sockets -> Seq(UpFrames)]
  <2>1. up' = [up EXCEPT ![k] = <<>>] /\ up \in [Sockets -> Seq(UpFrames)]
    BY DEF HelloTimesOut, IInv, TypeOK
  <2>2. <<>> \in Seq(UpFrames)
    OBVIOUS
  <2> QED
    BY <2>1, <2>2
<1> QED
  BY <1>1, RefuseStep DEF HelloTimesOut

LEMMA SessionExpiresStep ==
  ASSUME IInv, SessionExpires, UNCHANGED <<sessionVars, screen, job>>
  PROVE  IInv'
  BY ExpireStep DEF SessionExpires, IInv, TypeOK

LEMMA ServerSeesCloseStep ==
  ASSUME IInv, NEW k \in Sockets, ServerSeesClose(k), UNCHANGED <<sessionVars, executorVars>>
  PROVE  IInv'
<1>1. up' \in [Sockets -> Seq(UpFrames)]
  <2>1. up' = [up EXCEPT ![k] = <<>>] /\ up \in [Sockets -> Seq(UpFrames)]
    BY DEF ServerSeesClose, IInv, TypeOK
  <2>2. <<>> \in Seq(UpFrames)
    OBVIOUS
  <2> QED
    BY <2>1, <2>2
<1>2. wire' \in [Sockets -> Wire] /\ \A c \in Sockets : wire'[c].phone = wire[c].phone
  <2>1. wire' = [wire EXCEPT ![k].server = "closed"] /\ wire \in [Sockets -> Wire]
    BY DEF ServerSeesClose, IInv, TypeOK
  <2>2. wire'[k] = [wire[k] EXCEPT !.server = "closed"] /\ wire[k] \in Wire
        /\ \A c \in Sockets : c # k => wire'[c] = wire[c]
    BY <2>1
  <2>3. wire'[k] \in Wire /\ wire'[k].phone = wire[k].phone
    BY <2>2 DEF Wire
  <2> QED
    BY <2>1, <2>2, <2>3
<1>3. UNCHANGED <<session, stored, down, invites, troubles>> /\ DownGrows
      /\ UNCHANGED <<sessionVars, screen, job>>
  BY DownStays DEF ServerSeesClose, executorVars, IInv
<1>4. /\ tasks' \in [Tasks -> Task] /\ finished' \in Seq(Tasks) /\ Books' /\ Sent' /\ TasksAsk
      /\ socket' \in Sockets \cup {NoSocket}
  <2>1. CASE socket # k
    <3>1. UNCHANGED <<socket, tasks, finished>>
      BY <2>1 DEF ServerSeesClose
    <3> QED
      BY <1>3, <3>1 DEF IInv, TypeOK, Books, BooksOf, Sent, TasksAsk
  <2>2. CASE socket = k
    <3>1. PICK ts \in SUBSET Tasks : ts = {t \in Executing(session) : tasks[t].sentOn = k}
      BY DEF Executing
    <3>2. socket' = NoSocket /\ Record(Finish(ts, "FAILURE")) /\ "FAILURE" \in Terminal
      BY <2>2, <3>1 DEF ServerSeesClose, Terminal
    <3>3. /\ tasks' \in [Tasks -> Task] /\ finished' \in Seq(Tasks) /\ Books'
          /\ \A t \in Tasks :
               /\ tasks'[t].session = tasks[t].session /\ tasks'[t].op = tasks[t].op
               /\ tasks'[t].sentOn = tasks[t].sentOn
               /\ tasks'[t].status = tasks[t].status
                  \/ (tasks[t].status = "EXECUTING" /\ tasks'[t].status \in Terminal)
               /\ t \in ts => tasks'[t].status # "EXECUTING"
      BY <1>3, <3>2, EndOfTasks DEF IInv
    <3>4. Sent'
      <4> SUFFICES ASSUME NEW t \in Tasks, tasks'[t].status = "EXECUTING"
                   PROVE  /\ tasks'[t].session = session' /\ session' # NoSession
                          /\ tasks'[t].op # "none"
                          /\ tasks'[t].sentOn \in {NoSocket, socket'}
        BY DEF Sent
      <4>1. tasks[t].status = "EXECUTING" /\ t \notin ts
        BY <3>3 DEF Terminal
      <4>2. /\ tasks[t].session = session /\ session # NoSession /\ tasks[t].op # "none"
            /\ tasks[t].sentOn \in {NoSocket, k}
        BY <2>2, <4>1 DEF IInv, Sent
      <4>3. tasks[t].sentOn = NoSocket
        BY <3>1, <4>1, <4>2 DEF Executing
      <4> QED
        BY <1>3, <3>3, <4>2, <4>3
    <3>5. TasksAsk
      BY <3>3 DEF TasksAsk, Terminal
    <3> QED
      BY <3>2, <3>3, <3>4, <3>5
  <2> QED
    BY <2>1, <2>2
<1> QED
  BY <1>1, <1>2, <1>3, <1>4, GatewayKeeps DEF IInv, TypeOK

LEMMA ServerRestartsStep ==
  ASSUME IInv, ServerRestarts, UNCHANGED <<sessionVars, screen, job>>
  PROVE  IInv'
<1>1. /\ Trouble /\ session' = NoSession /\ socket' = NoSocket
      /\ tasks' = [t \in Tasks |-> IF tasks[t].status = "none" THEN tasks[t]
                                   ELSE [NoTask EXCEPT !.status = "gone"]]
      /\ finished' = <<>> /\ stored' = 0
      /\ wire' = [k \in Sockets |->
           IF wire[k].server = "none" THEN wire[k] ELSE [wire[k] EXCEPT !.server = "closed"]]
      /\ up' = [k \in Sockets |-> <<>>]
      /\ down' = [k \in Sockets |->
           IF wire[k].phone = "open" THEN Append(down[k], Eof) ELSE down[k]]
      /\ UNCHANGED invites
  BY DEF ServerRestarts
<1>2. PICK gone : gone = [NoTask EXCEPT !.status = "gone"]
  OBVIOUS
<1>3. gone = [status |-> "gone", session |-> NoSession, op |-> "none",
              publishing |-> FALSE, sentOn |-> NoSocket, artifact |-> 0]
  BY <1>2 DEF NoTask
<1>4. gone \in Task
  <2>1. 0 \in 0..MaxStarts
    BY ExecutorAssumption
  <2> QED
    BY <1>3, <2>1 DEF Task
<1>5. \A t \in Tasks :
        /\ tasks'[t] \in Task /\ tasks'[t].status \in {"none", "gone"}
        /\ tasks'[t].artifact = 0 /\ tasks'[t].op \in {tasks[t].op, "none"}
        /\ tasks'[t].status = "none" => tasks[t].status = "none"
  <2> SUFFICES ASSUME NEW t \in Tasks
               PROVE  /\ tasks'[t] \in Task /\ tasks'[t].status \in {"none", "gone"}
                      /\ tasks'[t].artifact = 0 /\ tasks'[t].op \in {tasks[t].op, "none"}
                      /\ tasks'[t].status = "none" => tasks[t].status = "none"
    OBVIOUS
  <2>1. CASE tasks[t].status = "none"
    BY <1>1, <2>1 DEF IInv, TypeOK, Books, BooksOf
  <2>2. CASE tasks[t].status # "none"
    <3>1. tasks'[t] = gone
      BY <1>1, <1>2, <2>2
    <3> QED
      BY <1>3, <1>4, <3>1
  <2> QED
    BY <2>1, <2>2
<1>6. tasks' \in [Tasks -> Task]
  BY <1>1, <1>5
<1>7. finished' \in Seq(Tasks) /\ Len(finished') = 0 /\ stored' \in Nat
  BY <1>1
<1>8. Books'
  <2>1. {t \in Tasks : tasks'[t].artifact # 0} = {}
    BY <1>5
  <2>2. Cardinality({t \in Tasks : tasks'[t].artifact # 0}) = 0
    BY <2>1, FS_EmptySet
  <2>3. ArtifactCapacity \in Nat
    BY GatewayAssumption
  <2> QED
    BY <1>1, <1>5, <1>7, <2>2, <2>3 DEF Books, BooksOf
<1>9. Sent'
  BY <1>5 DEF Sent
<1>10. TasksAsk
  BY <1>5 DEF TasksAsk
<1>11. wire' \in [Sockets -> Wire] /\ \A c \in Sockets : wire'[c].phone = wire[c].phone
  <2>1. wire \in [Sockets -> Wire]
    BY DEF IInv, TypeOK
  <2>2. \A c \in Sockets : wire'[c] \in Wire /\ wire'[c].phone = wire[c].phone
    BY <1>1, <2>1 DEF Wire
  <2> QED
    BY <1>1, <2>2
<1>12. up' \in [Sockets -> Seq(UpFrames)]
  BY <1>1
<1>13. DownGrows
  <2>1. down \in [Sockets -> Seq(DownFrames)] /\ Eof \in DownFrames /\ Asked(Eof)
    BY DEF IInv, TypeOK, Eof, DownFrames, Asked
  <2> SUFFICES ASSUME NEW k \in Sockets
               PROVE  /\ down'[k] \in Seq(DownFrames)
                      /\ \A i \in 1..Len(down'[k]) :
                           FrameOf(down'[k][i], k) \/ Asked(down'[k][i])
    BY <1>1 DEF DownGrows
  <2>2. down[k] \in Seq(DownFrames) /\ Len(down[k]) \in Nat
    BY <2>1
  <2>3. CASE down'[k] = down[k]
    BY <2>2, <2>3 DEF FrameOf
  <2>4. CASE down'[k] = Append(down[k], Eof)
    <3>1. /\ down'[k] \in Seq(DownFrames) /\ Len(down'[k]) = Len(down[k]) + 1
          /\ down'[k][Len(down[k]) + 1] = Eof
          /\ \A i \in 1..Len(down[k]) : down'[k][i] = down[k][i]
      BY <2>1, <2>2, <2>4
    <3>2. \A i \in 1..Len(down'[k]) : i \in 1..Len(down[k]) \/ i = Len(down[k]) + 1
      BY <2>2, <3>1
    <3> QED
      BY <2>1, <3>1, <3>2 DEF FrameOf
  <2> QED
    BY <1>1, <2>3, <2>4
<1>14. troubles' \in 0..MaxTroubles
  BY <1>1, TroubleFacts DEF IInv
<1> QED
  BY <1>1, <1>6, <1>7, <1>8, <1>9, <1>10, <1>11, <1>12, <1>13, <1>14, GatewayKeeps
     DEF IInv, TypeOK

-----------------------------------------------------------------------------
(* The steps of the phone: its session.                                    *)

\* They leave the server alone.
LEMMA PhoneKeeps ==
  ASSUME IInv, GatewayUnchanged,
         wire' \in [Sockets -> Wire], up' \in [Sockets -> Seq(UpFrames)], DownGrows,
         active' \in Sessions \cup {NoSession},
         line' \in Sockets \cup {NoSocket}, shotOn' \in Sockets \cup {NoSocket},
         responses' \in [Tasks -> Terminal \cup {"none"}],
         artifactOf' \in [Tasks -> 0..MaxStarts], blocked' \in BOOLEAN,
         openings' \in 0..MaxOpenings,
         screen' \in Screen, job' \in [Jobs -> Job], troubles' \in 0..MaxTroubles,
         JobsAsk, FirstSession', Settled'
  PROVE  IInv'
<1>1. UNCHANGED <<session, socket, tasks, finished, stored, invites>>
  BY DEF GatewayUnchanged
<1>2. Books' /\ Sent' /\ TasksAsk
  BY <1>1 DEF IInv, Books, BooksOf, Sent, TasksAsk
<1>3. OneOp'
  BY <1>2, OneOpStep DEF IInv
<1>4. TypeOK'
  <2>1. down' \in [Sockets -> Seq(DownFrames)]
    BY DEF DownGrows
  <2> QED
    BY <1>1, <2>1 DEF IInv, TypeOK
<1> QED
  BY <1>2, <1>3, <1>4 DEF IInv

\* A step that starts nothing and hears no more than before.
LEMMA FirstSessionStep ==
  ASSUME FirstSession, openings' = openings,
         line' # NoSocket => active' # NoSession,
         openings = 0 => active' = NoSession /\ \A k \in Sockets : wire'[k].phone = "none",
         \A t \in Tasks, n \in 1..MaxStarts : Started(t, n)' => Started(t, n),
         Listening' => /\ Listening
                       /\ \A t \in Tasks, n \in 1..MaxStarts :
                            /\ responses[t] # "none" => responses'[t] # "none"
                            /\ job[<<t, n>>].held =>
                                 job'[<<t, n>>].held \/ responses'[t] # "none"
  PROVE  FirstSession'
  BY DEF FirstSession

\* A step that begins no change of the brightness and continues none.
LEMMA SettledStep ==
  ASSUME Settled, screen' = screen,
         \A i \in Jobs : IsSetting(i)' =>
           /\ job'[i].step = job[i].step /\ job'[i].want = job[i].want
           /\ job'[i].prev = job[i].prev
           /\ job'[i].clean => job[i].clean
  PROVE  Settled'
<1> SUFFICES ASSUME NEW j \in Jobs, IsSetting(j)', job'[j].clean
             PROVE  Undisturbed(job[j])' /\ \A i \in Jobs : IsSetting(i)' => i = j
  BY DEF Settled
<1>1. \A i \in Jobs : IsSetting(i)' => IsSetting(i)
  BY DEF IsSetting
<1>2. /\ IsSetting(j) /\ job[j].clean
      /\ job'[j].step = job[j].step /\ job'[j].want = job[j].want
      /\ job'[j].prev = job[j].prev
  BY <1>1
<1>3. Undisturbed(job[j]) /\ \A i \in Jobs : IsSetting(i) => i = j
  BY <1>2 DEF Settled
<1>4. Undisturbed(job[j])'
  BY <1>2, <1>3 DEF Undisturbed
<1> QED
  BY <1>1, <1>3, <1>4

\* A step of the session that leaves the executions alone.
LEMMA SessionKeeps ==
  ASSUME IInv, GatewayUnchanged, UNCHANGED <<screen, job>>,
         troubles' \in 0..MaxTroubles,
         wire' \in [Sockets -> Wire], up' \in [Sockets -> Seq(UpFrames)], DownGrows,
         active' \in Sessions \cup {NoSession},
         line' \in Sockets \cup {NoSocket}, shotOn' \in Sockets \cup {NoSocket},
         responses' \in [Tasks -> Terminal \cup {"none"}],
         artifactOf' \in [Tasks -> 0..MaxStarts], blocked' \in BOOLEAN,
         openings' = openings,
         line' # NoSocket => active' # NoSession,
         openings = 0 => active' = NoSession /\ \A k \in Sockets : wire'[k].phone = "none",
         Listening' => Listening,
         \A t \in Tasks : responses[t] # "none" => responses'[t] # "none"
  PROVE  IInv'
<1>1. JobsAsk
  BY DEF JobsAsk
<1>2. Settled'
  BY SettledStep DEF IInv, IsSetting
<1>3. FirstSession'
  <2>1. \A t \in Tasks, n \in 1..MaxStarts : Started(t, n)' => Started(t, n)
    BY DEF Started
  <2>2. FirstSession /\ \A t \in Tasks, n \in 1..MaxStarts : job'[<<t, n>>] = job[<<t, n>>]
    BY DEF IInv
  <2> QED
    BY <2>1, <2>2, FirstSessionStep
<1>4. /\ openings' \in 0..MaxOpenings /\ screen' \in Screen /\ job' \in [Jobs -> Job]
  BY DEF IInv, TypeOK
<1> QED
  BY <1>1, <1>2, <1>3, <1>4, PhoneKeeps

LEMMA HandleOpenCommandStep ==
  ASSUME IInv, NEW s \in Sessions, HandleOpenCommand(s)
  PROVE  IInv'
<1>1. /\ active = NoSession /\ openings < MaxOpenings /\ openings' = openings + 1
      /\ active' = s /\ responses' = NoResponses /\ artifactOf' = NoArtifacts
      /\ job' = [j \in Jobs |-> [job[j] EXCEPT !.held = FALSE]]
      /\ UNCHANGED <<line, shotOn, blocked, wire, up, down, screen, troubles>>
      /\ GatewayUnchanged
  BY DEF HandleOpenCommand
<1>2. \A j \in Jobs :
        /\ job'[j] \in Job /\ job'[j].step = job[j].step /\ job'[j].op = job[j].op
        /\ job'[j].want = job[j].want /\ job'[j].prev = job[j].prev
        /\ job'[j].clean = job[j].clean
  <2> SUFFICES ASSUME NEW j \in Jobs
               PROVE  /\ job'[j] \in Job /\ job'[j].step = job[j].step /\ job'[j].op = job[j].op
                      /\ job'[j].want = job[j].want /\ job'[j].prev = job[j].prev
                      /\ job'[j].clean = job[j].clean
    OBVIOUS
  <2>1. job[j] \in Job /\ job'[j] = [job[j] EXCEPT !.held = FALSE]
    BY <1>1 DEF IInv, TypeOK
  <2> QED
    BY <2>1 DEF Job
<1>3. job' \in [Jobs -> Job]
  BY <1>1, <1>2
<1>4. Settled'
  BY <1>1, <1>2, SettledStep DEF IInv
<1>5. openings \in Nat /\ openings' \in 0..MaxOpenings /\ openings' # 0
      /\ (openings' <= 1 => openings = 0)
  BY <1>1, SessionAssumption DEF IInv, TypeOK
<1>6. \A t \in Tasks, n \in 1..MaxStarts : <<t, n>> \in Jobs
  BY DEF Jobs
<1>7. FirstSession'
  <2>1. openings = 0 => \A t \in Tasks, n \in 1..MaxStarts : ~Started(t, n)
    BY DEF IInv, FirstSession
  <2>2. openings = 0 => \A t \in Tasks, n \in 1..MaxStarts : ~Started(t, n)'
    BY <1>2, <1>6, <2>1 DEF Started
  <2>3. active' # NoSession
    BY <1>1, GatewayAssumption
  <2> QED
    BY <1>5, <2>2, <2>3 DEF FirstSession
<1>8. JobsAsk
  BY <1>2, <1>6 DEF JobsAsk
<1>9. /\ responses' \in [Tasks -> Terminal \cup {"none"}]
      /\ artifactOf' \in [Tasks -> 0..MaxStarts]
  <2>1. 0 \in 0..MaxStarts
    BY ExecutorAssumption
  <2> QED
    BY <1>1, <2>1 DEF NoResponses, NoArtifacts
<1>10. DownGrows
  BY <1>1, DownStays DEF IInv
<1> QED
  BY <1>1, <1>3, <1>4, <1>5, <1>7, <1>8, <1>9, <1>10, PhoneKeeps DEF IInv, TypeOK

LEMMA ConnectStep ==
  ASSUME IInv, NEW k \in Sockets, Connect(k)
  PROVE  IInv'
<1>1. /\ active # NoSession /\ line' = k
      /\ wire' = [wire EXCEPT ![k].phone = "open", ![k].server = "unbound"]
      /\ up' = [up EXCEPT ![k] = <<Hello(active)>>]
      /\ UNCHANGED <<active, shotOn, responses, artifactOf, blocked, openings, down>>
      /\ GatewayUnchanged /\ UNCHANGED <<screen, job, troubles>>
  BY DEF Connect, executorVars
<1>2. active \in Sessions
  BY <1>1 DEF IInv, TypeOK
<1>3. up' \in [Sockets -> Seq(UpFrames)]
  <2>1. Hello(active) \in UpFrames
    BY <1>2 DEF Hello, UpFrames
  <2>2. <<Hello(active)>> \in Seq(UpFrames)
    BY <2>1
  <2> QED
    BY <1>1, <2>2 DEF IInv, TypeOK
<1>4. wire' \in [Sockets -> Wire] /\ wire'[k].phone = "open"
      /\ \A c \in Sockets : c # k => wire'[c] = wire[c]
  <2>1. wire \in [Sockets -> Wire] /\ wire[k] \in Wire
    BY DEF IInv, TypeOK
  <2>2. PICK w : w = [wire[k] EXCEPT !.phone = "open"]
    OBVIOUS
  <2>3. w \in Wire /\ w.phone = "open"
    BY <2>1, <2>2 DEF Wire
  <2>4. PICK v : v = [w EXCEPT !.server = "unbound"]
    OBVIOUS
  <2>5. v \in Wire /\ v.phone = "open"
    BY <2>3, <2>4 DEF Wire
  <2>6. wire' = [wire EXCEPT ![k] = v]
    BY <1>1, <2>1, <2>2, <2>4
  <2> QED
    BY <2>1, <2>5, <2>6
<1>5. openings # 0 /\ Listening
  BY <1>1 DEF IInv, FirstSession, Listening
<1>6. DownGrows
  BY <1>1, DownStays DEF IInv
<1> QED
  BY <1>1, <1>3, <1>4, <1>5, <1>6, SessionKeeps DEF IInv, TypeOK

LEMMA CloseSessionFacts ==
  ASSUME IInv, active # NoSession, CloseSession, GatewayUnchanged,
         blocked' \in BOOLEAN, UNCHANGED openings, Trouble
  PROVE  IInv'
<1>1. /\ active' = NoSession /\ line' = NoSocket /\ shotOn' = NoSocket
      /\ UNCHANGED <<responses, artifactOf, down, screen, job>>
  BY DEF CloseSession
<1>2. wire' \in [Sockets -> Wire] /\ up' \in [Sockets -> Seq(UpFrames)]
  <2>1. wire \in [Sockets -> Wire] /\ up \in [Sockets -> Seq(UpFrames)]
    BY DEF IInv, TypeOK
  <2>2. CASE line = NoSocket
    BY <2>1, <2>2 DEF CloseSession
  <2>3. CASE line # NoSocket
    <3>1. /\ line \in Sockets
          /\ wire' = [wire EXCEPT ![line].phone = "closing"]
          /\ up' = [up EXCEPT ![line] = Append(@, Close)]
      BY <2>3 DEF CloseSession, IInv, TypeOK
    <3>2. wire'[line] = [wire[line] EXCEPT !.phone = "closing"] /\ wire[line] \in Wire
          /\ \A c \in Sockets : c # line => wire'[c] = wire[c]
      BY <2>1, <3>1
    <3>3. wire'[line] \in Wire
      BY <3>2 DEF Wire
    <3>4. Close \in UpFrames
      BY DEF Close, UpFrames
    <3>5. Append(up[line], Close) \in Seq(UpFrames)
      BY <2>1, <3>1, <3>4
    <3>6. wire' \in [Sockets -> Wire]
      BY <2>1, <3>1, <3>2, <3>3
    <3>7. up' \in [Sockets -> Seq(UpFrames)]
      BY <2>1, <3>1, <3>5
    <3> QED
      BY <3>6, <3>7
  <2> QED
    BY <2>2, <2>3
<1>3. openings # 0 /\ Listening
  BY DEF IInv, FirstSession, Listening
<1>4. DownGrows /\ troubles' \in 0..MaxTroubles
  BY <1>1, DownStays, TroubleFacts DEF IInv
<1> QED
  BY <1>1, <1>2, <1>3, <1>4, SessionKeeps DEF IInv, TypeOK

LEMMA SessionEndsStep ==
  ASSUME IInv, SessionEnds
  PROVE  IInv'
<1>1. blocked' \in BOOLEAN
  BY DEF SessionEnds, IInv, TypeOK
<1> QED
  BY <1>1, CloseSessionFacts DEF SessionEnds

\* Nothing of the session changes but whether a deployment is under way.
LEMMA DeploymentStep ==
  ASSUME IInv, blocked' \in BOOLEAN, Trouble \/ UNCHANGED troubles, GatewayUnchanged,
         UNCHANGED <<active, line, shotOn, responses, artifactOf, openings, wire, up,
                     down, screen, job>>
  PROVE  IInv'
<1>1. DownGrows /\ troubles' \in 0..MaxTroubles
  BY DownStays, TroubleFacts DEF IInv
<1>2. line' # NoSocket => active' # NoSession
  BY DEF IInv, FirstSession
<1>3. openings = 0 => active' = NoSession /\ \A k \in Sockets : wire'[k].phone = "none"
  BY DEF IInv, FirstSession
<1>4. Listening' => Listening
  BY DEF Listening
<1> QED
  BY <1>1, <1>2, <1>3, <1>4, SessionKeeps DEF IInv, TypeOK

LEMMA DeploymentStartsStep ==
  ASSUME IInv, DeploymentStarts
  PROVE  IInv'
<1>1. blocked' \in BOOLEAN /\ Trouble /\ UNCHANGED openings /\ GatewayUnchanged
  BY DEF DeploymentStarts
<1>2. CASE active = NoSession
  BY <1>1, <1>2, DeploymentStep DEF DeploymentStarts
<1>3. CASE active # NoSession
  BY <1>1, <1>3, CloseSessionFacts DEF DeploymentStarts
<1> QED
  BY <1>2, <1>3

LEMMA DeploymentEndsStep ==
  ASSUME IInv, DeploymentEnds
  PROVE  IInv'
  BY DeploymentStep DEF DeploymentEnds, executorVars

-----------------------------------------------------------------------------
(* Requests and answers.                                                   *)

LEMMA TailFacts ==
  ASSUME TypeOK, NEW k \in Sockets, down[k] # <<>>, down' = [down EXCEPT ![k] = Tail(@)]
  PROVE  DownGrows
<1>1. down[k] \in Seq(DownFrames) /\ down \in [Sockets -> Seq(DownFrames)]
  BY DEF TypeOK
<1>2. /\ Tail(down[k]) \in Seq(DownFrames) /\ down'[k] = Tail(down[k])
      /\ \A c \in Sockets : c # k => down'[c] = down[c]
  BY <1>1
<1>3. \A i \in 1..Len(down'[k]) : i + 1 \in 1..Len(down[k]) /\ down'[k][i] = down[k][i + 1]
  BY <1>1, <1>2
<1>4. \A c \in Sockets : \A i \in 1..Len(down'[c]) : FrameOf(down'[c][i], c)
  BY <1>2, <1>3 DEF FrameOf
<1>5. down' \in [Sockets -> Seq(DownFrames)]
  BY <1>1, <1>2
<1> QED
  BY <1>4, <1>5 DEF DownGrows

LEMMA HeadFacts ==
  ASSUME TypeOK, NEW k \in Sockets, down[k] # <<>>
  PROVE  Head(down[k]) \in DownFrames /\ FrameOf(Head(down[k]), k)
<1>1. down[k] \in Seq(DownFrames)
  BY DEF TypeOK
<1>2. 1 \in 1..Len(down[k]) /\ Head(down[k]) = down[k][1]
  BY <1>1
<1> QED
  BY <1>1, <1>2 DEF FrameOf

LEMMA LostFacts ==
  ASSUME TypeOK, NEW k \in Sockets, down' = [down EXCEPT ![k] = <<>>]
  PROVE  DownGrows
<1>1. down \in [Sockets -> Seq(DownFrames)] /\ <<>> \in Seq(DownFrames)
  BY DEF TypeOK
<1>2. down'[k] = <<>> /\ \A c \in Sockets : c # k => down'[c] = down[c]
  BY <1>1
<1>3. 1..Len(down'[k]) = {}
  BY <1>2
<1>4. down' \in [Sockets -> Seq(DownFrames)]
  BY <1>1, <1>2
<1> QED
  BY <1>2, <1>3, <1>4 DEF DownGrows, FrameOf

LEMMA AnswerFacts ==
  ASSUME TypeOK, NEW t \in Tasks, NEW status \in Terminal, NEW ms \in Seq(UpFrames),
         Answer(t, status, ms)
  PROVE  /\ responses' \in [Tasks -> Terminal \cup {"none"}]
         /\ up' \in [Sockets -> Seq(UpFrames)]
         /\ responses'[t] # "none"
         /\ \A u \in Tasks : responses[u] # "none" => responses'[u] # "none"
<1>1. responses' = [responses EXCEPT ![t] = status] /\ status # "none"
      /\ responses \in [Tasks -> Terminal \cup {"none"}]
  BY DEF Answer, TypeOK, Terminal
<1>2. up' \in [Sockets -> Seq(UpFrames)]
  <2>1. up \in [Sockets -> Seq(UpFrames)]
    BY DEF TypeOK
  <2>2. CASE line = NoSocket
    BY <2>1, <2>2 DEF Answer
  <2>3. CASE line # NoSocket
    <3>1. line \in Sockets /\ up' = [up EXCEPT ![line] = @ \o ms]
      BY <2>3 DEF Answer, TypeOK
    <3>2. up[line] \o ms \in Seq(UpFrames)
      BY <2>1, <3>1
    <3> QED
      BY <2>1, <3>1, <3>2
  <2> QED
    BY <2>2, <2>3
<1> QED
  BY <1>1, <1>2

LEMMA ResponseFacts ==
  ASSUME NEW t \in Tasks, NEW status \in Terminal, NEW n \in 0..MaxStarts
  PROVE  /\ Response(t, status, n) \in UpFrames
         /\ <<Response(t, status, n)>> \in Seq(UpFrames)
<1>1. Response(t, status, n) \in UpFrames
  BY DEF Response, UpFrames
<1> QED
  BY <1>1

\* A request for a screenshot or a write that is neither answered nor held has not
\* been carried out in the first session of the phone.
LEMMA NotStarted ==
  ASSUME IInv, NEW t \in Tasks, NEW op \in Operations, NEW k \in Sockets, NEW m \in DownFrames,
         FrameOf(m, k), m.type = "request", m.task = t, m.op = op,
         Listening, openings <= 1, responses[t] = "none", ~Crowded(op)
  PROVE  \A n \in 1..MaxStarts : ~Started(t, n)
<1> SUFFICES ASSUME NEW n \in 1..MaxStarts, Started(t, n)
             PROVE  FALSE
  OBVIOUS
<1>1. job[<<t, n>>].held
  BY DEF IInv, FirstSession
<1>2. PICK o \in Operations : Concerns(t, o)
  BY DEF IInv, OneOp, Operations
<1>3. job[<<t, n>>].op = o /\ op = o
  BY <1>2 DEF Concerns, FrameOf, Started
<1>4. <<t, n>> \in Jobs
  BY DEF Jobs
<1>5. CASE op = "capture"
  BY <1>1, <1>3, <1>4, <1>5 DEF Crowded
<1>6. CASE op # "capture"
  <2>1. op \in Writes
    BY <1>3, <1>6 DEF Operations, Writes, Started
  <2>2. <<t, n>> \in Held(op)
    BY <1>1, <1>3, <1>4, <2>1 DEF Held
  <2> QED
    BY <2>1, <2>2 DEF Crowded
<1> QED
  BY <1>5, <1>6

LEMMA StartFacts ==
  ASSUME IInv, NEW t \in Tasks, NEW op \in Operations, NEW k \in Sockets, NEW m \in DownFrames,
         FrameOf(m, k), m.type = "request", m.task = t, m.op = op,
         Listening, responses[t] = "none", ~Crowded(op),
         NEW n \in NextStart(t), Start(<<t, n>>, op),
         UNCHANGED <<active, line, responses, openings>>
  PROVE  /\ job' \in [Jobs -> Job] /\ screen' = screen /\ troubles' = troubles
         /\ JobsAsk /\ Settled' /\ FirstSession'
<1>1. PICK j \in Jobs : j = <<t, n>>
  BY DEF NextStart, Jobs
<1>2. n \in 1..MaxStarts /\ job[j].step = "idle"
  BY <1>1 DEF NextStart
<1>3. PICK x : x = [step |-> IF op = "brightness" THEN "read" ELSE "command",
                    op |-> op, held |-> TRUE, want |-> Wanted[j[1]], prev |-> Still,
                    clean |-> \A i \in Jobs : ~IsSetting(i)]
  OBVIOUS
<1>4. /\ job' = [i \in Jobs |->
           CASE i = j -> x
             [] i # j /\ op = "brightness" /\ IsSetting(i) -> [job[i] EXCEPT !.clean = FALSE]
             [] OTHER -> job[i]]
      /\ UNCHANGED <<screen, troubles>>
  BY <1>1, <1>3 DEF Start
<1>5. x \in Job /\ x.held /\ x.op = op /\ x.step # "idle"
      /\ (x.step \in Setting => op = "brightness" /\ x.step = "read")
      /\ (x.clean => \A i \in Jobs : ~IsSetting(i))
  <2>1. j[1] = t /\ Wanted[j[1]] \in Screen /\ Still \in Screen
    BY <1>1, ExecutorAssumption, StillIsScreen
  <2>2. PICK b : b \in BOOLEAN /\ b = (\A i \in Jobs : ~IsSetting(i))
    <3>1. (\A i \in Jobs : ~IsSetting(i)) \in BOOLEAN
      OBVIOUS
    <3> QED
      BY <3>1
  <2>3. PICK s : s \in {"read", "command"} /\ s = IF op = "brightness" THEN "read" ELSE "command"
    OBVIOUS
  <2>4. x = [step |-> s, op |-> op, held |-> TRUE, want |-> Wanted[j[1]], prev |-> Still,
             clean |-> b]
    BY <1>3, <2>2, <2>3
  <2>5. s \in Steps
    BY <2>3 DEF Steps
  <2>6. x \in Job
    BY <2>1, <2>2, <2>4, <2>5 DEF Job, Operations
  <2> QED
    BY <2>2, <2>3, <2>4, <2>6 DEF Setting, Running, Steps
<1>6. /\ job'[j] = x
      /\ \A i \in Jobs : i # j =>
           /\ op = "brightness" /\ IsSetting(i) => job'[i] = [job[i] EXCEPT !.clean = FALSE]
           /\ ~(op = "brightness" /\ IsSetting(i)) => job'[i] = job[i]
  BY <1>4
<1>7. \A i \in Jobs : i # j =>
        /\ job'[i] \in Job /\ job'[i].step = job[i].step /\ job'[i].op = job[i].op
        /\ job'[i].held = job[i].held /\ job'[i].want = job[i].want
        /\ job'[i].prev = job[i].prev
        /\ job'[i].clean => job[i].clean
        /\ op = "brightness" /\ IsSetting(i) => ~job'[i].clean
  <2> SUFFICES ASSUME NEW i \in Jobs, i # j
               PROVE  /\ job'[i] \in Job /\ job'[i].step = job[i].step /\ job'[i].op = job[i].op
                      /\ job'[i].held = job[i].held /\ job'[i].want = job[i].want
                      /\ job'[i].prev = job[i].prev
                      /\ job'[i].clean => job[i].clean
                      /\ op = "brightness" /\ IsSetting(i) => ~job'[i].clean
    OBVIOUS
  <2>1. job[i] \in Job
    BY DEF IInv, TypeOK
  <2>2. CASE op = "brightness" /\ IsSetting(i)
    <3>1. job'[i] = [job[i] EXCEPT !.clean = FALSE]
      BY <1>6, <2>2
    <3> QED
      BY <2>1, <3>1 DEF Job
  <2>3. CASE ~(op = "brightness" /\ IsSetting(i))
    BY <1>6, <2>1, <2>3
  <2> QED
    BY <2>2, <2>3
<1>8. job' \in [Jobs -> Job]
  BY <1>4, <1>5, <1>6, <1>7
<1>9. JobsAsk
  <2> SUFFICES ASSUME NEW u \in Tasks, NEW h \in 1..MaxStarts, job'[<<u, h>>].step # "idle"
               PROVE  \/ /\ job[<<u, h>>].step # "idle"
                         /\ job'[<<u, h>>].op = job[<<u, h>>].op
                      \/ \E c \in Sockets : \E f \in DownFrames :
                           /\ FrameOf(f, c) /\ f.type = "request" /\ f.task = u
                           /\ job'[<<u, h>>].op = f.op
    BY DEF JobsAsk
  <2>1. PICK i \in Jobs : i = <<u, h>>
    BY DEF Jobs
  <2>2. CASE i = j
    <3>1. u = t /\ job'[<<u, h>>].op = op
      BY <1>1, <1>5, <1>6, <2>1, <2>2
    <3> QED
      BY <3>1
  <2>3. CASE i # j
    <3>1. job'[i].step = job[i].step /\ job'[i].op = job[i].op
      BY <1>7, <2>3
    <3> QED
      BY <2>1, <3>1
  <2> QED
    BY <2>2, <2>3
<1>10. Settled'
  <2> SUFFICES ASSUME NEW i \in Jobs, IsSetting(i)', job'[i].clean
               PROVE  Undisturbed(job[i])' /\ \A h \in Jobs : IsSetting(h)' => h = i
    BY DEF Settled
  <2>1. screen' = screen
    BY <1>4
  <2>2. CASE i = j
    <3>1. job'[i] = x /\ x.step = "read" /\ \A h \in Jobs : ~IsSetting(h)
      BY <1>5, <1>6, <2>2 DEF IsSetting
    <3>2. Undisturbed(job[i])'
      BY <3>1 DEF Undisturbed
    <3>3. \A h \in Jobs : h # j => ~IsSetting(h)'
      BY <1>7, <3>1 DEF IsSetting
    <3> QED
      BY <2>2, <3>2, <3>3
  <2>3. CASE i # j
    <3>1. /\ IsSetting(i) /\ job[i].clean /\ op # "brightness"
          /\ job'[i].step = job[i].step /\ job'[i].want = job[i].want
          /\ job'[i].prev = job[i].prev
      BY <1>7, <2>3 DEF IsSetting
    <3>2. ~IsSetting(j)'
      BY <1>5, <1>6, <3>1 DEF IsSetting
    <3>3. Undisturbed(job[i]) /\ \A h \in Jobs : IsSetting(h) => h = i
      BY <3>1 DEF IInv, Settled
    <3>4. Undisturbed(job[i])'
      BY <2>1, <3>1, <3>3 DEF Undisturbed
    <3>5. \A h \in Jobs : h # j => (IsSetting(h)' => IsSetting(h))
      BY <1>7 DEF IsSetting
    <3> QED
      BY <3>2, <3>3, <3>4, <3>5
  <2> QED
    BY <2>2, <2>3
<1>11. \A u \in Tasks, h \in 1..MaxStarts : <<u, h>> # j =>
         (Started(u, h)' <=> Started(u, h)) /\ job'[<<u, h>>].held = job[<<u, h>>].held
  <2>1. \A u \in Tasks, h \in 1..MaxStarts : <<u, h>> \in Jobs
    BY DEF Jobs
  <2> QED
    BY <1>7, <2>1 DEF Started
<1>12. FirstSession'
  <2>1. openings # 0
    BY DEF IInv, FirstSession, Listening
  <2>2. line' # NoSocket => active' # NoSession
    BY DEF IInv, FirstSession
  <2>3. ASSUME openings <= 1, NEW u \in Tasks, NEW h \in 1..MaxStarts, Started(u, h)'
        PROVE  /\ \A i \in 1..MaxStarts : Started(u, i)' => i = h
               /\ responses'[u] # "none" \/ job'[<<u, h>>].held
    <3>1. CASE u = t /\ op # "read"
      <4>1. \A i \in 1..MaxStarts : ~Started(t, i)
        BY <2>3, NotStarted
      <4>2. \A i \in 1..MaxStarts : Started(t, i)' => i = n
        BY <1>1, <1>11, <4>1
      <4> QED
        BY <1>1, <1>2, <1>5, <1>6, <2>3, <3>1, <4>2
    <3>2. CASE u # t \/ op = "read"
      <4>1. \A i \in 1..MaxStarts : <<u, i>> = j => ~Started(u, i)'
        BY <1>1, <1>5, <1>6, <3>2 DEF Started
      <4>2. \A i \in 1..MaxStarts : Started(u, i)' => <<u, i>> # j /\ Started(u, i)
        BY <1>11, <4>1
      <4>3. /\ \A i \in 1..MaxStarts : Started(u, i) => i = h
            /\ responses[u] # "none" \/ job[<<u, h>>].held
        BY <2>3, <4>2 DEF IInv, FirstSession
      <4> QED
        BY <1>11, <2>3, <4>2, <4>3
    <3> QED
      BY <3>1, <3>2
  <2> QED
    BY <2>1, <2>2, <2>3 DEF FirstSession
<1> QED
  BY <1>4, <1>8, <1>9, <1>10, <1>12

LEMMA PhoneReceivesStep ==
  ASSUME IInv, NEW k \in Sockets, PhoneReceives(k)
  PROVE  IInv'
<1>1. /\ line = k /\ down[k] # <<>>
      /\ UNCHANGED <<active, artifactOf, blocked, openings>> /\ GatewayUnchanged
  BY DEF PhoneReceives
<1>2. PICK m \in DownFrames : m = Head(down[k]) /\ FrameOf(m, k)
  BY <1>1, HeadFacts DEF IInv
<1>3. active # NoSession /\ openings # 0 /\ Listening
  BY <1>1, GatewayAssumption DEF IInv, FirstSession, Listening
<1>4. Listening' /\ (line' # NoSocket => active' # NoSession)
  BY <1>1, <1>3 DEF Listening
<1>5. CASE m.type = "eof"
  <2>1. /\ LoseLine /\ wire' = [wire EXCEPT ![k].phone = "closed"]
        /\ down' = [down EXCEPT ![k] = <<>>]
    BY <1>2, <1>5 DEF PhoneReceives
  <2>2. line' = NoSocket /\ UNCHANGED <<shotOn, responses, up, screen, job, troubles>>
    BY <2>1 DEF LoseLine, executorVars
  <2>3. DownGrows
    BY <2>1, LostFacts DEF IInv
  <2>4. wire' \in [Sockets -> Wire]
    <3>1. wire \in [Sockets -> Wire] /\ wire[k] \in Wire
      BY DEF IInv, TypeOK
    <3>2. PICK w : w = [wire[k] EXCEPT !.phone = "closed"]
      OBVIOUS
    <3>3. w \in Wire
      BY <3>1, <3>2 DEF Wire
    <3>4. wire' = [wire EXCEPT ![k] = w]
      BY <2>1, <3>1, <3>2
    <3> QED
      BY <3>1, <3>3, <3>4
  <2> QED
    BY <1>1, <1>3, <1>4, <2>2, <2>3, <2>4, SessionKeeps DEF IInv, TypeOK
<1>6. CASE m.type # "eof"
  <2>1. /\ HandleRequest(m.task, m.op) /\ down' = [down EXCEPT ![k] = Tail(@)]
        /\ UNCHANGED <<line, wire>>
    BY <1>2, <1>6 DEF PhoneReceives
  <2>2. m.type = "request" /\ m.task \in Tasks /\ m.op \in Operations
    BY <1>6 DEF DownFrames, Operations
  <2>3. PICK t \in Tasks, op \in Operations : t = m.task /\ op = m.op
    BY <2>2
  <2>4. DownGrows
    BY <1>1, <2>1, TailFacts DEF IInv
  <2>5. CASE \E status \in Terminal : \E ms \in Seq(UpFrames) :
               /\ Answer(t, status, ms) /\ UNCHANGED <<shotOn, screen, job>>
               /\ Trouble \/ UNCHANGED troubles
    <3>1. PICK status \in Terminal, ms \in Seq(UpFrames) : Answer(t, status, ms)
      BY <2>5
    <3>2. /\ responses' \in [Tasks -> Terminal \cup {"none"}]
          /\ up' \in [Sockets -> Seq(UpFrames)]
          /\ \A u \in Tasks : responses[u] # "none" => responses'[u] # "none"
      BY <3>1, AnswerFacts DEF IInv
    <3>3. troubles' \in 0..MaxTroubles /\ UNCHANGED <<shotOn, screen, job>>
      BY <2>5, TroubleFacts DEF IInv
    <3> QED
      BY <1>1, <1>3, <1>4, <2>1, <2>4, <3>2, <3>3, SessionKeeps DEF IInv, TypeOK
  <2>6. CASE /\ responses[t] = "none" /\ ~Crowded(op)
             /\ \E n \in NextStart(t) : Start(<<t, n>>, op)
             /\ shotOn' = IF op = "capture" THEN line ELSE shotOn
             /\ UNCHANGED <<responses, up>>
    <3>1. PICK n \in NextStart(t) : Start(<<t, n>>, op)
      BY <2>6
    <3>2. /\ job' \in [Jobs -> Job] /\ screen' = screen /\ troubles' = troubles
          /\ JobsAsk /\ Settled' /\ FirstSession'
      BY <1>1, <1>2, <1>3, <2>1, <2>2, <2>3, <2>6, <3>1, StartFacts
    <3>3. shotOn' \in Sockets \cup {NoSocket} /\ line' \in Sockets \cup {NoSocket}
      BY <2>1, <2>6 DEF IInv, TypeOK
    <3> QED
      BY <1>1, <2>1, <2>4, <2>6, <3>2, <3>3, PhoneKeeps DEF IInv, TypeOK
  <2>7. /\ "TIMEOUT" \in Terminal /\ "REJECTED" \in Terminal /\ 0 \in 0..MaxStarts
        /\ artifactOf[t] \in 0..MaxStarts
        /\ responses[t] # "none" => responses[t] \in Terminal
    BY ExecutorAssumption DEF Terminal, IInv, TypeOK
  <2>8. /\ <<Response(t, "TIMEOUT", 0)>> \in Seq(UpFrames)
        /\ <<Response(t, "REJECTED", 0)>> \in Seq(UpFrames)
        /\ responses[t] # "none" =>
             <<Response(t, responses[t], artifactOf[t])>> \in Seq(UpFrames)
    BY <2>7, ResponseFacts
  <2> QED
    BY <2>1, <2>3, <2>5, <2>6, <2>7, <2>8 DEF HandleRequest, executorVars
<1> QED
  BY <1>5, <1>6

LEMMA StrayRequestStep ==
  ASSUME IInv, NEW k \in Sockets, StrayRequest(k)
  PROVE  IInv'
<1>1. /\ wire[k].phone = "closing" /\ down[k] # <<>>
      /\ down' = [down EXCEPT ![k] = Tail(@)]
      /\ UNCHANGED <<wire, up, sessionVars>> /\ GatewayUnchanged
  BY DEF StrayRequest
<1>2. PICK m \in DownFrames : m = Head(down[k]) /\ FrameOf(m, k)
  BY <1>1, HeadFacts DEF IInv
<1>3. /\ m.type = "request" /\ responses[m.task] = "none" /\ ~Crowded(m.op)
      /\ \E n \in NextStart(m.task) : Start(<<m.task, n>>, m.op)
  BY <1>2 DEF StrayRequest
<1>4. PICK t \in Tasks, op \in Operations : t = m.task /\ op = m.op
  BY <1>3 DEF DownFrames, Operations
<1>5. PICK n \in NextStart(t) : Start(<<t, n>>, op)
  BY <1>3, <1>4
<1>6. Listening
  BY <1>1 DEF Listening
<1>7. UNCHANGED <<active, line, shotOn, responses, artifactOf, blocked, openings>>
  BY <1>1 DEF sessionVars
<1>8. /\ job' \in [Jobs -> Job] /\ screen' = screen /\ troubles' = troubles
      /\ JobsAsk /\ Settled' /\ FirstSession'
  BY <1>2, <1>3, <1>4, <1>5, <1>6, <1>7, StartFacts
<1>9. DownGrows
  BY <1>1, TailFacts DEF IInv
<1> QED
  BY <1>1, <1>7, <1>8, <1>9, PhoneKeeps DEF IInv, TypeOK

\* The phone's end of a socket, once it is closed.
LEMMA PhoneClosedFacts ==
  ASSUME TypeOK, NEW k \in Sockets, wire' = [wire EXCEPT ![k].phone = "closed"]
  PROVE  /\ wire' \in [Sockets -> Wire] /\ wire'[k].phone = "closed"
         /\ \A c \in Sockets : c # k => wire'[c] = wire[c]
<1>1. wire \in [Sockets -> Wire] /\ wire[k] \in Wire
  BY DEF TypeOK
<1>2. PICK w : w = [wire[k] EXCEPT !.phone = "closed"]
  OBVIOUS
<1>3. w \in Wire /\ w.phone = "closed"
  BY <1>1, <1>2 DEF Wire
<1>4. wire' = [wire EXCEPT ![k] = w]
  BY <1>1, <1>2
<1> QED
  BY <1>1, <1>3, <1>4

LEMMA PhoneEndClosesStep ==
  ASSUME IInv, NEW k \in Sockets, PhoneEndCloses(k)
  PROVE  IInv'
<1>1. /\ wire[k].phone = "closing" /\ wire' = [wire EXCEPT ![k].phone = "closed"]
      /\ down' = [down EXCEPT ![k] = <<>>] /\ UNCHANGED up /\ GatewayUnchanged
      /\ UNCHANGED <<active, line, shotOn, responses, artifactOf, blocked, openings>>
      /\ UNCHANGED <<screen, job, troubles>>
  BY DEF PhoneEndCloses, sessionVars, executorVars
<1>2. /\ wire' \in [Sockets -> Wire] /\ wire'[k].phone = "closed"
      /\ \A c \in Sockets : c # k => wire'[c] = wire[c]
  BY <1>1, PhoneClosedFacts DEF IInv
<1>3. DownGrows
  BY <1>1, LostFacts DEF IInv
<1>4. openings # 0 /\ Listening
  BY <1>1 DEF IInv, FirstSession, Listening
<1>5. line' # NoSocket => active' # NoSession
  BY <1>1 DEF IInv, FirstSession
<1> QED
  BY <1>1, <1>2, <1>3, <1>4, <1>5, SessionKeeps DEF IInv, TypeOK

LEMMA CutStep ==
  ASSUME IInv, NEW k \in Sockets, Cut(k)
  PROVE  IInv'
<1>1. /\ wire[k].phone = "open" /\ Trouble /\ wire' = [wire EXCEPT ![k].phone = "closed"]
      /\ down' = [down EXCEPT ![k] = <<>>] /\ line' \in {NoSocket, line}
      /\ UNCHANGED <<active, shotOn, responses, artifactOf, blocked, openings, up,
                     screen, job>>
      /\ GatewayUnchanged
  BY DEF Cut
<1>2. /\ wire' \in [Sockets -> Wire] /\ wire'[k].phone = "closed"
      /\ \A c \in Sockets : c # k => wire'[c] = wire[c]
  BY <1>1, PhoneClosedFacts DEF IInv
<1>3. DownGrows /\ troubles' \in 0..MaxTroubles
  BY <1>1, LostFacts, TroubleFacts DEF IInv
<1>4. openings # 0
  BY <1>1 DEF IInv, FirstSession
<1>5. line' # NoSocket => active' # NoSession
  BY <1>1 DEF IInv, FirstSession
<1>6. Listening' => Listening
  BY <1>1, <1>2 DEF Listening
<1> QED
  BY <1>1, <1>2, <1>3, <1>4, <1>5, <1>6, SessionKeeps DEF IInv, TypeOK

LEMMA EndedFacts ==
  ASSUME TypeOK, NEW j \in Jobs, NEW step \in {"ok", "failed", "killed"}
  PROVE  /\ Ended(j, step) \in Job /\ Ended(j, step).step = step
         /\ Ended(j, step).op = job[j].op
<1>1. job[j] \in Job
  BY DEF TypeOK
<1>2. PICK y : y = [job[j] EXCEPT !.step = step]
  OBVIOUS
<1>3. y \in Job /\ y.step = step /\ y.op = job[j].op
  BY <1>1, <1>2 DEF Job, Steps
<1>4. PICK x : x = [y EXCEPT !.held = FALSE]
  OBVIOUS
<1>5. x \in Job /\ x.step = step /\ x.op = y.op
  BY <1>3, <1>4 DEF Job
<1>6. Ended(j, step) = x
  BY <1>1, <1>2, <1>4 DEF Ended
<1> QED
  BY <1>3, <1>5, <1>6

LEMMA PhoneRestartsStep ==
  ASSUME IInv, PhoneRestarts
  PROVE  IInv'
<1>1. /\ Trouble /\ active' = NoSession /\ line' = NoSocket /\ shotOn' = NoSocket
      /\ blocked' = FALSE /\ responses' = NoResponses /\ artifactOf' = NoArtifacts
      /\ job' = [j \in Jobs |-> IF IsRunning(j) THEN Ended(j, "killed") ELSE job[j]]
      /\ wire' = [k \in Sockets |->
           IF wire[k].phone = "none" THEN wire[k] ELSE [wire[k] EXCEPT !.phone = "closed"]]
      /\ down' = [k \in Sockets |-> <<>>]
      /\ UNCHANGED <<openings, up, screen>> /\ GatewayUnchanged
  BY DEF PhoneRestarts
<1>2. \A j \in Jobs :
        /\ job'[j] \in Job /\ job'[j].op = job[j].op
        /\ job'[j].step = "idle" <=> job[j].step = "idle"
        /\ ~IsSetting(j)'
  <2> SUFFICES ASSUME NEW j \in Jobs
               PROVE  /\ job'[j] \in Job /\ job'[j].op = job[j].op
                      /\ job'[j].step = "idle" <=> job[j].step = "idle"
                      /\ ~IsSetting(j)'
    OBVIOUS
  <2>1. CASE IsRunning(j)
    <3>1. job'[j] = Ended(j, "killed") /\ job[j].step # "idle"
      BY <1>1, <2>1 DEF IsRunning, Running
    <3>2. Ended(j, "killed") \in Job /\ Ended(j, "killed").step = "killed"
          /\ Ended(j, "killed").op = job[j].op
      BY EndedFacts DEF IInv
    <3> QED
      BY <3>1, <3>2 DEF IsSetting, Setting, Running
  <2>2. CASE ~IsRunning(j)
    <3>1. job'[j] = job[j] /\ job[j] \in Job
      BY <1>1, <2>2 DEF IInv, TypeOK
    <3> QED
      BY <2>2, <3>1 DEF IsRunning, IsSetting, Setting
  <2> QED
    BY <2>1, <2>2
<1>3. job' \in [Jobs -> Job]
  BY <1>1, <1>2
<1>4. \A t \in Tasks, n \in 1..MaxStarts : <<t, n>> \in Jobs
  BY DEF Jobs
<1>5. JobsAsk
  BY <1>2, <1>4 DEF JobsAsk
<1>6. Settled'
  BY <1>2 DEF Settled
<1>7. \A k \in Sockets :
        /\ wire'[k] \in Wire /\ wire'[k].phone \in {"none", "closed"}
        /\ wire[k].phone = "none" => wire'[k].phone = "none"
  <2>1. \A k \in Sockets : wire[k] \in Wire
    BY DEF IInv, TypeOK
  <2> QED
    BY <1>1, <2>1 DEF Wire
<1>8. wire' \in [Sockets -> Wire]
  BY <1>1, <1>7
<1>9. FirstSession'
  <2>1. ~Listening'
    BY <1>1, <1>7 DEF Listening
  <2>2. \A t \in Tasks, n \in 1..MaxStarts : Started(t, n)' => Started(t, n)
    BY <1>2, <1>4 DEF Started
  <2>3. openings = 0 => active' = NoSession /\ \A k \in Sockets : wire'[k].phone = "none"
    BY <1>1, <1>7 DEF IInv, FirstSession
  <2> QED
    BY <1>1, <2>1, <2>2, <2>3, FirstSessionStep DEF IInv
<1>10. DownGrows
  <2>1. \A k \in Sockets : down'[k] = <<>> /\ 1..Len(down'[k]) = {}
    BY <1>1
  <2> QED
    BY <1>1, <2>1 DEF DownGrows
<1>11. /\ responses' \in [Tasks -> Terminal \cup {"none"}]
       /\ artifactOf' \in [Tasks -> 0..MaxStarts]
  <2>1. 0 \in 0..MaxStarts
    BY ExecutorAssumption
  <2> QED
    BY <1>1, <2>1 DEF NoResponses, NoArtifacts
<1>12. troubles' \in 0..MaxTroubles
  BY <1>1, TroubleFacts DEF IInv
<1> QED
  BY <1>1, <1>3, <1>5, <1>6, <1>8, <1>9, <1>10, <1>11, <1>12, PhoneKeeps DEF IInv, TypeOK

-----------------------------------------------------------------------------
(* The executions.                                                         *)

\* An execution that gives its slot back has been answered, if anybody waited.
LEMMA LetGo ==
  ASSUME IInv, NEW j \in Jobs, NEW x \in Job, job' = [job EXCEPT ![j] = x],
         x.op = job[j].op, job[j].step # "idle", x.step # "idle",
         x.step \in Setting => /\ x.step = job[j].step /\ x.want = job[j].want
                               /\ x.prev = job[j].prev /\ x.clean = job[j].clean,
         job[j].held => responses'[j[1]] # "none",
         screen' = screen, Trouble \/ UNCHANGED troubles,
         responses' \in [Tasks -> Terminal \cup {"none"}],
         artifactOf' \in [Tasks -> 0..MaxStarts],
         up' \in [Sockets -> Seq(UpFrames)],
         \A t \in Tasks : responses[t] # "none" => responses'[t] # "none",
         UNCHANGED <<active, line, shotOn, blocked, openings, wire, down>>, GatewayUnchanged
  PROVE  IInv'
<1>1. job' \in [Jobs -> Job] /\ job'[j] = x /\ \A i \in Jobs : i # j => job'[i] = job[i]
  BY DEF IInv, TypeOK
<1>2. \A t \in Tasks, n \in 1..MaxStarts :
        <<t, n>> \in Jobs /\ (<<t, n>> = j => t = j[1])
  BY DEF Jobs
<1>3. JobsAsk
  BY <1>1, <1>2 DEF JobsAsk
<1>4. Settled'
  BY <1>1, SettledStep DEF IInv, IsSetting
<1>5. FirstSession'
  <2>1. \A t \in Tasks, n \in 1..MaxStarts :
          /\ Started(t, n)' => Started(t, n)
          /\ job[<<t, n>>].held => job'[<<t, n>>].held \/ responses'[t] # "none"
    BY <1>1, <1>2 DEF Started
  <2>2. line' # NoSocket => active' # NoSession
    BY DEF IInv, FirstSession
  <2>3. openings = 0 => active' = NoSession /\ \A k \in Sockets : wire'[k].phone = "none"
    BY DEF IInv, FirstSession
  <2>4. Listening' => Listening
    BY DEF Listening
  <2> QED
    BY <2>1, <2>2, <2>3, <2>4, FirstSessionStep DEF IInv
<1>6. DownGrows /\ troubles' \in 0..MaxTroubles
  BY DownStays, TroubleFacts DEF IInv
<1> QED
  BY <1>1, <1>3, <1>4, <1>5, <1>6, PhoneKeeps DEF IInv, TypeOK

LEMMA EndStep ==
  ASSUME IInv, NEW j \in Jobs, NEW step \in {"ok", "failed"},
         Moves(j, Ended(j, step), screen), job[j].step # "idle",
         job[j].held => responses'[j[1]] # "none", Trouble \/ UNCHANGED troubles,
         responses' \in [Tasks -> Terminal \cup {"none"}],
         artifactOf' \in [Tasks -> 0..MaxStarts],
         up' \in [Sockets -> Seq(UpFrames)],
         \A t \in Tasks : responses[t] # "none" => responses'[t] # "none",
         UNCHANGED <<active, line, shotOn, blocked, openings, wire, down>>, GatewayUnchanged
  PROVE  IInv'
<1>1. PICK x : x = Ended(j, step)
  OBVIOUS
<1>2. x \in Job /\ x.step = step /\ x.op = job[j].op
  BY <1>1, EndedFacts DEF IInv
<1>3. job' = [job EXCEPT ![j] = x] /\ screen' = screen
  BY <1>1 DEF Moves
<1>4. x.step # "idle" /\ x.step \notin Setting
  BY <1>2 DEF Setting, Running
<1> QED
  BY <1>2, <1>3, <1>4, LetGo

LEMMA JobFacts ==
  ASSUME NEW j \in Jobs
  PROVE  j[1] \in Tasks /\ j[2] \in 1..MaxStarts /\ j[2] \in 0..MaxStarts /\ 0 \in 0..MaxStarts
  BY ExecutorAssumption DEF Jobs

LEMMA JobAnsweredFacts ==
  ASSUME TypeOK, NEW j \in Jobs, NEW status \in {"SUCCESS", "FAILURE"},
         JobAnswered(j, status)
  PROVE  /\ responses' \in [Tasks -> Terminal \cup {"none"}]
         /\ artifactOf' \in [Tasks -> 0..MaxStarts]
         /\ up' \in [Sockets -> Seq(UpFrames)]
         /\ \A t \in Tasks : responses[t] # "none" => responses'[t] # "none"
         /\ job[j].held => responses'[j[1]] # "none"
<1>1. CASE ~job[j].held
  BY <1>1 DEF JobAnswered, TypeOK
<1>2. CASE job[j].held
  <2>1. j[1] \in Tasks /\ j[2] \in 0..MaxStarts /\ 0 \in 0..MaxStarts
        /\ status \in Terminal
    BY JobFacts DEF Terminal
  <2>2. PICK n \in 0..MaxStarts :
          n = IF status = "SUCCESS" /\ job[j].op = "capture" THEN j[2] ELSE 0
    BY <2>1
  <2>3. /\ Answer(j[1], status, Shot(j, status) \o <<Response(j[1], status, n)>>)
        /\ artifactOf' = [artifactOf EXCEPT ![j[1]] = n]
    BY <1>2, <2>2 DEF JobAnswered
  <2>4. Shot(j, status) \in Seq(UpFrames)
    <3>1. Artifact(j) \in UpFrames
      BY DEF Artifact, UpFrames
    <3> HIDE DEF UpFrames
    <3>2. <<Artifact(j)>> \in Seq(UpFrames) /\ <<>> \in Seq(UpFrames)
      BY <3>1
    <3> QED
      BY <3>2 DEF Shot
  <2>5. PICK ms \in Seq(UpFrames) : ms = Shot(j, status) \o <<Response(j[1], status, n)>>
    <3>1. <<Response(j[1], status, n)>> \in Seq(UpFrames)
      BY <2>1, ResponseFacts
    <3>2. PICK r \in Seq(UpFrames) : r = <<Response(j[1], status, n)>>
      BY <3>1
    <3> HIDE DEF UpFrames
    <3>3. Shot(j, status) \o r \in Seq(UpFrames)
      BY <2>4
    <3> QED
      BY <3>2, <3>3
  <2>6. Answer(j[1], status, ms)
    BY <2>3, <2>5
  <2>7. /\ responses' \in [Tasks -> Terminal \cup {"none"}]
        /\ up' \in [Sockets -> Seq(UpFrames)]
        /\ responses'[j[1]] # "none"
        /\ \A t \in Tasks : responses[t] # "none" => responses'[t] # "none"
    BY <2>1, <2>6, AnswerFacts
  <2>8. artifactOf' \in [Tasks -> 0..MaxStarts]
    BY <2>3 DEF TypeOK
  <2> QED
    BY <2>7, <2>8
<1> QED
  BY <1>1, <1>2

LEMMA JobEndsStep ==
  ASSUME IInv, NEW j \in Jobs, JobEnds(j)
  PROVE  IInv'
<1>1. UNCHANGED <<active, line, shotOn, blocked, openings, wire, down>> /\ GatewayUnchanged
  BY DEF JobEnds
<1>2. CASE Succeed(j) /\ UNCHANGED troubles /\ JobAnswered(j, "SUCCESS")
  <2>1. /\ responses' \in [Tasks -> Terminal \cup {"none"}]
        /\ artifactOf' \in [Tasks -> 0..MaxStarts]
        /\ up' \in [Sockets -> Seq(UpFrames)]
        /\ \A t \in Tasks : responses[t] # "none" => responses'[t] # "none"
        /\ job[j].held => responses'[j[1]] # "none"
    BY <1>2, JobAnsweredFacts DEF IInv
  <2>2. Moves(j, Ended(j, "ok"), screen) /\ job[j].step # "idle"
    BY <1>2 DEF Succeed
  <2> QED
    BY <1>1, <1>2, <2>1, <2>2, EndStep
<1>3. CASE Fail(j) /\ JobAnswered(j, "FAILURE")
  <2>1. /\ responses' \in [Tasks -> Terminal \cup {"none"}]
        /\ artifactOf' \in [Tasks -> 0..MaxStarts]
        /\ up' \in [Sockets -> Seq(UpFrames)]
        /\ \A t \in Tasks : responses[t] # "none" => responses'[t] # "none"
        /\ job[j].held => responses'[j[1]] # "none"
    BY <1>3, JobAnsweredFacts DEF IInv
  <2>2. /\ Moves(j, Ended(j, "failed"), screen) /\ job[j].step # "idle"
        /\ Trouble \/ UNCHANGED troubles
    BY <1>3 DEF Fail
  <2> QED
    BY <1>1, <2>1, <2>2, EndStep
<1> QED
  BY <1>2, <1>3 DEF JobEnds

\* An execution whose screenshot, or whose message, does not get through.
LEMMA AnsweredFailureFacts ==
  ASSUME TypeOK, NEW j \in Jobs, NEW status \in Terminal, NEW ms \in Seq(UpFrames),
         Answer(j[1], status, ms), UNCHANGED artifactOf
  PROVE  /\ responses' \in [Tasks -> Terminal \cup {"none"}]
         /\ artifactOf' \in [Tasks -> 0..MaxStarts]
         /\ up' \in [Sockets -> Seq(UpFrames)]
         /\ \A t \in Tasks : responses[t] # "none" => responses'[t] # "none"
         /\ responses'[j[1]] # "none"
<1>1. j[1] \in Tasks
  BY JobFacts
<1>2. artifactOf' \in [Tasks -> 0..MaxStarts]
  BY DEF TypeOK
<1> QED
  BY <1>1, <1>2, AnswerFacts

LEMMA TransferFailsStep ==
  ASSUME IInv, NEW j \in Jobs, TransferFails(j)
  PROVE  IInv'
<1>1. /\ Succeed(j)
      /\ Answer(j[1], "FAILURE", <<Response(j[1], "FAILURE", 0)>>) /\ UNCHANGED artifactOf
      /\ UNCHANGED <<active, line, shotOn, blocked, openings, wire, down>>
      /\ GatewayUnchanged
  BY DEF TransferFails
<1>2. "FAILURE" \in Terminal /\ <<Response(j[1], "FAILURE", 0)>> \in Seq(UpFrames)
  BY JobFacts, ResponseFacts DEF Terminal
<1>3. /\ responses' \in [Tasks -> Terminal \cup {"none"}]
      /\ artifactOf' \in [Tasks -> 0..MaxStarts]
      /\ up' \in [Sockets -> Seq(UpFrames)]
      /\ \A t \in Tasks : responses[t] # "none" => responses'[t] # "none"
      /\ responses'[j[1]] # "none"
  BY <1>1, <1>2, AnsweredFailureFacts DEF IInv
<1>4. Moves(j, Ended(j, "ok"), screen) /\ job[j].step # "idle"
  BY <1>1 DEF Succeed
<1>5. Trouble \/ UNCHANGED troubles
  BY DEF TransferFails
<1> QED
  BY <1>1, <1>3, <1>4, <1>5, EndStep

LEMMA JobFailsUnreadablyStep ==
  ASSUME IInv, NEW j \in Jobs, JobFailsUnreadably(j)
  PROVE  IInv'
<1>1. /\ Fail(j) /\ Answer(j[1], "FAILURE", <<Unreadable>>) /\ UNCHANGED artifactOf
      /\ UNCHANGED <<active, line, shotOn, blocked, openings, wire, down>>
      /\ GatewayUnchanged
  BY DEF JobFailsUnreadably
<1>2. "FAILURE" \in Terminal /\ <<Unreadable>> \in Seq(UpFrames)
  <2>1. Unreadable \in UpFrames
    BY DEF Unreadable, UpFrames
  <2> QED
    BY <2>1 DEF Terminal
<1>3. /\ responses' \in [Tasks -> Terminal \cup {"none"}]
      /\ artifactOf' \in [Tasks -> 0..MaxStarts]
      /\ up' \in [Sockets -> Seq(UpFrames)]
      /\ \A t \in Tasks : responses[t] # "none" => responses'[t] # "none"
      /\ responses'[j[1]] # "none"
  BY <1>1, <1>2, AnsweredFailureFacts DEF IInv
<1>4. /\ Moves(j, Ended(j, "failed"), screen) /\ job[j].step # "idle"
      /\ Trouble \/ UNCHANGED troubles
  BY <1>1 DEF Fail
<1> QED
  BY <1>1, <1>3, <1>4, EndStep

LEMMA JobTimesOutStep ==
  ASSUME IInv, NEW j \in Jobs, JobTimesOut(j)
  PROVE  IInv'
<1>1. /\ IsRunning(j) /\ Trouble /\ job' = [job EXCEPT ![j].held = FALSE]
      /\ Answer(j[1], "TIMEOUT", <<Response(j[1], "TIMEOUT", 0)>>)
      /\ UNCHANGED artifactOf /\ screen' = screen
      /\ UNCHANGED <<active, line, shotOn, blocked, openings, wire, down>>
      /\ GatewayUnchanged
  BY DEF JobTimesOut
<1>2. "TIMEOUT" \in Terminal /\ <<Response(j[1], "TIMEOUT", 0)>> \in Seq(UpFrames)
  BY JobFacts, ResponseFacts DEF Terminal
<1>3. /\ responses' \in [Tasks -> Terminal \cup {"none"}]
      /\ artifactOf' \in [Tasks -> 0..MaxStarts]
      /\ up' \in [Sockets -> Seq(UpFrames)]
      /\ \A t \in Tasks : responses[t] # "none" => responses'[t] # "none"
      /\ responses'[j[1]] # "none"
  BY <1>1, <1>2, AnsweredFailureFacts DEF IInv
<1>4. PICK x : x = [job[j] EXCEPT !.held = FALSE]
  OBVIOUS
<1>5. job[j] \in Job /\ job \in [Jobs -> Job]
  BY DEF IInv, TypeOK
<1>6. /\ x \in Job /\ x.op = job[j].op /\ x.step = job[j].step /\ x.want = job[j].want
      /\ x.prev = job[j].prev /\ x.clean = job[j].clean
  BY <1>4, <1>5 DEF Job
<1>7. job' = [job EXCEPT ![j] = x] /\ job[j].step # "idle"
  BY <1>1, <1>4, <1>5 DEF IsRunning, Running
<1> QED
  BY <1>1, <1>3, <1>6, <1>7, LetGo

-----------------------------------------------------------------------------
(* One command of a change of the brightness.                              *)

\* The next step of the execution j, which leaves the settings as that step finds
\* them if nobody else is at work on them.
LEMMA CommandKeeps ==
  ASSUME IInv, NEW j \in Jobs, NEW x \in Job, NEW s \in Screen, Moves(j, x, s),
         IsSetting(j), x.step # "idle", x.op = job[j].op, x.held = job[j].held,
         x.clean => job[j].clean,
         x.clean /\ Undisturbed(job[j]) /\ x.step \in Setting => Undisturbed(x)',
         Trouble \/ UNCHANGED troubles,
         UNCHANGED <<sessionVars, wire, up, down>>, GatewayUnchanged
  PROVE  IInv'
<1>1. job' = [job EXCEPT ![j] = x] /\ screen' = s
  BY DEF Moves
<1>2. job' \in [Jobs -> Job] /\ job'[j] = x /\ \A i \in Jobs : i # j => job'[i] = job[i]
  BY <1>1 DEF IInv, TypeOK
<1>3. \A t \in Tasks, n \in 1..MaxStarts : <<t, n>> \in Jobs
  BY DEF Jobs
<1>4. job[j].step # "idle"
  BY DEF IsSetting, Setting, Running
<1>5. UNCHANGED <<active, line, shotOn, responses, artifactOf, blocked, openings>>
  BY DEF sessionVars
<1>6. JobsAsk
  BY <1>2, <1>3, <1>4 DEF JobsAsk
<1>7. FirstSession'
  <2>1. \A t \in Tasks, n \in 1..MaxStarts :
          (Started(t, n)' <=> Started(t, n)) /\ job'[<<t, n>>].held = job[<<t, n>>].held
    BY <1>2, <1>3, <1>4 DEF Started
  <2>2. Listening' => Listening
    BY <1>5 DEF Listening
  <2>3. /\ line' # NoSocket => active' # NoSession
        /\ openings = 0 => active' = NoSession /\ \A k \in Sockets : wire'[k].phone = "none"
    BY <1>5 DEF IInv, FirstSession
  <2> QED
    BY <1>5, <2>1, <2>2, <2>3, FirstSessionStep DEF IInv
<1>8. Settled'
  <2> SUFFICES ASSUME NEW i \in Jobs, IsSetting(i)', job'[i].clean
               PROVE  Undisturbed(job[i])' /\ \A h \in Jobs : IsSetting(h)' => h = i
    BY DEF Settled
  <2>1. \A h \in Jobs : IsSetting(h)' => IsSetting(h)
    BY <1>2 DEF IsSetting
  <2>2. IsSetting(i) /\ job[i].clean
    BY <1>2, <2>1
  <2>3. Undisturbed(job[i]) /\ \A h \in Jobs : IsSetting(h) => h = i
    BY <2>2 DEF IInv, Settled
  <2>4. i = j
    BY <2>3
  <2>5. Undisturbed(x)'
    BY <1>2, <2>3, <2>4 DEF IsSetting
  <2>6. Undisturbed(job[i])'
    BY <1>2, <2>4, <2>5 DEF Undisturbed
  <2> QED
    BY <2>1, <2>3, <2>6
<1>9. DownGrows /\ troubles' \in 0..MaxTroubles
  BY DownStays, TroubleFacts DEF IInv
<1> QED
  BY <1>1, <1>2, <1>5, <1>6, <1>7, <1>8, <1>9, PhoneKeeps DEF IInv, TypeOK

LEMMA WrittenFacts ==
  ASSUME TypeOK, NEW v \in Screen
  PROVE  /\ Written("mode", v["mode"]) \in Screen /\ Written("level", v["level"]) \in Screen
         /\ Written("mode", v["mode"]).mode = v.mode
         /\ Written("mode", v["mode"]).level = screen.level
         /\ Written("level", v["level"]).level = v.level
         /\ Written("level", v["level"]).mode = screen.mode
<1>1. PICK u \in Screen : u = screen
  BY DEF TypeOK
<1>2. PICK m : m = [u EXCEPT !.mode = v.mode]
  OBVIOUS
<1>3. m \in Screen /\ m.mode = v.mode /\ m.level = u.level
  BY <1>2 DEF Screen
<1>4. PICK l : l = [u EXCEPT !.level = v.level]
  OBVIOUS
<1>5. l \in Screen /\ l.level = v.level /\ l.mode = u.mode
  BY <1>4 DEF Screen
<1>6. Written("mode", v["mode"]) = m
  BY <1>1, <1>2 DEF Written
<1>7. Written("level", v["level"]) = l
  BY <1>1, <1>4 DEF Written
<1> QED
  BY <1>1, <1>3, <1>5, <1>6, <1>7

LEMMA SameScreen ==
  ASSUME NEW u \in Screen, NEW v \in Screen, u.level = v.level, u.mode = v.mode
  PROVE  u = v
  BY DEF Screen

\* The execution j at another step.
LEMMA StepFacts ==
  ASSUME NEW y \in Job, NEW step \in Setting
  PROVE  /\ [y EXCEPT !.step = step] \in Job /\ [y EXCEPT !.step = step].step = step
         /\ [y EXCEPT !.step = step].op = y.op /\ [y EXCEPT !.step = step].held = y.held
         /\ [y EXCEPT !.step = step].want = y.want /\ [y EXCEPT !.step = step].prev = y.prev
         /\ [y EXCEPT !.step = step].clean = y.clean
<1>1. PICK x : x = [y EXCEPT !.step = step]
  OBVIOUS
<1>2. step \in Steps
  BY DEF Setting, Running
<1>3. /\ x \in Job /\ x.step = step /\ x.op = y.op /\ x.held = y.held
      /\ x.want = y.want /\ x.prev = y.prev /\ x.clean = y.clean
  BY <1>1, <1>2 DEF Job
<1> QED
  BY <1>1, <1>3

LEMMA SettingSteps ==
  {"read", "mode", "level", "verify", "undoLevel", "undoMode", "throw"} \subseteq Setting
  BY DEF Setting, Running, Steps

LEMMA NextSteps ==
  ASSUME NEW x \in Job, NEW field \in {"mode", "level"}
  PROVE  AfterMode(x) \in Setting /\ AfterRead(x) \in Setting /\ UndoFrom(x, field) \in Setting
  BY SettingSteps DEF AfterMode, AfterRead, UndoFrom

LEMMA ReadBrightnessStep ==
  ASSUME IInv, NEW j \in Jobs, ReadBrightness(j),
         UNCHANGED <<sessionVars, wire, up, down>>, GatewayUnchanged
  PROVE  IInv'
<1>1. screen \in Screen /\ job[j] \in Job
  BY DEF IInv, TypeOK
<1>2. PICK y : y = [job[j] EXCEPT !.prev = screen]
  OBVIOUS
<1>3. /\ y \in Job /\ y.prev = screen /\ y.op = job[j].op /\ y.held = job[j].held
      /\ y.want = job[j].want /\ y.clean = job[j].clean
  BY <1>1, <1>2 DEF Job
<1>4. PICK step \in Setting : step = AfterRead(y)
  BY <1>3, NextSteps
<1>5. PICK x : x = [y EXCEPT !.step = step]
  OBVIOUS
<1>6. /\ x \in Job /\ x.step = step /\ x.op = y.op /\ x.held = y.held
      /\ x.want = y.want /\ x.prev = y.prev /\ x.clean = y.clean
  BY <1>3, <1>5, StepFacts
<1>7. Moves(j, x, screen) /\ UNCHANGED troubles /\ job[j].step = "read"
  BY <1>2, <1>4, <1>5 DEF ReadBrightness
<1>8. Undisturbed(x)'
  <2>1. screen' = screen /\ x.prev = screen /\ x.want \in Screen
    BY <1>3, <1>6, <1>7 DEF Moves, Job
  <2>2. step \in {"mode", "level", "verify"}
    BY <1>4 DEF AfterRead, AfterMode
  <2>3. step = "level" => screen.mode = x.want.mode
    BY <1>3, <1>4, <1>6 DEF AfterRead, AfterMode
  <2>4. step = "verify" => screen.mode = x.want.mode /\ screen.level = x.want.level
    BY <1>3, <1>4, <1>6 DEF AfterRead, AfterMode
  <2>5. step = "verify" => screen = x.want
    BY <1>1, <2>1, <2>4, SameScreen
  <2> QED
    BY <1>6, <2>1, <2>2, <2>3, <2>5 DEF Undisturbed
<1>9. IsSetting(j) /\ x.step # "idle"
  BY <1>6, <1>7, SettingSteps DEF IsSetting, Setting, Running
<1> QED
  BY <1>1, <1>3, <1>6, <1>7, <1>8, <1>9, CommandKeeps

\* A write of x.want, or of x.prev: what the settings are then.
LEMMA WriteModeStep ==
  ASSUME IInv, NEW j \in Jobs, WriteMode(j),
         UNCHANGED <<sessionVars, wire, up, down>>, GatewayUnchanged
  PROVE  IInv'
<1>1. screen \in Screen /\ job[j] \in Job /\ job[j].want \in Screen /\ job[j].prev \in Screen
  BY DEF IInv, TypeOK, Job
<1>2. PICK done : done = Written("mode", job[j].want["mode"])
  OBVIOUS
<1>3. done \in Screen /\ done.mode = job[j].want.mode /\ done.level = screen.level
  BY <1>1, <1>2, WrittenFacts DEF IInv
<1>4. PICK next \in Setting, undo \in Setting :
        next = AfterMode(job[j]) /\ undo = UndoFrom(job[j], "mode")
  BY <1>1, NextSteps
<1>5. PICK x, y : x = [job[j] EXCEPT !.step = next] /\ y = [job[j] EXCEPT !.step = undo]
  OBVIOUS
<1>6. /\ x \in Job /\ x.step = next /\ x.op = job[j].op /\ x.held = job[j].held
      /\ x.want = job[j].want /\ x.prev = job[j].prev /\ x.clean = job[j].clean
      /\ y \in Job /\ y.step = undo /\ y.op = job[j].op /\ y.held = job[j].held
      /\ y.want = job[j].want /\ y.prev = job[j].prev /\ y.clean = job[j].clean
  BY <1>1, <1>5, StepFacts
<1>7. /\ job[j].step = "mode"
      /\ \/ Moves(j, x, done) /\ UNCHANGED troubles
         \/ Trouble /\ \E s \in {screen, done} : Moves(j, y, s)
  BY <1>2, <1>4, <1>5 DEF WriteMode, Write
<1>8. IsSetting(j) /\ next # "idle" /\ undo # "idle"
  BY <1>7, SettingSteps DEF IsSetting, Setting, Running
<1>9. CASE Moves(j, x, done) /\ UNCHANGED troubles
  <2>1. Undisturbed(job[j]) => Undisturbed(x)'
    <3> SUFFICES ASSUME Undisturbed(job[j])
                 PROVE  Undisturbed(x)'
      OBVIOUS
    <3>1. screen = job[j].prev /\ screen' = done
      BY <1>7, <1>9 DEF Undisturbed, Moves
    <3>2. next \in {"level", "verify"}
          /\ (next = "verify" => job[j].want.level = job[j].prev.level)
      BY <1>4 DEF AfterMode
    <3>3. next = "verify" => done = job[j].want
      BY <1>1, <1>3, <3>1, <3>2, SameScreen
    <3> QED
      BY <1>3, <1>6, <3>1, <3>2, <3>3 DEF Undisturbed
  <2> QED
    BY <1>3, <1>6, <1>8, <1>9, <2>1, CommandKeeps
<1>10. ASSUME NEW s \in {screen, done}, Moves(j, y, s), Trouble
       PROVE  IInv'
  <2>1. Undisturbed(job[j]) => Undisturbed(y)'
    <3> SUFFICES ASSUME Undisturbed(job[j])
                 PROVE  Undisturbed(y)'
      OBVIOUS
    <3>1. screen = job[j].prev /\ screen' = s /\ s \in Screen /\ s.level = screen.level
      BY <1>1, <1>3, <1>7, <1>10 DEF Undisturbed, Moves
    <3>2. undo \in {"undoMode", "throw"}
          /\ (undo = "throw" => job[j].want.mode = job[j].prev.mode)
      BY <1>4 DEF UndoFrom
    <3>3. undo = "throw" => s = job[j].prev
      BY <1>1, <1>3, <3>1, <3>2, SameScreen
    <3> QED
      BY <1>6, <3>1, <3>2, <3>3 DEF Undisturbed
  <2> QED
    BY <1>1, <1>3, <1>6, <1>8, <1>10, <2>1, CommandKeeps
<1> QED
  BY <1>7, <1>9, <1>10

LEMMA WriteLevelStep ==
  ASSUME IInv, NEW j \in Jobs, WriteLevel(j),
         UNCHANGED <<sessionVars, wire, up, down>>, GatewayUnchanged
  PROVE  IInv'
<1>1. screen \in Screen /\ job[j] \in Job /\ job[j].want \in Screen /\ job[j].prev \in Screen
  BY DEF IInv, TypeOK, Job
<1>2. PICK done : done = Written("level", job[j].want["level"])
  OBVIOUS
<1>3. done \in Screen /\ done.level = job[j].want.level /\ done.mode = screen.mode
  BY <1>1, <1>2, WrittenFacts DEF IInv
<1>4. PICK undo \in Setting : undo = UndoFrom(job[j], "level")
  BY <1>1, NextSteps
<1>5. PICK x, y : x = [job[j] EXCEPT !.step = "verify"] /\ y = [job[j] EXCEPT !.step = undo]
  OBVIOUS
<1>6. /\ x \in Job /\ x.step = "verify" /\ x.op = job[j].op /\ x.held = job[j].held
      /\ x.want = job[j].want /\ x.prev = job[j].prev /\ x.clean = job[j].clean
      /\ y \in Job /\ y.step = undo /\ y.op = job[j].op /\ y.held = job[j].held
      /\ y.want = job[j].want /\ y.prev = job[j].prev /\ y.clean = job[j].clean
  BY <1>1, <1>5, StepFacts, SettingSteps
<1>7. /\ job[j].step = "level"
      /\ \/ Moves(j, x, done) /\ UNCHANGED troubles
         \/ Trouble /\ \E s \in {screen, done} : Moves(j, y, s)
  BY <1>2, <1>4, <1>5 DEF WriteLevel, Write
<1>8. IsSetting(j) /\ x.step # "idle" /\ undo # "idle"
  BY <1>6, <1>7, SettingSteps DEF IsSetting, Setting, Running
<1>9. CASE Moves(j, x, done) /\ UNCHANGED troubles
  <2>1. Undisturbed(job[j]) => Undisturbed(x)'
    <3> SUFFICES ASSUME Undisturbed(job[j])
                 PROVE  Undisturbed(x)'
      OBVIOUS
    <3>1. screen.mode = job[j].want.mode /\ screen' = done
      BY <1>7, <1>9 DEF Undisturbed, Moves
    <3>2. done = job[j].want
      BY <1>1, <1>3, <3>1, SameScreen
    <3> QED
      BY <1>6, <3>1, <3>2 DEF Undisturbed
  <2> QED
    BY <1>3, <1>6, <1>8, <1>9, <2>1, CommandKeeps
<1>10. ASSUME NEW s \in {screen, done}, Moves(j, y, s), Trouble
       PROVE  IInv'
  <2>1. Undisturbed(job[j]) => Undisturbed(y)'
    <3> SUFFICES ASSUME Undisturbed(job[j])
                 PROVE  Undisturbed(y)'
      OBVIOUS
    <3>1. /\ screen.level = job[j].prev.level /\ screen.mode = job[j].want.mode
          /\ screen' = s /\ s \in Screen /\ s.mode = job[j].want.mode
          /\ s.level \in {job[j].prev.level, job[j].want.level}
      BY <1>1, <1>3, <1>7, <1>10 DEF Undisturbed, Moves
    <3>2. /\ undo \in {"undoLevel", "undoMode", "throw"}
          /\ undo # "undoLevel" => job[j].want.level = job[j].prev.level
          /\ undo = "throw" => job[j].want.mode = job[j].prev.mode
      BY <1>4 DEF UndoFrom
    <3>3. undo = "throw" => s = job[j].prev
      BY <1>1, <3>1, <3>2, SameScreen
    <3> QED
      BY <1>6, <3>1, <3>2, <3>3 DEF Undisturbed
  <2> QED
    BY <1>1, <1>3, <1>6, <1>8, <1>10, <2>1, CommandKeeps
<1> QED
  BY <1>7, <1>9, <1>10

LEMMA VerifyFailsStep ==
  ASSUME IInv, NEW j \in Jobs, VerifyFails(j),
         UNCHANGED <<sessionVars, wire, up, down>>, GatewayUnchanged
  PROVE  IInv'
<1>1. screen \in Screen /\ job[j] \in Job /\ job[j].want \in Screen /\ job[j].prev \in Screen
  BY DEF IInv, TypeOK, Job
<1>2. PICK undo \in Setting : undo = UndoFrom(job[j], "level")
  BY <1>1, NextSteps
<1>3. PICK y : y = [job[j] EXCEPT !.step = undo]
  OBVIOUS
<1>4. /\ y \in Job /\ y.step = undo /\ y.op = job[j].op /\ y.held = job[j].held
      /\ y.want = job[j].want /\ y.prev = job[j].prev /\ y.clean = job[j].clean
  BY <1>1, <1>3, StepFacts
<1>5. job[j].step = "verify" /\ Trouble /\ Moves(j, y, screen)
  BY <1>2, <1>3 DEF VerifyFails
<1>6. IsSetting(j) /\ y.step # "idle"
  BY <1>4, <1>5, SettingSteps DEF IsSetting, Setting, Running
<1>7. Undisturbed(job[j]) => Undisturbed(y)'
  <2> SUFFICES ASSUME Undisturbed(job[j])
               PROVE  Undisturbed(y)'
    OBVIOUS
  <2>1. screen = job[j].want /\ screen' = screen
    BY <1>5 DEF Undisturbed, Moves
  <2>2. /\ undo \in {"undoLevel", "undoMode", "throw"}
        /\ undo # "undoLevel" => job[j].want.level = job[j].prev.level
        /\ undo = "throw" => job[j].want.mode = job[j].prev.mode
    BY <1>2 DEF UndoFrom
  <2>3. undo = "throw" => screen = job[j].prev
    BY <1>1, <2>1, <2>2, SameScreen
  <2> QED
    BY <1>4, <2>1, <2>2, <2>3 DEF Undisturbed
<1> QED
  BY <1>1, <1>4, <1>5, <1>6, <1>7, CommandKeeps

\* A restoring command that fails makes the execution an unclean one.
LEMMA RestoreFacts ==
  ASSUME IInv, NEW j \in Jobs, NEW done \in Screen, NEW next \in Setting,
         \/ /\ Moves(j, [job[j] EXCEPT !.step = next], done) /\ UNCHANGED troubles
         \/ /\ Trouble
            /\ \E s \in {screen, done} :
                 Moves(j, [job[j] EXCEPT !.step = next, !.clean = FALSE], s),
         ASSUME NEW x \in Job, x.step = next, x.want = job[j].want, x.prev = job[j].prev,
                Undisturbed(job[j]), screen' = done
         PROVE  Undisturbed(x)',
         IsSetting(j), UNCHANGED <<sessionVars, wire, up, down>>, GatewayUnchanged
  PROVE  IInv'
<1>1. screen \in Screen /\ job[j] \in Job
  BY DEF IInv, TypeOK
<1>2. PICK x : x = [job[j] EXCEPT !.step = next]
  OBVIOUS
<1>3. /\ x \in Job /\ x.step = next /\ x.op = job[j].op /\ x.held = job[j].held
      /\ x.want = job[j].want /\ x.prev = job[j].prev /\ x.clean = job[j].clean
  BY <1>1, <1>2, StepFacts
<1>4. PICK y : y = [x EXCEPT !.clean = FALSE]
  OBVIOUS
<1>5. /\ y \in Job /\ y.step = next /\ y.op = job[j].op /\ y.held = job[j].held /\ ~y.clean
  BY <1>3, <1>4 DEF Job
<1>6. next # "idle"
  BY DEF Setting, Running
<1>7. CASE Moves(j, [job[j] EXCEPT !.step = next], done) /\ UNCHANGED troubles
  <2>1. Moves(j, x, done) /\ screen' = done
    BY <1>2, <1>7 DEF Moves
  <2>2. Undisturbed(job[j]) => Undisturbed(x)'
    BY <1>3, <2>1
  <2> QED
    BY <1>3, <1>6, <1>7, <2>1, <2>2, CommandKeeps
<1>8. ASSUME NEW s \in {screen, done}, Trouble,
             Moves(j, [job[j] EXCEPT !.step = next, !.clean = FALSE], s)
      PROVE  IInv'
  <2>1. Moves(j, y, s) /\ s \in Screen
    BY <1>1, <1>2, <1>4, <1>8
  <2> QED
    BY <1>5, <1>6, <1>8, <2>1, CommandKeeps
<1> QED
  BY <1>7, <1>8

LEMMA UndoLevelStep ==
  ASSUME IInv, NEW j \in Jobs, UndoLevel(j),
         UNCHANGED <<sessionVars, wire, up, down>>, GatewayUnchanged
  PROVE  IInv'
<1>1. screen \in Screen /\ job[j] \in Job /\ job[j].want \in Screen /\ job[j].prev \in Screen
  BY DEF IInv, TypeOK, Job
<1>2. PICK done : done = Written("level", job[j].prev["level"])
  OBVIOUS
<1>3. done \in Screen /\ done.level = job[j].prev.level /\ done.mode = screen.mode
  BY <1>1, <1>2, WrittenFacts DEF IInv
<1>4. PICK next \in Setting : next = UndoFrom(job[j], "mode")
  BY <1>1, NextSteps
<1>5. /\ job[j].step = "undoLevel"
      /\ \/ Moves(j, [job[j] EXCEPT !.step = next], done) /\ UNCHANGED troubles
         \/ /\ Trouble
            /\ \E s \in {screen, done} :
                 Moves(j, [job[j] EXCEPT !.step = next, !.clean = FALSE], s)
  BY <1>2, <1>4 DEF UndoLevel, Restore
<1>6. IsSetting(j)
  BY <1>5, SettingSteps DEF IsSetting
<1>7. ASSUME NEW x \in Job, x.step = next, x.want = job[j].want, x.prev = job[j].prev,
             Undisturbed(job[j]), screen' = done
      PROVE  Undisturbed(x)'
  <2>1. screen.mode = job[j].want.mode
    BY <1>5, <1>7 DEF Undisturbed
  <2>2. next \in {"undoMode", "throw"}
        /\ (next = "throw" => job[j].want.mode = job[j].prev.mode)
    BY <1>4 DEF UndoFrom
  <2>3. next = "throw" => done = job[j].prev
    BY <1>1, <1>3, <2>1, <2>2, SameScreen
  <2> QED
    BY <1>3, <1>7, <2>1, <2>2, <2>3 DEF Undisturbed
<1> QED
  BY <1>3, <1>5, <1>6, <1>7, RestoreFacts

LEMMA UndoModeStep ==
  ASSUME IInv, NEW j \in Jobs, UndoMode(j),
         UNCHANGED <<sessionVars, wire, up, down>>, GatewayUnchanged
  PROVE  IInv'
<1>1. screen \in Screen /\ job[j] \in Job /\ job[j].prev \in Screen
  BY DEF IInv, TypeOK, Job
<1>2. PICK done : done = Written("mode", job[j].prev["mode"])
  OBVIOUS
<1>3. done \in Screen /\ done.mode = job[j].prev.mode /\ done.level = screen.level
  BY <1>1, <1>2, WrittenFacts DEF IInv
<1>4. PICK next \in Setting : next = "throw"
  BY SettingSteps
<1>5. /\ job[j].step = "undoMode"
      /\ \/ Moves(j, [job[j] EXCEPT !.step = next], done) /\ UNCHANGED troubles
         \/ /\ Trouble
            /\ \E s \in {screen, done} :
                 Moves(j, [job[j] EXCEPT !.step = next, !.clean = FALSE], s)
  BY <1>2, <1>4 DEF UndoMode, Restore
<1>6. IsSetting(j)
  BY <1>5, SettingSteps DEF IsSetting
<1>7. ASSUME NEW x \in Job, x.step = next, x.want = job[j].want, x.prev = job[j].prev,
             Undisturbed(job[j]), screen' = done
      PROVE  Undisturbed(x)'
  <2>1. screen.level = job[j].prev.level
    BY <1>5, <1>7 DEF Undisturbed
  <2>2. done = job[j].prev
    BY <1>1, <1>3, <2>1, SameScreen
  <2> QED
    BY <1>4, <1>7, <2>2 DEF Undisturbed
<1> QED
  BY <1>3, <1>5, <1>6, <1>7, RestoreFacts

LEMMA JobStepStep ==
  ASSUME IInv, NEW j \in Jobs, JobStep(j)
  PROVE  IInv'
<1>1. /\ BrightnessStep(j) /\ UNCHANGED <<sessionVars, wire, up, down>>
      /\ GatewayUnchanged
  BY DEF JobStep
<1> QED
  BY <1>1, ReadBrightnessStep, WriteModeStep, WriteLevelStep, VerifyFailsStep,
     UndoLevelStep, UndoModeStep DEF BrightnessStep

-----------------------------------------------------------------------------
(* The invariant.                                                          *)

LEMMA InitHolds ==
  ASSUME Init
  PROVE  IInv
<1> USE DEF Init, GatewayInit, SessionInit, ExecutorInit
<1>1. NoTask \in Task /\ 0 \in 0..MaxStarts
  BY ExecutorAssumption DEF NoTask, Task
<1>2. TypeOK
  <2>1. tasks \in [Tasks -> Task] /\ finished \in Seq(Tasks) /\ stored \in Nat
    BY <1>1
  <2>2. wire \in [Sockets -> Wire]
    BY DEF Wire
  <2>3. up \in [Sockets -> Seq(UpFrames)] /\ down \in [Sockets -> Seq(DownFrames)]
    OBVIOUS
  <2>4. /\ responses \in [Tasks -> Terminal \cup {"none"}]
        /\ artifactOf \in [Tasks -> 0..MaxStarts]
    BY <1>1 DEF NoResponses, NoArtifacts
  <2>5. screen \in Screen /\ job \in [Jobs -> Job] /\ troubles \in 0..MaxTroubles
        /\ openings \in 0..MaxOpenings
    BY ExecutorAssumption, SessionAssumption, StillIsScreen
  <2> QED
    BY <2>1, <2>2, <2>3, <2>4, <2>5 DEF TypeOK
<1>3. \A t \in Tasks : /\ tasks[t].status = "none" /\ tasks[t].artifact = 0
                       /\ tasks[t].op = "none"
  BY DEF NoTask
<1>4. \A t \in Tasks, n \in 1..MaxStarts : job[<<t, n>>].step = "idle"
  BY DEF Jobs, NoJob
<1>5. Books
  <2>1. {t \in Tasks : tasks[t].artifact # 0} = {}
    BY <1>3
  <2>2. Cardinality({t \in Tasks : tasks[t].artifact # 0}) = 0
    BY <2>1, FS_EmptySet
  <2>3. 1..Len(finished) = {}
    OBVIOUS
  <2> QED
    BY <1>3, <2>2, <2>3, GatewayAssumption DEF Books, BooksOf
<1>6. Sent
  BY <1>3 DEF Sent
<1>7. OneOp
  <2>1. \A k \in Sockets : 1..Len(down[k]) = {}
    OBVIOUS
  <2> QED
    BY <1>3, <1>4, <2>1 DEF OneOp, Concerns, Operations
<1>8. FirstSession
  <2>1. \A t \in Tasks, n \in 1..MaxStarts : ~Started(t, n)
    BY <1>4 DEF Started
  <2> QED
    BY <2>1 DEF FirstSession
<1>9. Settled
  <2>1. \A j \in Jobs : job[j].step = "idle"
    BY DEF NoJob
  <2> QED
    BY <2>1 DEF Settled, IsSetting, Setting, Running
<1> QED
  BY <1>2, <1>5, <1>6, <1>7, <1>8, <1>9 DEF IInv

LEMMA GatewayStepHolds ==
  ASSUME IInv, GatewayStep, UNCHANGED <<sessionVars, executorVars>>
  PROVE  IInv'
  BY GetTaskStep, PublishAckedStep, CreateOperationStep, ServerReceivesStep,
     ServerSeesCloseStep DEF GatewayStep

LEMMA GatewayTroubleHolds ==
  ASSUME IInv, GatewayTrouble, UNCHANGED <<sessionVars, screen, job>>
  PROVE  IInv'
  BY SessionExpiresStep, ServerRestartsStep, PublishFailsStep, TaskTimesOutStep,
     HelloTimesOutStep DEF GatewayTrouble

LEMMA SessionStepHolds ==
  ASSUME IInv, SessionStep
  PROVE  IInv'
<1>1. ASSUME NEW s \in Sessions, HandleOpenCommand(s)
      PROVE  IInv'
  BY <1>1, HandleOpenCommandStep
<1>2. CASE SessionEnds \/ DeploymentStarts \/ DeploymentEnds \/ PhoneRestarts
  BY <1>2, SessionEndsStep, DeploymentStartsStep, DeploymentEndsStep, PhoneRestartsStep
<1>3. ASSUME NEW k \in Sockets,
             Connect(k) \/ PhoneReceives(k) \/ StrayRequest(k) \/ PhoneEndCloses(k) \/ Cut(k)
      PROVE  IInv'
  BY <1>3, ConnectStep, PhoneReceivesStep, StrayRequestStep, PhoneEndClosesStep, CutStep
<1>4. ASSUME NEW j \in Jobs,
             JobEnds(j) \/ TransferFails(j) \/ JobFailsUnreadably(j) \/ JobTimesOut(j)
             \/ JobStep(j)
      PROVE  IInv'
  BY <1>4, JobEndsStep, TransferFailsStep, JobFailsUnreadablyStep, JobTimesOutStep, JobStepStep
<1> QED
  BY <1>1, <1>2, <1>3, <1>4 DEF SessionStep

LEMMA NothingHolds ==
  ASSUME IInv, UNCHANGED vars
  PROVE  IInv'
<1>1. /\ UNCHANGED <<session, socket, tasks, finished, stored, wire, up, down, invites>>
      /\ UNCHANGED <<active, line, shotOn, responses, artifactOf, blocked, openings>>
      /\ UNCHANGED <<screen, job, troubles>>
  BY DEF vars, gatewayVars, sessionVars, executorVars
<1>2. TypeOK' /\ Books' /\ Sent'
  BY <1>1 DEF IInv, TypeOK, Books, BooksOf, Sent
<1>3. OneOp'
  BY <1>1 DEF IInv, OneOp, Concerns
<1>4. FirstSession' /\ Settled'
  BY <1>1 DEF IInv, FirstSession, Started, Listening, Settled, Undisturbed, IsSetting
<1> QED
  BY <1>2, <1>3, <1>4 DEF IInv

\* The books of the server, the socket its tasks wait on, the one operation a task
\* asks for, the course of the first session and the settings that a change of the
\* brightness finds keep to the invariant in every reachable state.
THEOREM Invariance == Spec => []IInv
<1>1. Init => IInv
  BY InitHolds
<1>2. IInv /\ [Next]_vars => IInv'
  BY GatewayStepHolds, GatewayTroubleHolds, SessionStepHolds, NothingHolds DEF Next
<1> QED
  BY <1>1, <1>2, PTL DEF Spec

\* Every variable of the channel keeps its type.
THEOREM TypeCorrect == Spec => []TypeOK
<1>1. IInv => TypeOK
  BY DEF IInv
<1> QED
  BY <1>1, Invariance, PTL

\* storedArtifactBytes counts exactly the screenshots of the tasks the server still
\* has, within the limit, whichever path drops, refuses or replaces one.
THEOREM ArtifactsAreAccounted == Spec => []ArtifactsAccounted
<1>1. IInv => ArtifactsAccounted
  BY DEF IInv, Books, BooksOf, ArtifactsAccounted
<1> QED
  BY <1>1, Invariance, PTL

\* A task that was sent and executes is waited for on the socket the server now has.
THEOREM NoneIsLeftBehind == Spec => []NoneLeftBehind
<1>1. IInv => NoneLeftBehind
  BY DEF IInv, Sent, NoneLeftBehind
<1> QED
  BY <1>1, Invariance, PTL

\* However often it is sent, on one socket after another, a request for a screenshot
\* or a write is carried out once by a session of the phone.
THEOREM RequestRunsOnce == Spec => []RunsOnce
<1>1. IInv => RunsOnce
  <2> SUFFICES ASSUME IInv, openings <= 1, NEW t \in Tasks
               PROVE  Cardinality({n \in 1..MaxStarts :
                         job[<<t, n>>].step # "idle" /\ job[<<t, n>>].op # "read"}) <= 1
    BY DEF RunsOnce
  <2> DEFINE S == {n \in 1..MaxStarts :
                     job[<<t, n>>].step # "idle" /\ job[<<t, n>>].op # "read"}
  <2>1. \A n, m \in S : m = n
    BY DEF IInv, FirstSession, Started
  <2>2. CASE S = {}
    <3>1. Cardinality(S) = 0
      BY <2>2, FS_EmptySet
    <3> QED
      BY <3>1
  <2>3. CASE S # {}
    <3>1. PICK n : S = {n}
      BY <2>1, <2>3
    <3>2. Cardinality(S) = 1
      BY <3>1, FS_Singleton
    <3> QED
      BY <3>2
  <2> QED
    BY <2>2, <2>3
<1> QED
  BY <1>1, Invariance, PTL

\* Only an execution that has nothing left to restore fails.
LEMMA FailsAtTheEnd ==
  ASSUME IInv, Next, NEW j \in Jobs, IsSetting(j), job[j].step # "read",
         job'[j].step = "failed", job'[j].clean
  PROVE  job[j].step = "throw" /\ job[j].clean /\ screen' = screen
<1>1. \A i \in Jobs : job[i] \in Job /\ job \in [Jobs -> Job]
  BY DEF IInv, TypeOK
<1>2. job[j].step # "failed" /\ job[j].step # "idle" /\ job[j].step # "command" /\ job'[j] # job[j]
  BY DEF IsSetting, Setting, Running
<1>3. ASSUME NEW i \in Jobs, NEW x, NEW s, Moves(i, x, s)
      PROVE  i = j /\ x.step = "failed"
  BY <1>1, <1>2, <1>3 DEF Moves
<1>4. \A step \in Setting : step # "failed"
  BY DEF Setting, Running
<1>5. ~UNCHANGED job
  BY <1>2
<1>6. ASSUME NEW i \in Jobs, Fail(i)
      PROVE  job[j].step = "throw" /\ job[j].clean /\ screen' = screen
  <2>1. Moves(i, Ended(i, "failed"), screen)
    BY <1>6 DEF Fail
  <2>2. i = j
    BY <1>3, <2>1
  <2>3. job[j].step = "throw"
    BY <1>2, <1>6, <2>2 DEF Fail
  <2>4. job'[j] = Ended(j, "failed")
    BY <1>1, <2>1, <2>2 DEF Moves
  <2>5. PICK y : y = [job[j] EXCEPT !.step = "failed"]
    OBVIOUS
  <2>6. y.clean = job[j].clean /\ y \in Job
    BY <1>1, <2>5 DEF Job, Steps
  <2>7. Ended(j, "failed") = [y EXCEPT !.held = FALSE]
    BY <1>1, <2>5 DEF Ended
  <2>8. Ended(j, "failed").clean = y.clean
    BY <2>6, <2>7 DEF Job
  <2> QED
    BY <2>1, <2>3, <2>4, <2>6, <2>8 DEF Moves
<1>7. ASSUME NEW i \in Jobs, Succeed(i)
      PROVE  FALSE
  <2>1. Moves(i, Ended(i, "ok"), screen) /\ Ended(i, "ok").step = "ok"
    BY <1>7, EndedFacts DEF Succeed, IInv
  <2> QED
    BY <1>3, <2>1
<1>8. ASSUME NEW i \in Jobs, BrightnessStep(i)
      PROVE  FALSE
  <2>1. job[i] \in Job /\ "mode" \in {"mode", "level"} /\ "level" \in {"mode", "level"}
    BY <1>1
  <2>2. ASSUME NEW y \in Job, NEW step \in Setting, NEW s,
               Moves(i, [y EXCEPT !.step = step], s)
        PROVE  FALSE
    <3>1. PICK x : x = [y EXCEPT !.step = step]
      OBVIOUS
    <3>2. x.step = step
      BY <3>1, StepFacts
    <3>3. Moves(i, x, s)
      BY <2>2, <3>1
    <3> QED
      BY <1>3, <1>4, <3>2, <3>3
  <2>3. ASSUME NEW step \in Setting, NEW s,
               Moves(i, [job[i] EXCEPT !.step = step, !.clean = FALSE], s)
        PROVE  FALSE
    <3>1. PICK x : x = [job[i] EXCEPT !.step = step]
      OBVIOUS
    <3>2. x \in Job /\ x.step = step
      BY <2>1, <3>1, StepFacts
    <3>3. PICK y : y = [x EXCEPT !.clean = FALSE]
      OBVIOUS
    <3>4. y.step = step
      BY <3>2, <3>3 DEF Job
    <3>5. Moves(i, y, s)
      BY <2>1, <2>3, <3>1, <3>3
    <3> QED
      BY <1>3, <1>4, <3>4, <3>5
  <2>4. ~ReadBrightness(i)
    <3> SUFFICES ASSUME ReadBrightness(i)
                 PROVE  FALSE
      OBVIOUS
    <3>1. PICK y : y = [job[i] EXCEPT !.prev = screen]
      OBVIOUS
    <3>2. y \in Job
      BY <2>1, <3>1 DEF Job, IInv, TypeOK
    <3>3. Moves(i, [y EXCEPT !.step = AfterRead(y)], screen)
      BY <3>1 DEF ReadBrightness
    <3> QED
      BY <2>1, <2>2, <3>2, <3>3, NextSteps
  <2>5. AfterMode(job[i]) \in Setting /\ UndoFrom(job[i], "mode") \in Setting
        /\ UndoFrom(job[i], "level") \in Setting /\ "verify" \in Setting /\ "throw" \in Setting
    BY <2>1, NextSteps, SettingSteps
  <2>6. ~WriteMode(i)
    BY <2>1, <2>2, <2>5 DEF WriteMode, Write
  <2>7. ~WriteLevel(i)
    BY <2>1, <2>2, <2>5 DEF WriteLevel, Write
  <2>8. ~VerifyFails(i)
    BY <2>1, <2>2, <2>5 DEF VerifyFails
  <2>9. ~UndoLevel(i)
    BY <2>1, <2>2, <2>3, <2>5 DEF UndoLevel, Restore
  <2>10. ~UndoMode(i)
    BY <2>1, <2>2, <2>3, <2>5 DEF UndoMode, Restore
  <2> QED
    BY <1>8, <2>4, <2>6, <2>7, <2>8, <2>9, <2>10 DEF BrightnessStep
<1>9. ASSUME NEW t \in Tasks, NEW n \in NextStart(t), NEW op, Start(<<t, n>>, op)
      PROVE  FALSE
  <2>1. <<t, n>> \in Jobs /\ job[<<t, n>>].step = "idle"
    BY DEF NextStart, Jobs
  <2>2. j # <<t, n>>
    BY <1>2, <2>1
  <2>3. job'[j] = job[j] \/ job'[j] = [job[j] EXCEPT !.clean = FALSE]
    BY <1>9, <2>2 DEF Start
  <2>4. job'[j].step = job[j].step
    BY <1>1, <2>3 DEF Job
  <2> QED
    BY <1>2, <2>4
<1>10. ASSUME SessionStep
       PROVE  job[j].step = "throw" /\ job[j].clean /\ screen' = screen
  <2>1. ASSUME NEW s \in Sessions, HandleOpenCommand(s)
        PROVE  FALSE
    <3>1. job'[j] = [job[j] EXCEPT !.held = FALSE]
      BY <2>1 DEF HandleOpenCommand
    <3>2. job'[j].step = job[j].step
      BY <1>1, <3>1 DEF Job
    <3> QED
      BY <1>2, <3>2
  <2>2. ~SessionEnds /\ ~DeploymentStarts /\ ~DeploymentEnds
    BY <1>5 DEF SessionEnds, DeploymentStarts, DeploymentEnds, CloseSession, executorVars
  <2>3. ~PhoneRestarts
    <3> SUFFICES ASSUME PhoneRestarts
                 PROVE  FALSE
      OBVIOUS
    <3>1. job'[j] = IF IsRunning(j) THEN Ended(j, "killed") ELSE job[j]
      BY DEF PhoneRestarts
    <3>2. Ended(j, "killed").step = "killed"
      BY EndedFacts DEF IInv
    <3> QED
      BY <1>2, <3>1, <3>2
  <2>4. ASSUME NEW k \in Sockets
        PROVE  /\ ~Connect(k) /\ ~PhoneReceives(k) /\ ~StrayRequest(k)
               /\ ~PhoneEndCloses(k) /\ ~Cut(k)
    <3>1. ~Connect(k) /\ ~PhoneEndCloses(k) /\ ~Cut(k)
      BY <1>5 DEF Connect, PhoneEndCloses, Cut, executorVars
    <3>2. ~PhoneReceives(k)
      <4> SUFFICES ASSUME PhoneReceives(k)
                   PROVE  FALSE
        OBVIOUS
      <4>1. PICK m \in DownFrames : m = Head(down[k])
        BY HeadFacts DEF PhoneReceives, IInv
      <4>2. m.type # "eof" /\ HandleRequest(m.task, m.op)
        BY <1>5, <4>1 DEF PhoneReceives, LoseLine, executorVars
      <4>3. m.task \in Tasks
        BY <4>2 DEF DownFrames
      <4>4. PICK n \in NextStart(m.task) : Start(<<m.task, n>>, m.op)
        BY <1>5, <4>2 DEF HandleRequest, executorVars
      <4> QED
        BY <1>9, <4>3, <4>4
    <3>3. ~StrayRequest(k)
      <4> SUFFICES ASSUME StrayRequest(k)
                   PROVE  FALSE
        OBVIOUS
      <4>1. PICK m \in DownFrames : m = Head(down[k])
        BY HeadFacts DEF StrayRequest, IInv
      <4>2. m.type = "request" /\ \E n \in NextStart(m.task) : Start(<<m.task, n>>, m.op)
        BY <4>1 DEF StrayRequest
      <4>3. m.task \in Tasks
        BY <4>2 DEF DownFrames
      <4> QED
        BY <1>9, <4>2, <4>3
    <3> QED
      BY <3>1, <3>2, <3>3
  <2>5. ASSUME NEW i \in Jobs,
               JobEnds(i) \/ TransferFails(i) \/ JobFailsUnreadably(i) \/ JobTimesOut(i)
               \/ JobStep(i)
        PROVE  job[j].step = "throw" /\ job[j].clean /\ screen' = screen
    <3>1. CASE JobEnds(i) \/ JobFailsUnreadably(i) \/ TransferFails(i)
      BY <1>6, <1>7, <3>1 DEF JobEnds, JobFailsUnreadably, TransferFails
    <3>2. CASE JobTimesOut(i)
      <4>1. job' = [job EXCEPT ![i].held = FALSE]
        BY <3>2 DEF JobTimesOut
      <4>2. job'[j] = job[j] \/ job'[j] = [job[j] EXCEPT !.held = FALSE]
        BY <1>1, <4>1
      <4>3. job'[j].step = job[j].step
        BY <1>1, <4>2 DEF Job
      <4> QED
        BY <1>2, <4>3
    <3>3. CASE JobStep(i)
      BY <1>8, <3>3 DEF JobStep
    <3> QED
      BY <2>5, <3>1, <3>2, <3>3
  <2> QED
    BY <1>10, <2>1, <2>2, <2>3, <2>4, <2>5 DEF SessionStep
<1> QED
  BY <1>5, <1>10 DEF Next, executorVars

\* A change of the brightness that fails has put back both settings as it found them,
\* unless a restoring command failed too or another change overlapped.
THEOREM FailedSetIsUndone == Spec => FailedSetRestores
<1>1. IInv /\ [Next]_vars =>
        [\A j \in Jobs :
           (/\ IsSetting(j) /\ job[j].step # "read"
            /\ job'[j].step = "failed" /\ job'[j].clean)
           => screen' = job[j].prev]_vars
  <2> SUFFICES ASSUME IInv, Next, NEW j \in Jobs, IsSetting(j), job[j].step # "read",
                      job'[j].step = "failed", job'[j].clean
               PROVE  screen' = job[j].prev
    OBVIOUS
  <2>1. job[j].step = "throw" /\ job[j].clean /\ screen' = screen
    BY FailsAtTheEnd
  <2>2. Undisturbed(job[j])
    BY <2>1 DEF IInv, Settled
  <2> QED
    BY <2>1, <2>2 DEF Undisturbed
<1> QED
  BY <1>1, Invariance, PTL DEF Spec, FailedSetRestores
=============================================================================
