-------------------------- MODULE TaskExecutorProofs --------------------------
(***************************************************************************)
(* Safety of the task executor for any number of tasks, runs and events.   *)
(* The invariants the runs check are not inductive: IInv adds the order of *)
(* the sequence numbers, and that at most one deployment handler is        *)
(* stopping a run, only in the phase "forcing" and with no task starting.  *)
(* On top of it, Truth follows what is said of a run past its commit       *)
(* boundary, Settled the scripts of the runs that were answered, and Alive *)
(* and Answers the tasks of one life of the client.                        *)
(***************************************************************************)
EXTENDS TaskExecutor, SequenceTheorems, WellFoundedInduction,
        FiniteSetTheorems, TLAPS

-----------------------------------------------------------------------------
(* What the operators of TaskQueue return, for every task set and ranking. *)

\* Removing a waiting entry (Array.splice with a count of one) leaves the
\* others, in their order.
LEMMA RemoveAtType ==
  ASSUME NEW S, NEW q \in Seq(S), NEW k \in 1..Len(q)
  PROVE  /\ RemoveAt(q, k) \in Seq(S)
         /\ Len(RemoveAt(q, k)) = Len(q) - 1
         /\ \A i \in 1..(Len(q) - 1) :
              RemoveAt(q, k)[i] = IF i < k THEN q[i] ELSE q[i + 1]
<1> DEFINE a == SubSeq(q, 1, k - 1)
           b == SubSeq(q, k + 1, Len(q))
<1>1. /\ a \in Seq(S) /\ Len(a) = k - 1
      /\ \A i \in 1..(k - 1) : a[i] = q[i]
  <2>1. \A i \in 1..(k - 1) : q[i] \in S
    OBVIOUS
  <2> QED
    BY <2>1, SubSeqProperties, SMT
<1>2. /\ b \in Seq(S) /\ Len(b) = Len(q) - k
      /\ \A i \in 1..(Len(q) - k) : b[i] = q[k + i]
  <2>1. \A i \in (k + 1)..Len(q) : q[i] \in S
    OBVIOUS
  <2> QED
    BY <2>1, SubSeqProperties, SMT
<1>3. RemoveAt(q, k) = a \o b
  BY DEF RemoveAt
<1> HIDE DEF a, b
<1>4. /\ a \o b \in Seq(S) /\ Len(a \o b) = Len(a) + Len(b)
      /\ \A i \in 1..(Len(a) + Len(b)) :
           (a \o b)[i] = IF i <= Len(a) THEN a[i] ELSE b[i - Len(a)]
  BY <1>1, <1>2, ConcatProperties
<1> QED
  BY <1>1, <1>2, <1>3, <1>4

\* Array.splice at k puts e there and moves what follows by one.
LEMMA InsertAtType ==
  ASSUME NEW S, NEW q \in Seq(S), NEW k \in 1..(Len(q) + 1), NEW e \in S
  PROVE  /\ InsertAt(q, k, e) \in Seq(S)
         /\ Len(InsertAt(q, k, e)) = Len(q) + 1
         /\ \A i \in 1..(Len(q) + 1) :
              InsertAt(q, k, e)[i] =
                IF i < k THEN q[i] ELSE IF i = k THEN e ELSE q[i - 1]
<1> DEFINE a == SubSeq(q, 1, k - 1)
           b == SubSeq(q, k, Len(q))
           c == a \o <<e>>
<1>1. /\ a \in Seq(S) /\ Len(a) = k - 1
      /\ \A i \in 1..(k - 1) : a[i] = q[i]
  <2>1. \A i \in 1..(k - 1) : q[i] \in S
    OBVIOUS
  <2> QED
    BY <2>1, SubSeqProperties, SMT
<1>2. /\ b \in Seq(S) /\ Len(b) = Len(q) - k + 1
      /\ \A i \in 1..(Len(q) - k + 1) : b[i] = q[k + i - 1]
  <2>1. \A i \in k..Len(q) : q[i] \in S
    OBVIOUS
  <2> QED
    BY <2>1, SubSeqProperties, SMT
<1>3. InsertAt(q, k, e) = c \o b
  BY DEF InsertAt
<1>4. /\ <<e>> \in Seq(S) /\ Len(<<e>>) = 1 /\ <<e>>[1] = e
  OBVIOUS
<1> HIDE DEF a, b
<1>5. /\ c \in Seq(S) /\ Len(c) = k
      /\ \A i \in 1..k : c[i] = IF i < k THEN a[i] ELSE e
  BY <1>1, <1>4, ConcatProperties, SMT
<1> HIDE DEF c
<1>6. /\ c \o b \in Seq(S) /\ Len(c \o b) = Len(c) + Len(b)
      /\ \A i \in 1..(Len(c) + Len(b)) :
           (c \o b)[i] = IF i <= Len(c) THEN c[i] ELSE b[i - Len(c)]
  BY <1>2, <1>5, ConcatProperties
<1> QED
  BY <1>1, <1>2, <1>3, <1>5, <1>6

\* A set of indices that is not empty has a least one.
LEMMA Minimum ==
  ASSUME NEW S, S \subseteq Nat, S # {}
  PROVE  \E m \in S : \A k \in S : m <= k
<1>1. IsWellFoundedOn(OpToRel(<, Nat), Nat)
  BY NatLessThanWellFounded
<1>2. \E m \in S : \A k \in S : <<k, m>> \notin OpToRel(<, Nat)
  BY <1>1, WFMin
<1>3. \A k, m \in Nat : <<k, m>> \notin OpToRel(<, Nat) => m <= k
  BY DEF OpToRel
<1> QED
  BY <1>2, <1>3

\* An arrival is put behind every entry of its rank or a higher one, and in
\* front of the first entry of a lower rank.
LEMMA InsertPositionIsFirstLower ==
  ASSUME NEW q \in Seq(Entry), NEW t \in Tasks
  PROVE  /\ InsertPosition(q, t) \in 1..(Len(q) + 1)
         /\ \A i \in 1..(InsertPosition(q, t) - 1) :
              ~(Rank[q[i].task] < Rank[t])
         /\ InsertPosition(q, t) <= Len(q) =>
              Rank[q[InsertPosition(q, t)].task] < Rank[t]
<1> DEFINE lower == {i \in DOMAIN q : Rank[q[i].task] < Rank[t]}
<1>1. DOMAIN q = 1..Len(q)
  OBVIOUS
<1>2. CASE lower = {}
  <2>1. InsertPosition(q, t) = Len(q) + 1
    BY <1>2 DEF InsertPosition
  <2> QED
    BY <1>1, <1>2, <2>1
<1>3. CASE lower # {}
  <2>0. lower \subseteq Nat
    BY <1>1
  <2>1. \E m \in lower : \A k \in lower : m <= k
    <3> HIDE DEF lower
    <3> QED
      BY <1>3, <2>0, Minimum
  <2>2. InsertPosition(q, t) = CHOOSE i \in lower : \A j \in lower : i <= j
    BY <1>3 DEF InsertPosition
  <2>3. /\ InsertPosition(q, t) \in lower
        /\ \A k \in lower : InsertPosition(q, t) <= k
    BY <2>1, <2>2
  <2> QED
    BY <1>1, <2>3
<1> QED
  BY <1>2, <1>3

\* insertQueuedTask adds one entry and keeps every other.
LEMMA InsertQueuedTaskType ==
  ASSUME NEW q \in Seq(Entry), NEW e \in Entry
  PROVE  /\ InsertQueuedTask(q, e) \in Seq(Entry)
         /\ Len(InsertQueuedTask(q, e)) = Len(q) + 1
         /\ Waiting(InsertQueuedTask(q, e)) = Waiting(q) \cup {e.task}
<1> DEFINE p == InsertQueuedTask(q, e)
<1>1. e.task \in Tasks
  BY DEF Entry
<1>2. PICK k \in 1..(Len(q) + 1) : k = InsertPosition(q, e.task)
  BY <1>1, InsertPositionIsFirstLower
<1>3. /\ p \in Seq(Entry) /\ Len(p) = Len(q) + 1
      /\ \A i \in 1..(Len(q) + 1) :
           p[i] = IF i < k THEN q[i] ELSE IF i = k THEN e ELSE q[i - 1]
  <2>1. p = InsertAt(q, k, e)
    BY <1>2 DEF InsertQueuedTask
  <2>2. InsertAt(q, k, e) \in Seq(Entry)
    BY InsertAtType
  <2>3. Len(InsertAt(q, k, e)) = Len(q) + 1
    BY InsertAtType
  <2>4. \A i \in 1..(Len(q) + 1) :
          InsertAt(q, k, e)[i] =
            IF i < k THEN q[i] ELSE IF i = k THEN e ELSE q[i - 1]
    BY InsertAtType
  <2> QED
    BY <2>1, <2>2, <2>3, <2>4
<1> HIDE DEF p
<1>4. DOMAIN p = 1..(Len(q) + 1) /\ DOMAIN q = 1..Len(q)
  BY <1>3
<1>5. Waiting(p) \subseteq Waiting(q) \cup {e.task}
  <2> SUFFICES ASSUME NEW i \in 1..(Len(q) + 1)
               PROVE  p[i].task \in Waiting(q) \cup {e.task}
    BY <1>4 DEF Waiting
  <2>1. p[i] = e \/ \E j \in 1..Len(q) : p[i] = q[j]
    <3>1. CASE i < k
      BY <1>2, <1>3, <3>1
    <3>2. CASE i = k
      BY <1>3, <3>2
    <3>3. CASE i > k
      <4>1. i - 1 \in 1..Len(q) /\ p[i] = q[i - 1]
        BY <1>2, <1>3, <3>3
      <4> QED
        BY <4>1
    <3> QED
      BY <1>2, <3>1, <3>2, <3>3
  <2> QED
    BY <1>4, <2>1 DEF Waiting
<1>6. Waiting(q) \cup {e.task} \subseteq Waiting(p)
  <2>1. p[k] = e /\ k \in DOMAIN p
    BY <1>2, <1>3, <1>4
  <2>2. ASSUME NEW j \in 1..Len(q)
        PROVE  \E i \in DOMAIN p : p[i] = q[j]
    <3>1. CASE j < k
      <4>1. j \in DOMAIN p /\ p[j] = q[j]
        BY <1>2, <1>3, <1>4, <3>1
      <4> QED
        BY <4>1
    <3>2. CASE j >= k
      <4>1. j + 1 \in DOMAIN p /\ p[j + 1] = q[j]
        BY <1>2, <1>3, <1>4, <3>2
      <4> QED
        BY <4>1
    <3> QED
      BY <1>2, <3>1, <3>2
  <2> QED
    BY <1>4, <2>1, <2>2 DEF Waiting
<1> QED
  BY <1>3, <1>5, <1>6 DEF p

\* The queue stays in order: rank first, arrival second, provided that the
\* new entry has a higher sequence number than all that wait.
THEOREM InsertKeepsOrder ==
  ASSUME NEW q \in Seq(Entry), NEW e \in Entry,
         Ordered(q), \A i \in DOMAIN q : q[i].seq < e.seq
  PROVE  Ordered(InsertQueuedTask(q, e))
<1> DEFINE p == InsertQueuedTask(q, e)
<1> USE TaskQueueAssumption
<1>1. e.task \in Tasks /\ e.seq \in Nat
  BY DEF Entry
<1>2. PICK k \in 1..(Len(q) + 1) :
        /\ k = InsertPosition(q, e.task)
        /\ \A i \in 1..(k - 1) : ~(Rank[q[i].task] < Rank[e.task])
        /\ k <= Len(q) => Rank[q[k].task] < Rank[e.task]
  BY <1>1, InsertPositionIsFirstLower
<1>3. /\ p \in Seq(Entry) /\ Len(p) = Len(q) + 1
      /\ \A i \in 1..(Len(q) + 1) :
           p[i] = IF i < k THEN q[i] ELSE IF i = k THEN e ELSE q[i - 1]
  <2>1. p = InsertAt(q, k, e)
    BY <1>2 DEF InsertQueuedTask
  <2>2. InsertAt(q, k, e) \in Seq(Entry)
    BY InsertAtType
  <2>3. Len(InsertAt(q, k, e)) = Len(q) + 1
    BY InsertAtType
  <2>4. \A i \in 1..(Len(q) + 1) :
          InsertAt(q, k, e)[i] =
            IF i < k THEN q[i] ELSE IF i = k THEN e ELSE q[i - 1]
    BY InsertAtType
  <2> QED
    BY <2>1, <2>2, <2>3, <2>4
<1> HIDE DEF p
<1>4. DOMAIN p = 1..(Len(q) + 1) /\ DOMAIN q = 1..Len(q)
  BY <1>3
<1>5. \A i \in 1..Len(q) : q[i].task \in Tasks /\ q[i].seq \in Nat
  <2>1. \A i \in 1..Len(q) : q[i] \in Entry
    OBVIOUS
  <2> QED
    BY <2>1 DEF Entry
<1>6. \A t \in Tasks : Rank[t] \in Nat
  BY DEF High
<1>7. \A i \in k..Len(q) : Rank[q[i].task] < Rank[e.task]
  <2> SUFFICES ASSUME NEW i \in k..Len(q)
               PROVE  Rank[q[i].task] < Rank[e.task]
    OBVIOUS
  <2>1. k \in 1..Len(q) /\ i \in 1..Len(q)
    BY <1>2
  <2>2. Rank[q[k].task] < Rank[e.task]
    BY <1>2, <2>1
  <2>3. i = k \/ Before(q[k], q[i])
    BY <1>4, <2>1 DEF Ordered
  <2>4. Rank[q[i].task] <= Rank[q[k].task]
    BY <1>5, <1>6, <2>1, <2>3 DEF Before
  <2> QED
    BY <1>1, <1>5, <1>6, <2>1, <2>2, <2>4
<1> SUFFICES ASSUME NEW i \in 1..(Len(q) + 1), NEW j \in 1..(Len(q) + 1), i < j
             PROVE  Before(p[i], p[j])
  BY <1>4 DEF Ordered, p
<1>8. CASE j < k
  <2>1. p[i] = q[i] /\ p[j] = q[j] /\ i \in 1..Len(q) /\ j \in 1..Len(q)
    BY <1>2, <1>3, <1>8
  <2> QED
    BY <1>4, <2>1 DEF Ordered
<1>9. CASE j = k
  <2>1. p[i] = q[i] /\ p[j] = e /\ i \in 1..Len(q) /\ i \in 1..(k - 1)
    BY <1>2, <1>3, <1>9
  <2>2. ~(Rank[q[i].task] < Rank[e.task]) /\ q[i].seq < e.seq
    BY <1>2, <1>4, <2>1
  <2> QED
    BY <1>1, <1>5, <1>6, <2>1, <2>2 DEF Before
<1>10. CASE i < k /\ k < j
  <2>1. /\ p[i] = q[i] /\ p[j] = q[j - 1]
        /\ i \in 1..Len(q) /\ j - 1 \in 1..Len(q) /\ i < j - 1
    BY <1>2, <1>3, <1>10
  <2> QED
    BY <1>4, <2>1 DEF Ordered
<1>11. CASE i = k
  <2>1. p[i] = e /\ p[j] = q[j - 1] /\ j - 1 \in k..Len(q)
    BY <1>2, <1>3, <1>11
  <2>2. Rank[q[j - 1].task] < Rank[e.task]
    BY <1>7, <2>1
  <2> QED
    BY <1>2, <1>1, <1>5, <1>6, <2>1, <2>2 DEF Before
<1>12. CASE k < i
  <2>1. /\ p[i] = q[i - 1] /\ p[j] = q[j - 1]
        /\ i - 1 \in 1..Len(q) /\ j - 1 \in 1..Len(q) /\ i - 1 < j - 1
    BY <1>2, <1>3, <1>12
  <2> QED
    BY <1>4, <2>1 DEF Ordered
<1> QED
  BY <1>2, <1>8, <1>9, <1>10, <1>11, <1>12

\* findHighPriorityEvictionIndex returns the index of a waiting entry, or 0
\* (the code's -1).
LEMMA EvictionIndexType ==
  ASSUME NEW q \in Seq(Entry), NEW t \in Tasks
  PROVE  EvictionIndex(q, t) \in 0..Len(q)
<1> USE TaskQueueAssumption
<1> DEFINE lower == {i \in DOMAIN q : Rank[q[i].task] < Rank[t]}
           ranks == {Rank[q[i].task] : i \in lower}
           First(i) == \A j \in lower :
                         \/ Rank[q[i].task] < Rank[q[j].task]
                         \/ /\ Rank[q[i].task] = Rank[q[j].task]
                            /\ q[i].seq <= q[j].seq
<1>1. /\ lower \subseteq 1..Len(q)
      /\ \A i \in lower : q[i].seq \in Nat /\ Rank[q[i].task] \in Nat
  <2>1. \A i \in 1..Len(q) : q[i] \in Entry
    OBVIOUS
  <2> QED
    BY <2>1 DEF Entry, High
<1>2. CASE lower = {} \/ Rank[t] # High
  <2>1. EvictionIndex(q, t) = 0
    BY <1>2 DEF EvictionIndex
  <2> QED
    BY <2>1
<1>3. CASE lower # {} /\ Rank[t] = High
  <2>1. EvictionIndex(q, t) = CHOOSE i \in lower : First(i)
    BY <1>3 DEF EvictionIndex
  <2> HIDE DEF lower
  <2>2. PICK m \in ranks : \A r \in ranks : m <= r
    <3>1. ranks \subseteq Nat /\ ranks # {}
      BY <1>1, <1>3
    <3> HIDE DEF ranks
    <3> QED
      BY <3>1, Minimum
  <2> DEFINE least == {i \in lower : Rank[q[i].task] = m}
             seqs == {q[i].seq : i \in least}
  <2>3. least # {} /\ least \subseteq lower
    BY <2>2
  <2>4. PICK n \in seqs : \A s \in seqs : n <= s
    <3>1. seqs \subseteq Nat /\ seqs # {}
      BY <1>1, <2>3
    <3> HIDE DEF seqs
    <3> QED
      BY <3>1, Minimum
  <2>5. PICK i \in least : q[i].seq = n
    BY <2>4
  <2>6. First(i)
    <3> SUFFICES ASSUME NEW j \in lower
                 PROVE  \/ Rank[q[i].task] < Rank[q[j].task]
                        \/ /\ Rank[q[i].task] = Rank[q[j].task]
                           /\ q[i].seq <= q[j].seq
      OBVIOUS
    <3>1. Rank[q[j].task] \in ranks /\ m <= Rank[q[j].task]
      BY <2>2
    <3>2. m \in Nat /\ Rank[q[j].task] \in Nat /\ Rank[q[i].task] = m
      BY <1>1, <2>2
    <3>3. CASE Rank[q[j].task] = m
      <4>1. q[j].seq \in seqs
        BY <3>3
      <4>2. q[i].seq <= q[j].seq
        BY <2>4, <2>5, <4>1
      <4> QED
        BY <3>2, <3>3, <4>2
    <3> QED
      BY <3>1, <3>2, <3>3
  <2>7. \E l \in lower : First(l)
    BY <2>3, <2>5, <2>6
  <2> HIDE DEF First
  <2>8. EvictionIndex(q, t) \in lower
    BY <2>1, <2>7
  <2>9. EvictionIndex(q, t) \in 1..Len(q)
    BY <1>1, <2>8
  <2> HIDE DEF ranks, least, seqs
  <2> QED
    BY <2>9
<1> QED
  BY <1>2, <1>3

\* A queue as the client keeps it when n sequence numbers have been given out.
WellFormed(q, n) ==
  Distinct(q) /\ Ordered(q) /\ \A i \in DOMAIN q : q[i].seq < n

\* Taking the entry at k out of a well formed queue, by shift or by splice.
LEMMA DropKeeps ==
  ASSUME NEW q \in Seq(Entry), NEW n \in Nat, WellFormed(q, n),
         NEW k \in 1..Len(q), NEW p \in Seq(Entry), Len(p) = Len(q) - 1,
         \A i \in 1..(Len(q) - 1) : p[i] = IF i < k THEN q[i] ELSE q[i + 1]
  PROVE  WellFormed(p, n) /\ Waiting(p) = Waiting(q) \ {q[k].task}
<1> DEFINE to(i) == IF i < k THEN i ELSE i + 1
<1>1. DOMAIN q = 1..Len(q) /\ DOMAIN p = 1..(Len(q) - 1)
  OBVIOUS
<1>2. \A i \in DOMAIN p : to(i) \in DOMAIN q /\ to(i) # k /\ p[i] = q[to(i)]
  BY <1>1
<1>3. \A i, j \in DOMAIN p : (i < j => to(i) < to(j)) /\ (to(i) = to(j) => i = j)
  BY <1>1
<1>4. \A j \in DOMAIN q : j # k => \E i \in DOMAIN p : to(i) = j
  <2> SUFFICES ASSUME NEW j \in DOMAIN q, j # k
               PROVE  \E i \in DOMAIN p : to(i) = j
    OBVIOUS
  <2>1. CASE j < k
    <3>1. j \in DOMAIN p /\ to(j) = j
      BY <1>1, <2>1
    <3> QED
      BY <3>1
  <2>2. CASE j > k
    <3>1. j - 1 \in DOMAIN p /\ to(j - 1) = j
      BY <1>1, <2>2
    <3> QED
      BY <3>1
  <2> QED
    BY <1>1, <2>1, <2>2
<1> HIDE DEF to
<1>5. Distinct(p)
  BY <1>2, <1>3 DEF Distinct, WellFormed
<1>6. Ordered(p)
  BY <1>2, <1>3 DEF Ordered, WellFormed
<1>7. \A i \in DOMAIN p : p[i].seq < n
  BY <1>2 DEF WellFormed
<1>8. Waiting(p) \subseteq Waiting(q) \ {q[k].task}
  BY <1>1, <1>2 DEF Distinct, WellFormed, Waiting
<1>9. Waiting(q) \ {q[k].task} \subseteq Waiting(p)
  BY <1>1, <1>2, <1>4 DEF Waiting
<1> QED
  BY <1>5, <1>6, <1>7, <1>8, <1>9 DEF WellFormed

\* taskQueue.splice(k, 1)
LEMMA RemoveAtKeeps ==
  ASSUME NEW q \in Seq(Entry), NEW n \in Nat, WellFormed(q, n),
         NEW k \in 1..Len(q)
  PROVE  /\ RemoveAt(q, k) \in Seq(Entry)
         /\ Len(RemoveAt(q, k)) = Len(q) - 1
         /\ WellFormed(RemoveAt(q, k), n)
         /\ Waiting(RemoveAt(q, k)) = Waiting(q) \ {q[k].task}
<1>1. RemoveAt(q, k) \in Seq(Entry)
  BY RemoveAtType
<1>2. Len(RemoveAt(q, k)) = Len(q) - 1
  BY RemoveAtType
<1>3. \A i \in 1..(Len(q) - 1) :
        RemoveAt(q, k)[i] = IF i < k THEN q[i] ELSE q[i + 1]
  BY RemoveAtType
<1> QED
  BY <1>1, <1>2, <1>3, DropKeeps

\* taskQueue.shift()
LEMMA TailKeeps ==
  ASSUME NEW q \in Seq(Entry), NEW n \in Nat, WellFormed(q, n), q # <<>>
  PROVE  /\ Tail(q) \in Seq(Entry)
         /\ Len(Tail(q)) = Len(q) - 1
         /\ Head(q) \in Entry
         /\ Head(q).task \in Waiting(q)
         /\ WellFormed(Tail(q), n)
         /\ Waiting(Tail(q)) = Waiting(q) \ {Head(q).task}
<1>1. /\ Tail(q) \in Seq(Entry) /\ Len(Tail(q)) = Len(q) - 1
      /\ Head(q) = q[1] /\ Head(q) \in Entry /\ 1 \in 1..Len(q)
  OBVIOUS
<1>2. \A i \in 1..(Len(q) - 1) : Tail(q)[i] = IF i < 1 THEN q[i] ELSE q[i + 1]
  <2>1. \A i \in 1..Len(Tail(q)) : Tail(q)[i] = q[i + 1]
    OBVIOUS
  <2> QED
    BY <1>1, <2>1
<1>3. WellFormed(Tail(q), n) /\ Waiting(Tail(q)) = Waiting(q) \ {q[1].task}
  <2> DEFINE p == Tail(q)
  <2>1. /\ p \in Seq(Entry) /\ Len(p) = Len(q) - 1
        /\ \A i \in 1..(Len(q) - 1) : p[i] = IF i < 1 THEN q[i] ELSE q[i + 1]
    BY <1>1, <1>2
  <2> HIDE DEF p
  <2>2. WellFormed(p, n) /\ Waiting(p) = Waiting(q) \ {q[1].task}
    BY <1>1, <2>1, DropKeeps
  <2> QED
    BY <2>2 DEF p
<1>4. q[1].task \in Waiting(q)
  BY <1>1 DEF Waiting
<1> QED
  BY <1>1, <1>3, <1>4

\* insertQueuedTask of a task that does not wait yet, with the next number.
LEMMA InsertKeeps ==
  ASSUME NEW q \in Seq(Entry), NEW n \in Nat, WellFormed(q, n),
         NEW e \in Entry, e.seq = n, e.task \notin Waiting(q)
  PROVE  WellFormed(InsertQueuedTask(q, e), n + 1)
<1> DEFINE p == InsertQueuedTask(q, e)
<1>1. e.task \in Tasks
  BY DEF Entry
<1>2. PICK k \in 1..(Len(q) + 1) : k = InsertPosition(q, e.task)
  BY <1>1, InsertPositionIsFirstLower
<1>3. p = InsertAt(q, k, e)
  BY <1>2 DEF InsertQueuedTask
<1>4. p \in Seq(Entry) /\ Len(p) = Len(q) + 1
  BY InsertQueuedTaskType
<1>5. \A i \in 1..(Len(q) + 1) :
        p[i] = IF i < k THEN q[i] ELSE IF i = k THEN e ELSE q[i - 1]
  <2>1. \A i \in 1..(Len(q) + 1) :
          InsertAt(q, k, e)[i] =
            IF i < k THEN q[i] ELSE IF i = k THEN e ELSE q[i - 1]
    BY InsertAtType
  <2> QED
    BY <1>3, <2>1
<1>6. Ordered(p)
  BY InsertKeepsOrder DEF WellFormed
<1> HIDE DEF p
<1> DEFINE from(i) == IF i < k THEN i ELSE i - 1
<1>7. DOMAIN p = 1..(Len(q) + 1) /\ DOMAIN q = 1..Len(q)
  BY <1>4
<1>8. /\ p[k] = e
      /\ \A i \in DOMAIN p \ {k} : from(i) \in DOMAIN q /\ p[i] = q[from(i)]
  BY <1>5, <1>7
<1>9. \A i, j \in DOMAIN p \ {k} : from(i) = from(j) => i = j
  BY <1>7
<1> HIDE DEF from
<1>10. Distinct(p)
  BY <1>7, <1>8, <1>9 DEF Distinct, WellFormed, Waiting
<1>11. \A i \in DOMAIN q : q[i].seq \in Nat
  <2>1. \A i \in DOMAIN q : q[i] \in Entry
    BY <1>7
  <2> QED
    BY <2>1 DEF Entry
<1>12. \A i \in DOMAIN p : p[i].seq < n + 1
  <2> SUFFICES ASSUME NEW i \in DOMAIN p PROVE p[i].seq < n + 1
    OBVIOUS
  <2>1. CASE i = k
    BY <1>8, <2>1
  <2>2. CASE i # k
    BY <1>8, <1>11, <2>2 DEF WellFormed
  <2> QED
    BY <2>1, <2>2
<1> QED
  BY <1>6, <1>10, <1>12 DEF WellFormed, p

-----------------------------------------------------------------------------
(* The executor.                                                           *)

ForcingAlone ==
  /\ deploy.phase = "forcing" => starting = NoTask
  /\ \A s \in stops : s.by = "deploy" => deploy.phase = "forcing"
  /\ \A s, z \in stops : s.by = "deploy" /\ z.by = "deploy" => s = z

IInv ==
  /\ TypeOK
  /\ WellFormed(queue, nextSeq)
  /\ Len(queue) <= QueueLimit
  /\ SlotExclusive
  /\ ActivationIdle
  /\ DeployWithoutRemote
  /\ ForcingAlone
  /\ queuedIds = Waiting(queue) \cup Holder
  /\ Waiting(queue) \cap Holder = {}

\* The parts of the state that the dispatch of tasks depends on.
Slot == <<queue, nextSeq, queuedIds, starting, active, deploy, remote>>

-----------------------------------------------------------------------------
(* Helpers.                                                                *)

\* The entry of a waiting task is found where the task waits.
LEMMA PositionType ==
  ASSUME NEW q \in Seq(Entry), NEW t
  PROVE  /\ Position(q, t) \in 0..Len(q)
         /\ Position(q, t) # 0 => q[Position(q, t)].task = t
<1> DEFINE I == {i \in 1..Len(q) : q[i].task = t}
<1>1. Position(q, t) = IF I # {} THEN Min(I) ELSE 0
  BY DEF Position, SelectInSeq
<1>2. CASE I = {}
  BY <1>1, <1>2
<1>3. CASE I # {}
  <2>1. I \subseteq Nat
    OBVIOUS
  <2> HIDE DEF I
  <2>2. \E m \in I : \A k \in I : m <= k
    BY <1>3, <2>1, Minimum
  <2>3. Position(q, t) \in I
    BY <1>1, <1>3, <2>2 DEF Min
  <2> QED
    BY <2>3 DEF I
<1> QED
  BY <1>2, <1>3

\* A step that leaves queue, slot, deployment and remote session alone keeps
\* IInv if it keeps the types and starts no deployment stop.
LEMMA FrameKeeps ==
  ASSUME IInv, TypeOK', UNCHANGED Slot,
         active # NoRun => run'[active].task = run[active].task,
         \A s \in stops' : s.by = "deploy" =>
           \E z \in stops : z.by = "deploy",
         \A s, z \in stops' : s.by = "deploy" /\ z.by = "deploy" => s = z
  PROVE  IInv'
<1>1. UNCHANGED <<queue, nextSeq, queuedIds, starting, active, deploy, remote>>
  BY DEF Slot
<1>2. Holder' = Holder
  BY <1>1 DEF Holder
<1>3. WellFormed(queue, nextSeq)' /\ (Len(queue) <= QueueLimit)'
  BY <1>1 DEF IInv, WellFormed, Distinct, Ordered, Before
<1>4. SlotExclusive' /\ ActivationIdle' /\ DeployWithoutRemote'
  BY <1>1 DEF IInv, SlotExclusive, ActivationIdle, DeployWithoutRemote, Blocked, IsTaskExecutorIdle
<1>5. ForcingAlone'
  BY <1>1 DEF IInv, ForcingAlone
<1> QED
  BY <1>1, <1>2, <1>3, <1>4, <1>5 DEF IInv, Waiting


LEMMA InitIInv == Init => IInv
<1> SUFFICES ASSUME Init PROVE IInv
  OBVIOUS
<1> USE TaskExecutorAssumption DEF Init
<1>1. TypeOK
  <2>1. NoRunYet \in RunState
    BY DEF RunState, NoRunYet, NewRun
  <2>2. run \in [Runs -> RunState]
    BY <2>1
  <2>3. budget \in [{"deliver", "cancel", "deploy", "session", "crash"} -> Nat]
    OBVIOUS
  <2>4. deploy \in [phase : Phases, mode : {"GRACEFUL", "FORCE"}]
    BY DEF NoDeploy, Phases
  <2>6. remote \in Remotes
    BY DEF Remotes
  <2>5. /\ queue \in Seq(Entry) /\ nextSeq \in Nat /\ nRuns \in 0..MaxRuns
        /\ active <= nRuns /\ active \in Runs \cup {NoRun}
        /\ \A r \in 1..nRuns : run[r].task \in Tasks
    BY DEF NoRun
  <2> QED
    BY <2>2, <2>3, <2>4, <2>5, <2>6 DEF TypeOK
<1>2. WellFormed(queue, nextSeq) /\ Len(queue) <= QueueLimit
  BY DEF WellFormed, Distinct, Ordered
<1>3. SlotExclusive /\ ActivationIdle /\ DeployWithoutRemote /\ ForcingAlone
  BY DEF SlotExclusive, ActivationIdle, DeployWithoutRemote, ForcingAlone, NoDeploy, Blocked
<1>4. Waiting(queue) = {} /\ Holder = {}
  BY DEF Waiting, Holder
<1> QED
  BY <1>1, <1>2, <1>3, <1>4 DEF IInv

-----------------------------------------------------------------------------
(* Updates of the ActiveTask objects.                                      *)

\* The same runs, of the same tasks.
SameTasks(f) ==
  f \in [Runs -> RunState] /\ \A r \in Runs : f[r].task = run[r].task

LEMMA RunFieldSet ==
  ASSUME NEW f, SameTasks(f), NEW r \in Runs, NEW b \in BOOLEAN
  PROVE  /\ SameTasks([f EXCEPT ![r].timer = b])
         /\ SameTasks([f EXCEPT ![r].failed = b])
         /\ SameTasks([f EXCEPT ![r].committed = b])
         /\ SameTasks([f EXCEPT ![r].output = b])
         /\ \A e \in {"off", "on"} : SameTasks([f EXCEPT ![r].engine = e])
         /\ \A c \in {"none", "written", "acked"} :
              SameTasks([f EXCEPT ![r].checkpoint = c])
         /\ \A l \in {"none", "pending", "started", "returned"} :
              SameTasks([f EXCEPT ![r].launch = l])
<1> USE DEF SameTasks, RunState
<1>1. SameTasks([f EXCEPT ![r].timer = b])
  OBVIOUS
<1>2. SameTasks([f EXCEPT ![r].failed = b])
  OBVIOUS
<1>3. SameTasks([f EXCEPT ![r].committed = b])
  OBVIOUS
<1>4. SameTasks([f EXCEPT ![r].output = b])
  OBVIOUS
<1>5. \A e \in {"off", "on"} : SameTasks([f EXCEPT ![r].engine = e])
  OBVIOUS
<1>6. \A c \in {"none", "written", "acked"} :
        SameTasks([f EXCEPT ![r].checkpoint = c])
  OBVIOUS
<1>7. \A l \in {"none", "pending", "started", "returned"} :
        SameTasks([f EXCEPT ![r].launch = l])
  OBVIOUS
<1> HIDE DEF SameTasks, RunState
<1> QED
  BY <1>1, <1>2, <1>3, <1>4, <1>5, <1>6, <1>7

LEMMA BeginCleanupKeepsTasks ==
  ASSUME NEW f, SameTasks(f), NEW act PROVE SameTasks(BeginCleanup(f, act))
<1>1. ASSUME NEW r \in Runs
      PROVE  /\ BeginCleanup(f, act)[r] \in RunState
             /\ BeginCleanup(f, act)[r].task = f[r].task
  <2> DEFINE g == [f[r] EXCEPT !.cleaning = TRUE, !.timer = FALSE]
  <2>1. f[r] \in RunState /\ f[r].task = run[r].task
    BY DEF SameTasks
  <2>2. g \in RunState /\ g.task = f[r].task
    BY <2>1 DEF RunState
  <2>3. BeginCleanup(f, act)[r] = IF r = act THEN g ELSE f[r]
    BY DEF BeginCleanup
  <2> QED
    BY <2>1, <2>2, <2>3
<1> QED
  BY <1>1 DEF BeginCleanup, SameTasks

LEMMA RunKept == IInv => SameTasks(run)
BY DEF IInv, TypeOK, SameTasks

-----------------------------------------------------------------------------
(* Steps that leave the slot alone: launch, polling, scripts, timers.      *)

Results == [task : Tasks, run : Runs \cup {NoRun}, code : Codes]

\* The variables such a step may change, with their types.
LEMMA QuietStep ==
  ASSUME IInv, UNCHANGED <<Slot, nRuns>>, SameTasks(run'),
         stops' \subseteq Stop, wake' \in BOOLEAN, results' \subseteq Results,
         owed' \subseteq Tasks, exiting' \in BOOLEAN,
         budget' \in [{"deliver", "cancel", "deploy", "session", "crash"} -> Nat],
         \A s \in stops' : s.by = "deploy" =>
           \E z \in stops : z.by = "deploy",
         \A s, z \in stops' : s.by = "deploy" /\ z.by = "deploy" => s = z
  PROVE  IInv'
<1>1. UNCHANGED <<queue, nextSeq, queuedIds, starting, active, deploy, remote,
                  nRuns>>
  BY DEF Slot
<1>2. TypeOK
  BY DEF IInv
<1>3. 1..nRuns \subseteq Runs
  BY <1>2, TaskExecutorAssumption DEF TypeOK, Runs
<1>4. \A r \in 1..nRuns' : run'[r].task \in Tasks
  BY <1>1, <1>2, <1>3 DEF TypeOK, SameTasks
<1>5. TypeOK'
  BY <1>1, <1>2, <1>4 DEF TypeOK, SameTasks, Results
<1>6. active # NoRun => run'[active].task = run[active].task
  BY <1>2 DEF TypeOK, SameTasks
<1> QED
  BY <1>5, <1>6, FrameKeeps

\* The bounds and the histories are typed, and no second deployment handler
\* is stopping a run.
LEMMA Quiet ==
  IInv => /\ stops \subseteq Stop /\ wake \in BOOLEAN
          /\ results \subseteq Results /\ owed \subseteq Tasks
          /\ exiting \in BOOLEAN
          /\ budget \in [{"deliver", "cancel", "deploy", "session", "crash"}
                           -> Nat]
          /\ \A s, z \in stops : s.by = "deploy" /\ z.by = "deploy" => s = z
BY DEF IInv, TypeOK, Results, ForcingAlone

LEMMA PublishType ==
  ASSUME IInv, NEW t \in Tasks, NEW r \in Runs \cup {NoRun}, NEW c \in Codes,
         Publish({Result(t, r, c)})
  PROVE  results' \subseteq Results /\ owed' \subseteq Tasks
<1>1. Result(t, r, c) \in Results
  BY DEF Result, Results
<1> QED
  BY <1>1, Quiet DEF Publish

\* A run that exists is one of Runs and has a task.
LEMMA RunExists ==
  ASSUME IInv, NEW r \in 1..nRuns
  PROVE  r \in Runs /\ run[r] \in RunState /\ run[r].task \in Tasks
<1>1. TypeOK
  BY DEF IInv
<1>2. r \in Runs
  BY <1>1, TaskExecutorAssumption DEF TypeOK, Runs
<1> QED
  BY <1>1, <1>2 DEF TypeOK

LEMMA ScriptStepKeeps ==
  ASSUME IInv, NEW r \in 1..nRuns, ScriptStep(r) PROVE IInv'
<1>1. r \in Runs /\ SameTasks(run)
  BY RunExists, RunKept
<1>2. SameTasks(run')
  <2>1. SameTasks([run EXCEPT ![r].checkpoint = "written"])
    BY <1>1, RunFieldSet
  <2>2. SameTasks([run EXCEPT ![r].output = TRUE])
    BY <1>1, RunFieldSet
  <2>3. SameTasks([run EXCEPT ![r].engine = "off"])
    BY <1>1, RunFieldSet
  <2> QED
    BY <2>1, <2>2, <2>3 DEF ScriptStep, WriteCheckpoint, WriteResult, EngineExits
<1>3. UNCHANGED <<Slot, nRuns, stops, wake, results, owed, exiting, budget>>
  BY DEF ScriptStep, Slot
<1> QED
  BY <1>2, <1>3, Quiet, QuietStep

LEMMA PollKeeps ==
  ASSUME IInv, NEW r \in 1..nRuns, Poll(r) PROVE IInv'
<1>1. r \in Runs /\ SameTasks(run) /\ run[r].task \in Tasks
  BY RunExists, RunKept
<1>2. CASE PollCheckpoint(r) \/ AckCheckpoint(r)
  <2>1. SameTasks(run')
    <3>1. SameTasks([run EXCEPT ![r].committed = TRUE])
      BY <1>1, RunFieldSet
    <3>2. SameTasks([run EXCEPT ![r].checkpoint = "acked"])
      BY <1>1, RunFieldSet
    <3> QED
      BY <1>2, <3>1, <3>2 DEF PollCheckpoint, AckCheckpoint
  <2>2. UNCHANGED <<Slot, nRuns, stops, wake, results, owed, exiting, budget>>
    BY <1>2 DEF PollCheckpoint, AckCheckpoint, Slot
  <2> QED
    BY <2>1, <2>2, Quiet, QuietStep
<1>3. CASE PollResult(r)
  <2>1. SameTasks(run')
    BY <1>1, <1>3, BeginCleanupKeepsTasks DEF PollResult
  <2>2. UNCHANGED <<Slot, nRuns, stops, wake, exiting, budget>>
    BY <1>3 DEF PollResult, Slot
  <2>3. results' \subseteq Results /\ owed' \subseteq Tasks
    BY <1>1, <1>3, PublishType DEF PollResult, Codes
  <2> QED
    BY <2>1, <2>2, <2>3, Quiet, QuietStep
<1> QED
  BY <1>2, <1>3 DEF Poll

LEMMA LaunchKeeps ==
  ASSUME IInv, NEW r \in 1..nRuns, Launch(r) PROVE IInv'
<1>1. r \in Runs /\ SameTasks(run) /\ run[r] \in RunState /\ run[r].task \in Tasks
  BY RunExists, RunKept
<1>2. CASE EngineStarts(r)
  <2>1. run' = [[run EXCEPT ![r].launch = "started"] EXCEPT ![r].engine = "on"]
    BY <1>1, <1>2 DEF EngineStarts, SameTasks
  <2>3. SameTasks(run')
    BY <1>1, <2>1, RunFieldSet
  <2>2. UNCHANGED <<Slot, nRuns, stops, wake, results, owed, exiting, budget>>
    BY <1>2 DEF EngineStarts, Slot
  <2> QED
    BY <2>2, <2>3, Quiet, QuietStep
<1>3. CASE LaunchReturns(r)
  <2> DEFINE preempted == Current(r) /\ PreemptorWaits(r) /\ ~run[r].committed
             s0 == [by |-> "launch", run |-> r, pc |-> "engine"]
  <2>1. /\ run' = [run EXCEPT ![r].launch = "returned",
                              ![r].launched = Current(r) \/ @,
                              ![r].timer = @ /\ ~preempted]
        /\ stops' = IF preempted THEN stops \cup {s0} ELSE stops
        /\ UNCHANGED <<Slot, nRuns, wake, results, owed, exiting, budget>>
    BY <1>3 DEF LaunchReturns, Slot
  <2>2. /\ (Current(r) \/ run[r].launched) \in BOOLEAN
        /\ (run[r].timer /\ ~preempted) \in BOOLEAN
    <3>1. \A a, b : (a \/ b) \in BOOLEAN /\ (a /\ ~b) \in BOOLEAN
      BY Zenon
    <3> QED
      BY <3>1, Zenon
  <2> HIDE DEF preempted
  <2>3. SameTasks(run')
    BY <1>1, <2>1, <2>2 DEF SameTasks, RunState
  <2>4. s0 \in Stop /\ s0.by # "deploy"
    BY <1>1 DEF Stop, Handlers
  <2> QED
    BY <2>1, <2>3, <2>4, Quiet, QuietStep
<1>4. CASE LaunchFails(r)
  <2>1. SameTasks(run')
    BY <1>1, <1>4, RunFieldSet, BeginCleanupKeepsTasks DEF LaunchFails
  <2>2. UNCHANGED <<Slot, nRuns, stops, wake, exiting, budget>>
    BY <1>4 DEF LaunchFails, Slot
  <2>3. results' \subseteq Results /\ owed' \subseteq Tasks
    BY <1>1, <1>4, PublishType DEF LaunchFails, Codes
  <2> QED
    BY <2>1, <2>2, <2>3, Quiet, QuietStep
<1> QED
  BY <1>2, <1>3, <1>4 DEF Launch

LEMMA TimerFiresKeeps ==
  ASSUME IInv, NEW r \in 1..nRuns, TimerFires(r) PROVE IInv'
<1> DEFINE s0 == [by |-> "timer", run |-> r, pc |-> "engine"]
<1>1. r \in Runs /\ SameTasks(run)
  BY RunExists, RunKept
<1>2. /\ run' = [run EXCEPT ![r].timer = FALSE]
      /\ stops' \in {stops, stops \cup {s0}}
      /\ UNCHANGED <<Slot, nRuns, wake, results, owed, exiting, budget>>
  BY DEF TimerFires, BeginStop, Slot
<1>3. SameTasks(run')
  BY <1>1, <1>2, RunFieldSet
<1>4. s0 \in Stop /\ s0.by # "deploy"
  BY <1>1 DEF Stop, Handlers
<1> QED
  BY <1>2, <1>3, <1>4, Quiet, QuietStep

-----------------------------------------------------------------------------
(* Steps that change queue, slot, deployment or remote session.            *)

\* TypeOK without the queue and the task that is starting.
RestOK ==
  /\ nextSeq \in Nat
  /\ queuedIds \subseteq Tasks
  /\ active \in Runs \cup {NoRun}
  /\ run \in [Runs -> RunState]
  /\ nRuns \in 0..MaxRuns
  /\ active <= nRuns
  /\ \A r \in 1..nRuns : run[r].task \in Tasks
  /\ stops \subseteq Stop
  /\ wake \in BOOLEAN
  /\ deploy \in [phase : Phases, mode : {"GRACEFUL", "FORCE"}]
  /\ remote \in Remotes
  /\ results \subseteq Results
  /\ owed \subseteq Tasks
  /\ exiting \in BOOLEAN
  /\ budget \in [{"deliver", "cancel", "deploy", "session", "crash"} -> Nat]

\* Holder, for a slot with task st starting and run act active.
HolderOf(st, act, f) ==
  ({st} \ {NoTask}) \cup (IF act = NoRun THEN {} ELSE {f[act].task})

\* A handler produces queue q and starting task st, then perhaps calls
\* processNextTask: IInv holds afterwards if it holds of what was produced.
LEMMA SlotStep ==
  ASSUME NEW q \in Seq(Entry), NEW st \in Tasks \cup {NoTask},
         RestOK', WellFormed(q, nextSeq'), Len(q) <= QueueLimit,
         \/ ProcessNextTask(q, active', st, Blocked', remote')
         \/ queue' = q /\ starting' = st,
         st # NoTask => active' = NoRun /\ remote' = "none",
         active' # NoRun => remote' = "none",
         Blocked' => q = <<>>, Blocked' => remote' # "open",
         deploy'.phase = "activating" => active' = NoRun /\ st = NoTask,
         deploy'.phase = "forcing" => st = NoTask,
         \A s \in stops' : s.by = "deploy" => deploy'.phase = "forcing",
         \A s, z \in stops' : s.by = "deploy" /\ z.by = "deploy" => s = z,
         queuedIds' = Waiting(q) \cup HolderOf(st, active', run'),
         Waiting(q) \cap HolderOf(st, active', run') = {}
  PROVE  IInv'
<1>1. nextSeq' \in Nat /\ Blocked' \in BOOLEAN /\ remote' \in Remotes
  BY DEF RestOK, Blocked
<1>2. CASE queue' = q /\ starting' = st
  <2>1. TypeOK'
    BY <1>2 DEF TypeOK, RestOK, Results
  <2>2. WellFormed(queue, nextSeq)' /\ (Len(queue) <= QueueLimit)'
    BY <1>2 DEF WellFormed, Distinct, Ordered, Before
  <2>3. SlotExclusive' /\ ActivationIdle' /\ DeployWithoutRemote' /\ ForcingAlone'
    BY <1>2 DEF SlotExclusive, ActivationIdle, DeployWithoutRemote, ForcingAlone, IsTaskExecutorIdle
  <2>4. (queuedIds = Waiting(queue) \cup Holder)'
        /\ (Waiting(queue) \cap Holder = {})'
    BY <1>2 DEF Holder, HolderOf, Waiting
  <2> QED
    BY <2>1, <2>2, <2>3, <2>4 DEF IInv
<1>3. CASE /\ ProcessNextTask(q, active', st, Blocked', remote')
           /\ ~(queue' = q /\ starting' = st)
  <2>2. /\ q # <<>> /\ starting' = Head(q).task /\ queue' = Tail(q)
        /\ active' = NoRun /\ st = NoTask /\ ~Blocked' /\ remote' = "none"
    BY <1>3 DEF ProcessNextTask, CanStart
  <2>1. /\ queue' \in Seq(Entry)
        /\ WellFormed(queue', nextSeq')
        /\ Len(queue') <= Len(q)
        /\ starting' \in Tasks
        /\ starting' \in Waiting(q)
        /\ Waiting(queue') = Waiting(q) \ {starting'}
    <3>1. /\ Tail(q) \in Seq(Entry) /\ Len(Tail(q)) = Len(q) - 1
          /\ Head(q) \in Entry /\ Head(q).task \in Waiting(q)
      BY <1>1, <2>2, TailKeeps
    <3>2. /\ WellFormed(Tail(q), nextSeq')
          /\ Waiting(Tail(q)) = Waiting(q) \ {Head(q).task}
      BY <1>1, <2>2, TailKeeps
    <3>3. Head(q).task \in Tasks /\ Len(Tail(q)) <= Len(q)
      BY <3>1 DEF Entry
    <3> QED
      BY <2>2, <3>1, <3>2, <3>3
  <2>3. TypeOK'
    BY <2>1 DEF TypeOK, RestOK, Results
  <2>4. WellFormed(queue, nextSeq)' /\ (Len(queue) <= QueueLimit)'
    <3>1. Len(queue') \in Nat /\ Len(q) \in Nat
      BY <2>1
    <3> QED
      BY <2>1, <3>1, TaskExecutorAssumption
      DEF WellFormed, Distinct, Ordered, Before
  <2>5. deploy'.phase = "none"
    BY <2>2 DEF Blocked
  <2>6. SlotExclusive' /\ ActivationIdle' /\ DeployWithoutRemote' /\ ForcingAlone'
    BY <2>2, <2>5 DEF SlotExclusive, ActivationIdle, DeployWithoutRemote, ForcingAlone
  <2>7. HolderOf(st, active', run') = {} /\ Holder' = {starting'}
    BY <2>1, <2>2, TaskExecutorAssumption DEF Holder, HolderOf
  <2>8. (queuedIds = Waiting(queue) \cup Holder)'
        /\ (Waiting(queue) \cap Holder = {})'
    BY <2>1, <2>7 DEF Waiting
  <2> QED
    BY <2>3, <2>4, <2>6, <2>8 DEF IInv
<1> QED
  BY <1>2, <1>3

Budgets == [{"deliver", "cancel", "deploy", "session", "crash"} -> Nat]
Deploys == [phase : Phases, mode : {"GRACEFUL", "FORCE"}]

\* The parts of IInv in the form SlotStep asks for.
LEMMA Parts ==
  IInv => /\ RestOK
          /\ queue \in Seq(Entry) /\ starting \in Tasks \cup {NoTask}
          /\ WellFormed(queue, nextSeq) /\ Len(queue) <= QueueLimit
          /\ queuedIds = Waiting(queue) \cup HolderOf(starting, active, run)
          /\ Waiting(queue) \cap HolderOf(starting, active, run) = {}
BY DEF IInv, TypeOK, RestOK, Results, Holder, HolderOf

\* What SlotStep needs of a step that keeps the runs and the slot's run.
LEMMA RestKept ==
  ASSUME IInv, SameTasks(run'), UNCHANGED <<active, nRuns>>,
         nextSeq' \in Nat, queuedIds' \subseteq Tasks, stops' \subseteq Stop,
         wake' \in BOOLEAN, deploy' \in Deploys, remote' \in Remotes,
         results' \subseteq Results, owed' \subseteq Tasks,
         exiting' \in BOOLEAN, budget' \in Budgets
  PROVE  /\ RestOK'
         /\ \A st : HolderOf(st, active', run') = HolderOf(st, active, run)
<1>1. RestOK
  BY Parts
<1>2. 1..nRuns \subseteq Runs
  BY <1>1, TaskExecutorAssumption DEF RestOK, Runs
<1>3. \A r \in 1..nRuns' : run'[r].task \in Tasks
  BY <1>1, <1>2 DEF RestOK, SameTasks
<1>4. RestOK'
  BY <1>1, <1>3 DEF RestOK, SameTasks, Budgets, Deploys
<1>5. active # NoRun => run'[active].task = run[active].task
  BY <1>1 DEF RestOK, SameTasks
<1> QED
  BY <1>4, <1>5 DEF HolderOf

\* A step that keeps the tracked tasks, and may dispatch the next one.
LEMMA DispatchStep ==
  ASSUME IInv, SameTasks(run'), UNCHANGED <<active, nRuns, nextSeq, queuedIds>>,
         stops' \subseteq Stop, wake' \in BOOLEAN, deploy' \in Deploys,
         remote' \in Remotes, results' \subseteq Results, owed' \subseteq Tasks,
         exiting' \in BOOLEAN, budget' \in Budgets,
         \/ ProcessNextTask(queue, active, starting, Blocked', remote')
         \/ UNCHANGED <<queue, starting>>,
         remote' # "none" => remote # "none" \/ (active = NoRun /\ starting = NoTask),
         Blocked' => remote' # "open",
         Blocked' => queue = <<>>,
         deploy'.phase = "activating" => active = NoRun /\ starting = NoTask,
         deploy'.phase = "forcing" => starting = NoTask,
         \A s \in stops' : s.by = "deploy" => deploy'.phase = "forcing",
         \A s, z \in stops' : s.by = "deploy" /\ z.by = "deploy" => s = z
  PROVE  IInv'
<1>1. /\ queue \in Seq(Entry) /\ starting \in Tasks \cup {NoTask}
      /\ WellFormed(queue, nextSeq) /\ Len(queue) <= QueueLimit
      /\ queuedIds = Waiting(queue) \cup HolderOf(starting, active, run)
      /\ Waiting(queue) \cap HolderOf(starting, active, run) = {}
      /\ nextSeq \in Nat /\ queuedIds \subseteq Tasks
  BY Parts DEF RestOK
<1>2. /\ RestOK'
      /\ HolderOf(starting, active', run') = HolderOf(starting, active, run)
  BY <1>1, RestKept
<1>3. /\ starting # NoTask => active' = NoRun /\ remote' = "none"
      /\ active' # NoRun => remote' = "none"
  BY DEF IInv, SlotExclusive
<1> QED
  BY <1>1, <1>2, <1>3, SlotStep

-----------------------------------------------------------------------------
(* The steps of the terminations.                                          *)

\* The outcomes of Resume.
Resumed(h) ==
  \/ /\ h # "deploy" /\ deploy' = deploy
     /\ \/ ProcessNextTask(queue, active, starting, Blocked, remote)
        \/ UNCHANGED <<queue, starting>>
  \/ /\ h = "deploy" /\ UNCHANGED <<queue, starting>>
     /\ \/ deploy' = [deploy EXCEPT !.phase = "failing"]
        \/ deploy' = [deploy EXCEPT !.phase = "activating"] /\ active = NoRun

LEMMA ResumeOutcome ==
  ASSUME NEW h \in Handlers, NEW ok \in BOOLEAN, ok => active = NoRun,
         Resume(h, ok)
  PROVE  Resumed(h)
<1>1. CASE h = "deploy"
  BY <1>1 DEF Resume, Resumed
<1>2. CASE h # "deploy"
  BY <1>2 DEF Resume, Resumed
<1> QED
  BY <1>1, <1>2

LEMMA ResumeKeeps ==
  ASSUME IInv, NEW s \in stops, Resumed(s.by), stops' = stops \ {s},
         SameTasks(run'), results' \subseteq Results, owed' \subseteq Tasks,
         StopUnchanged
  PROVE  IInv'
<1>1. /\ UNCHANGED <<nextSeq, queuedIds, active, nRuns, wake, remote, exiting,
                     budget>>
      /\ stops' \subseteq Stop /\ wake' \in BOOLEAN /\ remote' \in Remotes
      /\ exiting' \in BOOLEAN /\ budget' \in Budgets
      /\ deploy \in Deploys
  BY Parts DEF StopUnchanged, RestOK, Budgets, Deploys
<1>2. /\ Blocked => queue = <<>> /\ remote # "open"
      /\ deploy.phase = "activating" => active = NoRun /\ starting = NoTask
      /\ deploy.phase = "forcing" => starting = NoTask
      /\ \A z \in stops : z.by = "deploy" => deploy.phase = "forcing"
      /\ \A x, z \in stops' : x.by = "deploy" /\ z.by = "deploy" => x = z
  BY DEF IInv, ActivationIdle, DeployWithoutRemote, ForcingAlone, IsTaskExecutorIdle
<1>3. CASE s.by = "deploy"
  <2>1. /\ UNCHANGED <<queue, starting>>
        /\ \/ deploy' = [deploy EXCEPT !.phase = "failing"]
           \/ deploy' = [deploy EXCEPT !.phase = "activating"] /\ active = NoRun
    BY <1>3 DEF Resumed
  <2>2. deploy' \in Deploys /\ deploy'.phase \in {"activating", "failing"}
        /\ (deploy'.phase = "activating" => active = NoRun)
    BY <1>1, <2>1 DEF Deploys, Phases
  <2>3. \A z \in stops' : z.by # "deploy"
    BY <1>3 DEF IInv, ForcingAlone
  <2>4. /\ deploy.phase = "forcing" /\ starting = NoTask /\ queue = <<>>
        /\ remote' # "open"
    BY <1>1, <1>2, <1>3 DEF Blocked
  <2> QED
    BY <1>1, <1>2, <2>1, <2>2, <2>3, <2>4, DispatchStep
<1>4. CASE s.by # "deploy"
  <2>1. /\ deploy' = deploy /\ deploy' \in Deploys
        /\ \/ ProcessNextTask(queue, active, starting, Blocked', remote')
           \/ UNCHANGED <<queue, starting>>
    BY <1>1, <1>4 DEF Resumed, Blocked
  <2>2. /\ Blocked' => queue = <<>> /\ remote' # "open"
        /\ remote' # "none" => remote # "none"
        /\ deploy'.phase = "activating" => active = NoRun /\ starting = NoTask
        /\ deploy'.phase = "forcing" => starting = NoTask
        /\ \A z \in stops' : z.by = "deploy" => deploy'.phase = "forcing"
    BY <1>1, <1>2, <2>1 DEF Blocked
  <2> QED
    BY <1>1, <1>2, <2>1, <2>2, DispatchStep
<1> QED
  BY <1>3, <1>4

\* A handler whose termination moves on to another await is the same handler.
LEMMA HandlerMovesOn ==
  ASSUME IInv, NEW s \in stops, NEW pc \in {"engine", "package", "cleanup"},
         NEW S \in SUBSET {[s EXCEPT !.pc = pc]}, stops' = (stops \ {s}) \cup S
  PROVE  /\ stops' \subseteq Stop
         /\ \A x \in stops' : x.by = "deploy" => \E z \in stops : z.by = "deploy"
         /\ \A x, z \in stops' : x.by = "deploy" /\ z.by = "deploy" => x = z
<1> DEFINE s1 == [s EXCEPT !.pc = pc]
<1>1. stops \subseteq Stop
  BY Quiet
<1>2. s1 \in Stop /\ s1.by = s.by
  BY <1>1 DEF Stop
<1>3. \A x, z \in stops : x.by = "deploy" /\ z.by = "deploy" => x = z
  BY Quiet
<1>4. stops' \subseteq (stops \ {s}) \cup {s1}
  OBVIOUS
<1> HIDE DEF s1
<1> QED
  BY <1>1, <1>2, <1>3, <1>4

LEMMA VerdictType ==
  ASSUME NEW h \in Handlers, NEW c \in BOOLEAN PROVE Verdict(h, c) \in Codes
BY DEF Handlers, Verdict, Codes

LEMMA StopExists ==
  ASSUME IInv, NEW s \in stops
  PROVE  /\ s \in Stop /\ s.by \in Handlers /\ s.run \in Runs
         /\ SameTasks(run)
<1>1. stops \subseteq Stop
  BY Quiet
<1> QED
  BY <1>1, RunKept DEF Stop

LEMMA StoppedKeeps ==
  ASSUME IInv, NEW s \in stops, NEW f, SameTasks(f), Stopped(s, f), StopUnchanged
  PROVE  IInv'
<1>1. s.by \in Handlers /\ s.run \in Runs /\ SameTasks(run)
  BY StopExists
<1>2. CASE active = s.run
  <2>1. /\ Publish({Result(run[s.run].task, s.run,
                           Verdict(s.by, run[s.run].committed))})
        /\ run' = BeginCleanup(f, s.run)
        /\ stops' = (stops \ {s}) \cup
             (IF s.by \in {"timer", "launch"} THEN {}
              ELSE {[s EXCEPT !.pc = "cleanup"]})
        /\ UNCHANGED <<queue, starting, deploy>>
    BY <1>2 DEF Stopped
  <2>2. run[s.run].task \in Tasks /\ run[s.run].committed \in BOOLEAN
    <3>1. TypeOK /\ active <= nRuns /\ active \in 1..MaxRuns
      BY <1>1, <1>2 DEF IInv, TypeOK, Runs
    <3>2. active \in 1..nRuns
      BY <3>1 DEF TypeOK
    <3> QED
      BY <1>2, <3>2, RunExists DEF RunState
  <2>3. results' \subseteq Results /\ owed' \subseteq Tasks
    BY <1>1, <2>1, <2>2, PublishType, VerdictType
  <2>4. SameTasks(run')
    BY <2>1, BeginCleanupKeepsTasks
  <2>5. /\ stops' \subseteq Stop
        /\ \A x \in stops' : x.by = "deploy" => \E z \in stops : z.by = "deploy"
        /\ \A x, z \in stops' : x.by = "deploy" /\ z.by = "deploy" => x = z
    <3> DEFINE S == IF s.by \in {"timer", "launch"} THEN {}
                    ELSE {[s EXCEPT !.pc = "cleanup"]}
    <3>1. S \in SUBSET {[s EXCEPT !.pc = "cleanup"]} /\ stops' = (stops \ {s}) \cup S
      BY <2>1
    <3> HIDE DEF S
    <3> QED
      BY <3>1, HandlerMovesOn
  <2>6. UNCHANGED <<Slot, nRuns, wake, exiting, budget>>
    BY <2>1 DEF StopUnchanged, Slot
  <2> QED
    BY <2>3, <2>4, <2>5, <2>6, Quiet, QuietStep
<1>3. CASE active # s.run
  <2>1. /\ run' = f /\ stops' = stops \ {s} /\ UNCHANGED <<results, owed>>
        /\ Resume(s.by, active = NoRun)
    BY <1>3 DEF Stopped, Unpublished
  <2>2. (active = NoRun) \in BOOLEAN
    OBVIOUS
  <2>3. Resumed(s.by)
    BY <1>1, <2>1, <2>2, ResumeOutcome
  <2> QED
    BY <2>1, <2>3, Quiet, ResumeKeeps
<1> QED
  BY <1>2, <1>3

LEMMA NotStoppedKeeps ==
  ASSUME IInv, NEW s \in stops, NEW f, SameTasks(f), NotStopped(s, f),
         StopUnchanged
  PROVE  IInv'
<1>1. s.by \in Handlers /\ s.run \in Runs
  BY StopExists
<1>2. SameTasks([f EXCEPT ![s.run].timer = TRUE])
  BY <1>1, RunFieldSet
<1>3. /\ SameTasks(run') /\ stops' = stops \ {s} /\ UNCHANGED <<results, owed>>
      /\ Resume(s.by, FALSE)
  BY <1>2 DEF NotStopped, Unpublished
<1>4. Resumed(s.by)
  BY <1>1, <1>3, ResumeOutcome
<1> QED
  BY <1>3, <1>4, Quiet, ResumeKeeps

LEMMA AllEnginesOffKeepsTasks == ASSUME IInv PROVE SameTasks(AllEnginesOff)
<1>1. ASSUME NEW r \in Runs
      PROVE  /\ AllEnginesOff[r] \in RunState
             /\ AllEnginesOff[r].task = run[r].task
  <2>1. run[r] \in RunState
    BY RunKept DEF SameTasks
  <2> QED
    BY <2>1 DEF RunState, AllEnginesOff
<1> QED
  BY <1>1 DEF SameTasks, AllEnginesOff

LEMMA StopSucceedsKeeps ==
  ASSUME IInv, NEW s \in stops, StopSucceeds(s) PROVE IInv'
<1>1. s.run \in Runs /\ SameTasks(run)
  BY StopExists
<1>2. CASE EngineStopSucceeds(s)
  <2>1. SameTasks([run EXCEPT ![s.run].engine = "off"])
    BY <1>1, RunFieldSet
  <2> QED
    BY <1>2, <2>1, StoppedKeeps DEF EngineStopSucceeds
<1>3. CASE PackageStopSucceeds(s)
  BY <1>3, AllEnginesOffKeepsTasks, StoppedKeeps DEF PackageStopSucceeds
<1> QED
  BY <1>2, <1>3 DEF StopSucceeds

LEMMA StopFailsKeeps ==
  ASSUME IInv, NEW s \in stops, StopFails(s) PROVE IInv'
<1>1. s.run \in Runs /\ run[s.run].engine \in {"off", "on"} /\ SameTasks(run)
  BY StopExists DEF SameTasks, RunState
<1>2. CASE EngineStopFails(s)
  <2>1. PICK e \in {run[s.run].engine, "off"} :
          LET f == [run EXCEPT ![s.run].engine = e]
          IN  IF CanUsePackageFallback(s.by # "control", s.run)
              THEN /\ run' = f
                   /\ stops' = (stops \ {s}) \cup {[s EXCEPT !.pc = "package"]}
                   /\ Unpublished
                   /\ UNCHANGED <<queue, starting, deploy>>
              ELSE NotStopped(s, f)
    BY <1>2 DEF EngineStopFails
  <2>2. SameTasks([run EXCEPT ![s.run].engine = e])
    BY <1>1, RunFieldSet
  <2>3. StopUnchanged
    BY <1>2 DEF EngineStopFails
  <2>4. CASE CanUsePackageFallback(s.by # "control", s.run)
    <3>1. /\ SameTasks(run')
          /\ stops' = (stops \ {s}) \cup {[s EXCEPT !.pc = "package"]}
          /\ UNCHANGED <<Slot, nRuns, wake, results, owed, exiting, budget>>
      BY <2>1, <2>2, <2>3, <2>4 DEF Unpublished, StopUnchanged, Slot
    <3>2. /\ stops' \subseteq Stop
          /\ \A x \in stops' : x.by = "deploy" => \E z \in stops : z.by = "deploy"
          /\ \A x, z \in stops' : x.by = "deploy" /\ z.by = "deploy" => x = z
      BY <3>1, HandlerMovesOn
    <3> QED
      BY <3>1, <3>2, Quiet, QuietStep
  <2>5. CASE ~CanUsePackageFallback(s.by # "control", s.run)
    BY <2>1, <2>2, <2>3, <2>5, NotStoppedKeeps
  <2> QED
    BY <2>4, <2>5
<1>3. CASE PackageStopFails(s)
  BY <1>1, <1>3, AllEnginesOffKeepsTasks, NotStoppedKeeps DEF PackageStopFails
<1> QED
  BY <1>2, <1>3 DEF StopFails

LEMMA CleanupAwaitedKeeps ==
  ASSUME IInv, NEW s \in stops, CleanupAwaited(s) PROVE IInv'
<1>1. s.by \in Handlers /\ SameTasks(run)
  BY StopExists
<1>2. PICK recovered \in BOOLEAN : Resume(s.by, active = NoRun /\ recovered)
  BY DEF CleanupAwaited
<1>3. (active = NoRun /\ recovered) \in BOOLEAN
  OBVIOUS
<1>4. Resumed(s.by)
  BY <1>1, <1>2, <1>3, ResumeOutcome
<1>5. /\ stops' = stops \ {s} /\ UNCHANGED <<run, results, owed>>
      /\ StopUnchanged
  BY DEF CleanupAwaited, Unpublished
<1>6. SameTasks(run')
  BY <1>1, <1>5 DEF SameTasks
<1> QED
  BY <1>4, <1>5, <1>6, Quiet, ResumeKeeps

-----------------------------------------------------------------------------
(* The remaining handlers.                                                 *)

\* A step that dispatches, or leaves queue and slot alone, and does not touch
\* deployment, session or terminations.
LEMMA PlainDispatch ==
  ASSUME IInv, SameTasks(run'),
         UNCHANGED <<active, nRuns, nextSeq, queuedIds, stops, deploy, remote>>,
         wake' \in BOOLEAN, results' \subseteq Results, owed' \subseteq Tasks,
         exiting' \in BOOLEAN, budget' \in Budgets,
         \/ ProcessNextTask(queue, active, starting, Blocked, remote)
         \/ UNCHANGED <<queue, starting>>
  PROVE  IInv'
<1>1. /\ deploy \in Deploys /\ remote \in Remotes /\ stops \subseteq Stop
      /\ Blocked' = Blocked
  BY Parts DEF RestOK, Deploys, Blocked
<1>2. /\ Blocked => queue = <<>> /\ remote # "open"
      /\ deploy.phase = "activating" => active = NoRun /\ starting = NoTask
      /\ deploy.phase = "forcing" => starting = NoTask
      /\ \A z \in stops : z.by = "deploy" => deploy.phase = "forcing"
      /\ \A x, z \in stops : x.by = "deploy" /\ z.by = "deploy" => x = z
  BY DEF IInv, ActivationIdle, DeployWithoutRemote, ForcingAlone, IsTaskExecutorIdle
<1> QED
  BY <1>1, <1>2, DispatchStep

LEMMA SpendType ==
  ASSUME IInv, NEW kind, Spend(kind) PROVE budget' \in Budgets
<1>1. budget \in Budgets
  BY Parts DEF RestOK, Budgets
<1>2. /\ budget[kind] > 0
      /\ budget' = [budget EXCEPT ![kind] = budget[kind] - 1]
  BY DEF Spend
<1>3. CASE kind \in {"deliver", "cancel", "deploy", "session", "crash"}
  <2>1. budget[kind] \in Nat /\ budget[kind] - 1 \in Nat
    BY <1>1, <1>2, <1>3 DEF Budgets
  <2> QED
    BY <1>1, <1>2, <2>1 DEF Budgets
<1>4. CASE kind \notin {"deliver", "cancel", "deploy", "session", "crash"}
  BY <1>1, <1>2, <1>4 DEF Budgets
<1> QED
  BY <1>3, <1>4

LEMMA WakeKeeps == ASSUME IInv, Wake PROVE IInv'
<1>1. /\ wake' = FALSE
      /\ ProcessNextTask(queue, active, starting, Blocked, remote)
      /\ UNCHANGED <<nextSeq, queuedIds, active, run, nRuns, stops, deploy,
                     remote, results, owed, exiting, budget>>
  BY DEF Wake
<1>2. SameTasks(run')
  BY <1>1, RunKept DEF SameTasks
<1>3. budget \in Budgets
  BY Quiet DEF Budgets
<1> QED
  BY <1>1, <1>2, <1>3, Quiet, PlainDispatch

\* Answers to tasks the executor does not track.
LEMMA RefusalKeeps ==
  ASSUME IInv, NEW t \in Tasks, Spend("deliver"),
         RefuseDraining(t) \/ IgnoreDuplicate(t) \/ RefuseFull(t),
         UNCHANGED <<active, nRuns, wake, deploy, remote, exiting>>
  PROVE  IInv'
<1>1. UNCHANGED <<queue, queuedIds, nextSeq, starting, run, stops>>
  BY DEF RefuseDraining, IgnoreDuplicate, RefuseFull
<1>2. results' \subseteq Results /\ owed' \subseteq Tasks
  <2>1. CASE UNCHANGED <<results, owed>>
    BY <2>1, Quiet
  <2>2. CASE Publish({Result(t, NoRun, "DRAINING")})
    BY <2>2, PublishType DEF Codes
  <2>3. CASE Publish({Result(t, NoRun, "QUEUE_FULL")})
    BY <2>3, PublishType DEF Codes
  <2> QED
    BY <2>1, <2>2, <2>3 DEF RefuseDraining, IgnoreDuplicate, RefuseFull, Unpublished
<1>3. SameTasks(run')
  BY <1>1, RunKept DEF SameTasks
<1>4. budget' \in Budgets
  BY SpendType
<1>5. wake \in BOOLEAN /\ exiting \in BOOLEAN
  BY Quiet
<1> QED
  BY <1>1, <1>2, <1>3, <1>4, <1>5, PlainDispatch

\* A run that holds the slot exists.
LEMMA ActiveExists ==
  ASSUME IInv, active # NoRun PROVE active \in 1..nRuns /\ active \in Runs
BY TaskExecutorAssumption DEF IInv, TypeOK, Runs, NoRun

\* A new entry goes into the queue q that evictions have left.
LEMMA EnterKeeps ==
  ASSUME IInv, NEW t \in Tasks, t \notin queuedIds, ~Blocked,
         NEW q \in Seq(Entry), WellFormed(q, nextSeq), Len(q) < QueueLimit,
         NEW evicted, evicted \subseteq Waiting(queue),
         Waiting(q) = Waiting(queue) \ evicted,
         Enter(t, q, evicted), Spend("deliver"),
         UNCHANGED <<active, nRuns, wake, deploy, remote, exiting>>
  PROVE  IInv'
<1> DEFINE e == [task |-> t, seq |-> nextSeq]
           q2 == InsertQueuedTask(q, e)
           s0 == [by |-> "intake", run |-> active, pc |-> "engine"]
<1>1. /\ RestOK /\ queue \in Seq(Entry) /\ starting \in Tasks \cup {NoTask}
      /\ queuedIds = Waiting(queue) \cup HolderOf(starting, active, run)
      /\ Waiting(queue) \cap HolderOf(starting, active, run) = {}
  BY Parts
<1>2. nextSeq \in Nat /\ nextSeq + 1 \in Nat /\ nextSeq' = nextSeq + 1
  BY <1>1 DEF RestOK, Enter
<1>3. e \in Entry /\ e.task = t /\ e.seq = nextSeq
  BY <1>2 DEF Entry
<1>4. t \notin Waiting(q)
  BY <1>1
<1>5. q2 \in Seq(Entry) /\ Len(q2) = Len(q) + 1 /\ Waiting(q2) = Waiting(q) \cup {t}
  <2> HIDE DEF e
  <2> QED
    BY <1>3, InsertQueuedTaskType
<1>6. WellFormed(q2, nextSeq')
  <2> HIDE DEF e
  <2> QED
    BY <1>2, <1>3, <1>4, InsertKeeps
<1>7. Len(q2) <= QueueLimit
  <2>1. Len(q) \in Nat
    OBVIOUS
  <2> HIDE DEF q2
  <2> QED
    BY <1>5, <2>1, TaskExecutorAssumption
<1>8. /\ queuedIds' = (queuedIds \ evicted) \cup {t}
      /\ results' = results \cup {Result(x, NoRun, "EVICTED") : x \in evicted}
      /\ owed' = (owed \ evicted) \cup {t}
      /\ ProcessNextTask(q2, active, starting, Blocked, remote)
  BY DEF Enter
<1> HIDE DEF e, q2
<1>9. evicted \subseteq Tasks /\ queuedIds' \subseteq Tasks /\ owed' \subseteq Tasks
  <2>1. queuedIds \subseteq Tasks /\ owed \subseteq Tasks
    BY <1>1 DEF RestOK
  <2> QED
    BY <1>1, <1>8, <2>1
<1>10. results' \subseteq Results
  <2>1. \A x \in evicted : Result(x, NoRun, "EVICTED") \in Results
    BY <1>9 DEF Result, Results, Codes
  <2> QED
    BY <1>8, <2>1, Quiet
<1>11. SameTasks(run') /\ stops' \subseteq stops \cup {s0}
       /\ (s0 \in Stop \/ stops' = stops)
  <2>1. CASE active # NoRun /\ Preemptible(active, t)
    <3>1. active \in Runs
      BY <2>1, ActiveExists
    <3>2. BeginStop("intake", active)
      BY <2>1 DEF Enter
    <3>3. SameTasks([run EXCEPT ![active].timer = FALSE])
      BY <3>1, RunKept, RunFieldSet
    <3>4. s0 \in Stop
      BY <3>1 DEF Stop, Handlers
    <3> QED
      BY <3>2, <3>3, <3>4 DEF BeginStop
  <2>2. CASE ~(active # NoRun /\ Preemptible(active, t))
    <3>1. UNCHANGED <<run, stops>>
      BY <2>2 DEF Enter
    <3> QED
      BY <3>1, RunKept DEF SameTasks
  <2> QED
    BY <2>1, <2>2
<1>12. /\ stops' \subseteq Stop
       /\ \A s \in stops' : s.by = "deploy" => s \in stops
  BY <1>1, <1>11 DEF RestOK
<1>13. /\ deploy \in Deploys /\ remote \in Remotes /\ wake \in BOOLEAN
       /\ exiting \in BOOLEAN /\ budget' \in Budgets /\ Blocked' = Blocked
  BY <1>1, SpendType DEF RestOK, Deploys, Blocked
<1>14. /\ RestOK'
       /\ HolderOf(starting, active', run') = HolderOf(starting, active, run)
  BY <1>2, <1>9, <1>10, <1>11, <1>12, <1>13, RestKept
<1>15. /\ queuedIds' = Waiting(q2) \cup HolderOf(starting, active', run')
       /\ Waiting(q2) \cap HolderOf(starting, active', run') = {}
  BY <1>1, <1>5, <1>8, <1>14
<1>16. /\ starting # NoTask => active' = NoRun /\ remote' = "none"
       /\ active' # NoRun => remote' = "none"
       /\ deploy'.phase = "none"
       /\ \A s \in stops' : s.by = "deploy" => deploy'.phase = "forcing"
       /\ \A s, z \in stops' : s.by = "deploy" /\ z.by = "deploy" => s = z
  BY <1>12 DEF IInv, SlotExclusive, ForcingAlone, Blocked
<1>17. ProcessNextTask(q2, active', starting, Blocked', remote') /\ ~Blocked'
  BY <1>8, <1>13
<1> QED
  BY <1>1, <1>5, <1>6, <1>7, <1>14, <1>15, <1>16, <1>17, SlotStep

LEMMA EnqueueTaskKeeps == ASSUME IInv, NEW t \in Tasks, EnqueueTask(t) PROVE IInv'
<1>1. /\ queue \in Seq(Entry) /\ WellFormed(queue, nextSeq)
      /\ Len(queue) <= QueueLimit /\ nextSeq \in Nat
  BY Parts DEF RestOK
<1>2. /\ Spend("deliver")
      /\ UNCHANGED <<active, nRuns, wake, deploy, remote, exiting>>
  BY DEF EnqueueTask
<1>3. CASE RefuseDraining(t) \/ IgnoreDuplicate(t) \/ RefuseFull(t)
  BY <1>2, <1>3, RefusalKeeps
<1>4. CASE Accept(t)
  <2>1. /\ ~Blocked /\ t \notin queuedIds /\ Len(queue) < QueueLimit
        /\ Enter(t, queue, {}) /\ {} \subseteq Waiting(queue)
        /\ Waiting(queue) = Waiting(queue) \ {}
    BY <1>4 DEF Accept
  <2> QED
    BY <1>1, <1>2, <2>1, EnterKeeps
<1>5. CASE AcceptEvicting(t)
  <2>1. EvictionIndex(queue, t) \in 0..Len(queue)
    BY <1>1, EvictionIndexType
  <2>2. PICK k \in 0..Len(queue) : k = EvictionIndex(queue, t)
    BY <2>1
  <2>3. /\ ~Blocked /\ t \notin queuedIds /\ k # 0
        /\ Enter(t, RemoveAt(queue, k), {queue[k].task})
    BY <1>5, <2>2 DEF AcceptEvicting
  <2>4. k \in 1..Len(queue)
    BY <2>2, <2>3
  <2>5. RemoveAt(queue, k) \in Seq(Entry) /\ Len(RemoveAt(queue, k)) = Len(queue) - 1
    BY <1>1, <2>4, RemoveAtType
  <2>6. /\ WellFormed(RemoveAt(queue, k), nextSeq)
        /\ Waiting(RemoveAt(queue, k)) = Waiting(queue) \ {queue[k].task}
    BY <1>1, <2>4, RemoveAtKeeps
  <2>7. Len(RemoveAt(queue, k)) < QueueLimit
    <3>1. Len(queue) \in Nat
      BY <1>1
    <3> QED
      BY <1>1, <2>5, <3>1, TaskExecutorAssumption
  <2>8. {queue[k].task} \subseteq Waiting(queue)
    BY <1>1, <2>4 DEF Waiting
  <2> QED
    BY <1>2, <2>3, <2>5, <2>6, <2>7, <2>8, EnterKeeps
<1> QED
  BY <1>3, <1>4, <1>5 DEF EnqueueTask

\* What a step that does not touch them keeps of deployment and terminations.
LEMMA DeployParts ==
  IInv => /\ deploy \in Deploys /\ remote \in Remotes
          /\ Blocked => queue = <<>> /\ remote # "open"
          /\ deploy.phase = "activating" => active = NoRun /\ starting = NoTask
          /\ deploy.phase = "forcing" => starting = NoTask
          /\ \A z \in stops : z.by = "deploy" => deploy.phase = "forcing"
          /\ \A x, z \in stops : x.by = "deploy" /\ z.by = "deploy" => x = z
          /\ starting # NoTask => active = NoRun /\ remote = "none"
          /\ active # NoRun => remote = "none"
BY Parts DEF IInv, SlotExclusive, ActivationIdle, DeployWithoutRemote, ForcingAlone,
             IsTaskExecutorIdle, RestOK, Deploys

LEMMA SettleStartingKeeps == ASSUME IInv, SettleStarting PROVE IInv'
<1>1. /\ starting \in Tasks
      /\ Publish({Result(starting, NoRun, "SETTLED")})
      /\ queuedIds' = queuedIds \ {starting} /\ starting' = NoTask
      /\ UNCHANGED <<queue, nextSeq, active, run, nRuns, stops, deploy, remote>>
  BY Parts DEF SettleStarting
<1>2. wake' \in BOOLEAN /\ exiting' \in BOOLEAN /\ budget' \in Budgets
  <2>1. wake \in BOOLEAN /\ exiting \in BOOLEAN /\ budget \in Budgets
    BY Quiet DEF Budgets
  <2>2. CASE wake' = TRUE /\ UNCHANGED <<exiting, budget>>
    BY <2>1, <2>2
  <2>3. CASE exiting' = TRUE /\ Spend("crash") /\ UNCHANGED wake
    BY <2>1, <2>3, SpendType
  <2> QED
    BY <2>2, <2>3 DEF SettleStarting
<1>3. results' \subseteq Results /\ owed' \subseteq Tasks
  BY <1>1, PublishType DEF Codes
<1>4. /\ RestOK /\ queue \in Seq(Entry)
      /\ WellFormed(queue, nextSeq) /\ Len(queue) <= QueueLimit
      /\ queuedIds = Waiting(queue) \cup HolderOf(starting, active, run)
      /\ Waiting(queue) \cap HolderOf(starting, active, run) = {}
  BY Parts
<1>5. SameTasks(run')
  BY <1>1, RunKept DEF SameTasks
<1>6. nextSeq \in Nat /\ queuedIds' \subseteq Tasks /\ stops \subseteq Stop
  BY <1>1, <1>4 DEF RestOK
<1>7. RestOK'
  BY <1>1, <1>2, <1>3, <1>5, <1>6, DeployParts, RestKept
<1>8. active = NoRun
  BY <1>1, DeployParts, TaskExecutorAssumption
<1>9. /\ HolderOf(starting, active, run) = {starting}
      /\ HolderOf(NoTask, active', run') = {}
  BY <1>1, <1>8, TaskExecutorAssumption DEF HolderOf
<1>10. /\ queuedIds' = Waiting(queue) \cup HolderOf(NoTask, active', run')
       /\ Waiting(queue) \cap HolderOf(NoTask, active', run') = {}
  BY <1>1, <1>4, <1>9
<1>11. Blocked' = Blocked
  BY <1>1 DEF Blocked
<1> QED
  BY <1>1, <1>4, <1>7, <1>8, <1>10, <1>11, DeployParts, SlotStep

LEMMA ActivateRunKeeps == ASSUME IInv, ActivateRun PROVE IInv'
<1> DEFINE r == nRuns + 1
<1>1. /\ starting \in Tasks /\ nRuns < MaxRuns
      /\ nRuns' = r /\ run' = [run EXCEPT ![r] = NewRun(starting)]
      /\ active' = r /\ starting' = NoTask
      /\ UNCHANGED <<queue, nextSeq, queuedIds, stops, wake, deploy, remote,
                     results, owed, exiting, budget>>
  BY Parts DEF ActivateRun
<1>2. /\ RestOK /\ queue \in Seq(Entry)
      /\ WellFormed(queue, nextSeq) /\ Len(queue) <= QueueLimit
      /\ queuedIds = Waiting(queue) \cup HolderOf(starting, active, run)
      /\ Waiting(queue) \cap HolderOf(starting, active, run) = {}
  BY Parts
<1>3. nRuns \in Nat /\ r \in Runs /\ r # NoRun /\ r \in 0..MaxRuns
  BY <1>1, <1>2, TaskExecutorAssumption DEF RestOK, Runs, NoRun
<1>4. NewRun(starting) \in RunState /\ NewRun(starting).task = starting
  BY <1>1 DEF NewRun, RunState
<1>5. run' \in [Runs -> RunState] /\ run'[r].task = starting
  BY <1>1, <1>2, <1>3, <1>4 DEF RestOK
<1>6. \A x \in 1..nRuns' : run'[x].task \in Tasks
  <2> SUFFICES ASSUME NEW x \in 1..nRuns' PROVE run'[x].task \in Tasks
    OBVIOUS
  <2>1. CASE x = r
    BY <1>1, <1>5, <2>1
  <2>2. CASE x # r
    <3>1. x \in 1..nRuns /\ x \in Runs
      BY <1>1, <1>3, <2>2, TaskExecutorAssumption DEF Runs
    <3> QED
      BY <1>1, <1>2, <2>2, <3>1 DEF RestOK
  <2> QED
    BY <2>1, <2>2
<1>7. RestOK'
  BY <1>1, <1>2, <1>3, <1>5, <1>6 DEF RestOK
<1>8. active = NoRun /\ remote = "none"
  BY <1>1, DeployParts, TaskExecutorAssumption
<1>9. HolderOf(starting, active, run) = {starting}
      /\ HolderOf(NoTask, active', run') = {starting}
  BY <1>1, <1>3, <1>5, <1>8, TaskExecutorAssumption DEF HolderOf
<1>10. /\ Blocked' = Blocked
       /\ deploy.phase # "activating"
       /\ deploy.phase = "forcing" => starting = NoTask
  BY <1>1, DeployParts, TaskExecutorAssumption DEF Blocked
<1> QED
  BY <1>1, <1>2, <1>7, <1>8, <1>9, <1>10, DeployParts, SlotStep

LEMMA CleanupDoneKeeps == ASSUME IInv, CleanupDone PROVE IInv'
<1>1. /\ active # NoRun
      /\ queuedIds' = queuedIds \ {run[active].task}
      /\ active' = NoRun /\ wake' = TRUE
      /\ UNCHANGED <<queue, nextSeq, starting, run, nRuns, stops, deploy,
                     remote, results, owed, exiting, budget>>
  BY DEF CleanupDone
<1>2. /\ RestOK /\ queue \in Seq(Entry)
      /\ WellFormed(queue, nextSeq) /\ Len(queue) <= QueueLimit
      /\ queuedIds = Waiting(queue) \cup HolderOf(starting, active, run)
      /\ Waiting(queue) \cap HolderOf(starting, active, run) = {}
  BY Parts
<1>3. RestOK'
  BY <1>1, <1>2 DEF RestOK, NoRun
<1>4. starting = NoTask
  BY <1>1, DeployParts
<1>5. /\ HolderOf(starting, active, run) = {run[active].task}
      /\ HolderOf(NoTask, active', run') = {}
  BY <1>1, <1>4 DEF HolderOf
<1>6. Blocked' = Blocked
  BY <1>1 DEF Blocked
<1> QED
  BY <1>1, <1>2, <1>3, <1>4, <1>5, <1>6, DeployParts, SlotStep

LEMMA CleanupFailsKeeps == ASSUME IInv, CleanupFails PROVE IInv'
<1>1. active \in Runs /\ SameTasks(run)
  BY RunKept, ActiveExists DEF CleanupFails
<1>2. SameTasks([run EXCEPT ![active].failed = TRUE])
  BY <1>1, RunFieldSet
<1>3. budget' \in Budgets
  BY SpendType DEF CleanupFails
<1> QED
  BY <1>2, <1>3, Quiet, QuietStep DEF CleanupFails, Slot, Budgets

LEMMA CancelQueuedKeeps == ASSUME IInv, NEW t \in Tasks, CancelQueued(t) PROVE IInv'
<1>1. /\ RestOK /\ queue \in Seq(Entry) /\ starting \in Tasks \cup {NoTask}
      /\ WellFormed(queue, nextSeq) /\ Len(queue) <= QueueLimit
      /\ queuedIds = Waiting(queue) \cup HolderOf(starting, active, run)
      /\ Waiting(queue) \cap HolderOf(starting, active, run) = {}
      /\ nextSeq \in Nat
  BY Parts DEF RestOK
<1>2. PICK k \in 0..Len(queue) : /\ k = Position(queue, t)
                                 /\ k # 0 => queue[k].task = t
  BY <1>1, PositionType
<1>3. /\ k # 0 /\ Spend("cancel")
      /\ queue' = RemoveAt(queue, k) /\ queuedIds' = queuedIds \ {t}
      /\ Publish({Result(t, NoRun, "OPERATOR_CANCELLED")})
      /\ UNCHANGED <<nextSeq, starting, active, run, nRuns, stops, wake,
                     deploy, remote, exiting>>
  BY <1>2 DEF CancelQueued
<1>4. k \in 1..Len(queue)
  BY <1>2, <1>3
<1> DEFINE q == RemoveAt(queue, k)
<1>5. q \in Seq(Entry) /\ Len(q) = Len(queue) - 1
  BY <1>1, <1>4, RemoveAtType
<1>6. WellFormed(q, nextSeq) /\ Waiting(q) = Waiting(queue) \ {t}
  BY <1>1, <1>2, <1>3, <1>4, RemoveAtKeeps
<1>7. t \in Waiting(queue)
  BY <1>1, <1>2, <1>3, <1>4 DEF Waiting
<1> HIDE DEF q
<1>8. Len(q) <= QueueLimit
  <2>1. Len(queue) \in Nat
    BY <1>1
  <2> QED
    BY <1>1, <1>5, <2>1, TaskExecutorAssumption
<1>9. results' \subseteq Results /\ owed' \subseteq Tasks
  BY <1>3, PublishType DEF Codes
<1>10. SameTasks(run')
  BY <1>3, RunKept DEF SameTasks
<1>11. budget' \in Budgets
  BY <1>3, SpendType
<1>12. /\ queuedIds' \subseteq Tasks /\ stops \subseteq Stop /\ wake \in BOOLEAN
       /\ exiting \in BOOLEAN
  BY <1>1, <1>3 DEF RestOK
<1>13. /\ RestOK'
       /\ HolderOf(starting, active', run') = HolderOf(starting, active, run)
  BY <1>1, <1>3, <1>9, <1>10, <1>11, <1>12, DeployParts, RestKept
<1>14. /\ queuedIds' = Waiting(q) \cup HolderOf(starting, active', run')
       /\ Waiting(q) \cap HolderOf(starting, active', run') = {}
  BY <1>1, <1>3, <1>6, <1>7, <1>13
<1>15. Blocked' = Blocked /\ queue # <<>> /\ queue' = q
  BY <1>1, <1>3, <1>4 DEF Blocked, q
<1> QED
  BY <1>1, <1>3, <1>5, <1>6, <1>8, <1>13, <1>14, <1>15, DeployParts, SlotStep

LEMMA CancelActiveKeeps == ASSUME IInv, NEW t \in Tasks, CancelActive(t) PROVE IInv'
<1> DEFINE s0 == [by |-> "control", run |-> active, pc |-> "engine"]
<1>1. active \in Runs /\ SameTasks(run)
  BY RunKept, ActiveExists DEF CancelActive, CanCancelActiveTask
<1>2. SameTasks([run EXCEPT ![active].timer = FALSE])
  BY <1>1, RunFieldSet
<1>3. budget' \in Budgets
  BY SpendType DEF CancelActive
<1>4. /\ SameTasks(run') /\ stops' = stops \cup {s0}
      /\ UNCHANGED <<Slot, nRuns, wake, results, owed, exiting>>
  BY <1>2 DEF CancelActive, BeginStop, Slot
<1>5. s0 \in Stop /\ s0.by # "deploy"
  BY <1>1 DEF Stop, Handlers
<1> QED
  BY <1>3, <1>4, <1>5, Quiet, QuietStep DEF Budgets

LEMMA BeginDeployKeeps ==
  ASSUME IInv, NEW mode \in DeployModes, BeginDeploy(mode) PROVE IInv'
<1>1. /\ RestOK /\ queue \in Seq(Entry) /\ starting \in Tasks \cup {NoTask}
      /\ queuedIds = Waiting(queue) \cup HolderOf(starting, active, run)
      /\ Waiting(queue) \cap HolderOf(starting, active, run) = {}
      /\ nextSeq \in Nat
  BY Parts DEF RestOK
<1>2. /\ ~Blocked /\ Spend("deploy")
      /\ deploy' = [phase |-> "staging", mode |-> mode]
      /\ queue' = <<>> /\ queuedIds' = queuedIds \ Waiting(queue)
      /\ Publish({Result(t, NoRun, "DRAINING") : t \in Waiting(queue)})
      /\ UNCHANGED <<nextSeq, starting, active, run, nRuns, stops, wake, exiting>>
      /\ remote' = Closing(remote)
  BY DEF BeginDeploy
<1>12. /\ remote' \in Remotes /\ remote' # "open"
       /\ remote = "none" => remote' = "none"
  BY <1>2, DeployParts DEF Closing, Remotes
<1>3. Waiting(queue) \subseteq Tasks
  BY <1>1 DEF RestOK
<1>4. results' \subseteq Results /\ owed' \subseteq Tasks
  <2>1. \A t \in Waiting(queue) : Result(t, NoRun, "DRAINING") \in Results
    BY <1>3 DEF Result, Results, Codes
  <2> QED
    BY <1>2, <2>1, Quiet DEF Publish
<1>5. deploy' \in Deploys
  BY <1>2, TaskExecutorAssumption DEF Deploys, Phases
<1>6. SameTasks(run') /\ budget' \in Budgets
  BY <1>2, RunKept, SpendType DEF SameTasks
<1>7. /\ queuedIds' \subseteq Tasks /\ stops \subseteq Stop /\ wake \in BOOLEAN
      /\ exiting \in BOOLEAN
  BY <1>1, <1>2 DEF RestOK
<1>8. /\ RestOK'
      /\ HolderOf(starting, active', run') = HolderOf(starting, active, run)
  BY <1>1, <1>2, <1>4, <1>5, <1>6, <1>7, <1>12, DeployParts, RestKept
<1>9. /\ queuedIds' = Waiting(<<>>) \cup HolderOf(starting, active', run')
      /\ Waiting(<<>>) \cap HolderOf(starting, active', run') = {}
  <2>1. Waiting(<<>>) = {}
    BY DEF Waiting
  <2> QED
    BY <1>1, <1>2, <1>8, <2>1
<1>10. /\ <<>> \in Seq(Entry) /\ Len(<<>>) <= QueueLimit
       /\ WellFormed(<<>>, nextSeq')
  BY TaskExecutorAssumption DEF WellFormed, Distinct, Ordered
<1>11. /\ deploy'.phase = "staging"
       /\ \A s \in stops' : s.by # "deploy"
  BY <1>2, DeployParts DEF Blocked
<1> QED
  BY <1>1, <1>2, <1>8, <1>9, <1>10, <1>11, <1>12, DeployParts, SlotStep

\* A step from one phase of a deployment to another.
LEMMA PhaseStep ==
  ASSUME IInv, NEW from \in Phases \ {"none"}, NEW to \in Phases \ {"none"},
         ToPhase(from, to), SameTasks(run'), stops' \subseteq Stop,
         to = "activating" => active = NoRun /\ starting = NoTask,
         to = "forcing" => starting = NoTask,
         \A s \in stops' : s.by = "deploy" => to = "forcing",
         \A s, z \in stops' : s.by = "deploy" /\ z.by = "deploy" => s = z
  PROVE  IInv'
<1>1. /\ deploy.phase = from /\ deploy' = [deploy EXCEPT !.phase = to]
      /\ UNCHANGED <<queue, nextSeq, queuedIds, starting, active, nRuns, wake,
                     remote, results, owed, exiting, budget>>
  BY DEF ToPhase
<1>2. deploy' \in Deploys /\ deploy'.phase = to
  BY <1>1, DeployParts DEF Deploys
<1>3. queue = <<>> /\ remote' # "open"
  BY <1>1, DeployParts DEF Blocked
<1> QED
  BY <1>1, <1>2, <1>3, Quiet, DeployParts, DispatchStep DEF Budgets

LEMMA DeploymentKeeps == ASSUME IInv, Deployment, ~Activate PROVE IInv'
<1>0. SameTasks(run) /\ stops \subseteq Stop
  BY RunKept, Quiet
<1>1. ASSUME NEW from \in Phases \ {"none", "forcing"},
             NEW to \in Phases \ {"none", "forcing"},
             ToPhase(from, to), UNCHANGED <<run, stops>>,
             to = "activating" => active = NoRun /\ starting = NoTask
      PROVE  IInv'
  <2>1. deploy.phase = from /\ \A s \in stops' : s.by # "deploy"
    BY <1>1, DeployParts DEF ToPhase
  <2>2. SameTasks(run')
    BY <1>0, <1>1 DEF SameTasks
  <2> QED
    BY <1>0, <1>1, <2>1, <2>2, PhaseStep
<1>2. CASE Staged
  BY <1>1, <1>2 DEF Staged, Phases
<1>3. CASE Drain
  BY <1>1, <1>3 DEF Drain, Phases, IsTaskExecutorIdle
<1>4. CASE ForceWithoutRun
  BY <1>1, <1>4 DEF ForceWithoutRun, Phases
<1>5. CASE ActivationFails
  BY <1>1, <1>5 DEF ActivationFails, Phases
<1>6. CASE ForceStop
  <2> DEFINE s0 == [by |-> "deploy", run |-> active, pc |-> "engine"]
  <2>1. /\ active \in Runs /\ starting = NoTask
        /\ deploy.phase = "stopping"
        /\ ToPhase("stopping", "forcing")
        /\ stops' = stops \cup {s0} /\ run' = [run EXCEPT ![active].timer = FALSE]
    BY <1>6, ActiveExists, DeployParts DEF ForceStop, ToPhase, BeginStop
  <2>2. SameTasks(run')
    <3>1. SameTasks([run EXCEPT ![active].timer = FALSE])
      BY <1>0, <2>1, RunFieldSet
    <3> QED
      BY <2>1, <3>1
  <2>3. s0 \in Stop
    BY <2>1 DEF Stop, Handlers
  <2>4. \A s \in stops : s.by # "deploy"
    BY <2>1, DeployParts
  <2>5. "stopping" \in Phases \ {"none"} /\ "forcing" \in Phases \ {"none"}
    BY DEF Phases
  <2> HIDE DEF s0
  <2>6. \A s, z \in stops' : s.by = "deploy" /\ z.by = "deploy" => s = z
    BY <2>1, <2>4
  <2> QED
    BY <1>0, <2>1, <2>2, <2>3, <2>5, <2>6, PhaseStep
<1>7. CASE EndFailedDeploy
  <2>1. /\ deploy.phase = "failing" /\ deploy' = NoDeploy
        /\ ProcessNextTask(queue, active, starting, FALSE, remote)
        /\ UNCHANGED <<nextSeq, queuedIds, active, run, nRuns, stops, wake,
                       remote, results, owed, exiting, budget>>
    BY <1>7 DEF EndFailedDeploy
  <2>2. queue = <<>> /\ \A s \in stops : s.by # "deploy"
    BY <2>1, DeployParts DEF Blocked
  <2>3. UNCHANGED <<queue, starting>>
    BY <2>1, <2>2 DEF ProcessNextTask
  <2>4. SameTasks(run')
    BY <1>0, <2>1 DEF SameTasks
  <2>5. deploy' \in Deploys /\ deploy'.phase = "none" /\ ~Blocked'
    BY <2>1 DEF NoDeploy, Deploys, Phases, Blocked
  <2> QED
    BY <1>0, <2>1, <2>2, <2>3, <2>4, <2>5, Quiet, DeployParts, DispatchStep
    DEF Budgets
<1> QED
  BY <1>2, <1>3, <1>4, <1>5, <1>6, <1>7 DEF Deployment

LEMMA RemoteKeeps == ASSUME IInv, OpenRemote \/ CloseRemote \/ RemoteClosed PROVE IInv'
<1>0. SameTasks(run) /\ stops \subseteq Stop
  BY RunKept, Quiet
<1>1. CASE OpenRemote
  <2>1. /\ active = NoRun /\ starting = NoTask /\ Spend("session") /\ ~Blocked
        /\ remote' = "open"
        /\ UNCHANGED <<queue, nextSeq, queuedIds, starting, active, run, nRuns,
                       stops, wake, deploy, results, owed, exiting>>
    BY <1>1 DEF OpenRemote, IsDeviceControlBusy
  <2>2. /\ SameTasks(run') /\ budget' \in Budgets /\ Blocked' = Blocked
        /\ remote' \in Remotes
    BY <1>0, <2>1, SpendType DEF SameTasks, Blocked, Remotes
  <2> QED
    BY <1>0, <2>1, <2>2, Quiet, DeployParts, DispatchStep
<1>2. CASE CloseRemote
  <2>1. /\ remote = "open" /\ remote' = "closing"
        /\ UNCHANGED <<queue, nextSeq, queuedIds, starting, active, run, nRuns,
                       stops, wake, deploy, results, owed, exiting, budget>>
    BY <1>2 DEF CloseRemote
  <2>2. SameTasks(run') /\ Blocked' = Blocked /\ remote' \in Remotes
    BY <1>0, <2>1 DEF SameTasks, Blocked, Remotes
  <2> QED
    BY <1>0, <2>1, <2>2, Quiet, DeployParts, DispatchStep DEF Budgets
<1>3. CASE RemoteClosed
  <2>1. /\ remote' = "none"
        /\ ProcessNextTask(queue, active, starting, Blocked, "none")
        /\ UNCHANGED <<nextSeq, queuedIds, active, run, nRuns, stops, wake,
                       deploy, results, owed, exiting, budget>>
    BY <1>3 DEF RemoteClosed
  <2>2. SameTasks(run') /\ Blocked' = Blocked /\ remote' \in Remotes
    BY <1>0, <2>1 DEF SameTasks, Blocked, Remotes
  <2> QED
    BY <1>0, <2>1, <2>2, Quiet, DeployParts, DispatchStep DEF Budgets
<1> QED
  BY <1>1, <1>2, <1>3

\* A new process starts from an idle slot, whatever it finds in AutoJS.
LEMMA RestartedKeeps == ASSUME IInv, Restarted, budget' \in Budgets PROVE IInv'
<1>1. /\ queue' = <<>> /\ queuedIds' = {} /\ starting' = NoTask
      /\ active' = NoRun /\ stops' = {} /\ wake' = FALSE
      /\ deploy' = NoDeploy /\ remote' = "none" /\ exiting' = FALSE
      /\ run' = [r \in Runs |-> [run[r] EXCEPT !.timer = FALSE,
                                               !.launch = "returned"]]
      /\ UNCHANGED <<nextSeq, nRuns, results, owed>>
  BY DEF Restarted
<1>2. ASSUME NEW r \in Runs
      PROVE  run'[r] \in RunState /\ run'[r].task = run[r].task
  <2>1. run[r] \in RunState
    BY RunKept DEF SameTasks
  <2> QED
    BY <1>1, <2>1 DEF RunState
<1>3. RestOK /\ 1..nRuns \subseteq Runs
  BY Parts, TaskExecutorAssumption DEF RestOK, Runs
<1>4. run' \in [Runs -> RunState]
  BY <1>1, <1>2
<1>5. \A r \in 1..nRuns' : run'[r].task \in Tasks
  BY <1>1, <1>2, <1>3 DEF RestOK
<1>6. deploy' \in Deploys /\ deploy'.phase = "none" /\ ~Blocked'
  BY <1>1 DEF NoDeploy, Deploys, Phases, Blocked
<1>7. RestOK'
  <2>1. /\ nextSeq' \in Nat /\ nRuns' \in 0..MaxRuns
        /\ active' \in Runs \cup {NoRun} /\ active' <= nRuns'
    <3>1. nextSeq \in Nat /\ nRuns \in 0..MaxRuns
      BY <1>3 DEF RestOK
    <3>2. active' = NoRun /\ nRuns' = nRuns /\ nextSeq' = nextSeq
      BY <1>1
    <3> QED
      BY <3>1, <3>2, TaskExecutorAssumption DEF NoRun
  <2>2. /\ queuedIds' \subseteq Tasks /\ stops' \subseteq Stop
        /\ results' \subseteq Results /\ owed' \subseteq Tasks
    BY <1>1, <1>3 DEF RestOK
  <2> QED
    BY <1>1, <1>4, <1>5, <1>6, <2>1, <2>2 DEF RestOK, Deploys, Budgets, Remotes
<1>8. /\ <<>> \in Seq(Entry) /\ Len(<<>>) <= QueueLimit
      /\ WellFormed(<<>>, nextSeq') /\ Waiting(<<>>) = {}
      /\ HolderOf(NoTask, active', run') = {}
  <2>1. <<>> \in Seq(Entry) /\ Len(<<>>) <= QueueLimit
    BY TaskExecutorAssumption
  <2>2. WellFormed(<<>>, nextSeq') /\ Waiting(<<>>) = {}
    BY DEF WellFormed, Distinct, Ordered, Waiting
  <2>3. HolderOf(NoTask, active', run') = {}
    BY <1>1 DEF HolderOf
  <2> QED
    BY <2>1, <2>2, <2>3
<1> QED
  BY <1>1, <1>6, <1>7, <1>8, SlotStep

-----------------------------------------------------------------------------
LEMMA NextKeeps == ASSUME IInv, Next PROVE IInv'
<1>0. budget \in Budgets
  BY Quiet DEF Budgets
<1>1. CASE External
  <2>1. CASE Crash
    BY <2>1, RestartedKeeps, SpendType DEF Crash
  <2> QED
    BY <1>1, <2>1, EnqueueTaskKeeps, CancelQueuedKeeps, CancelActiveKeeps,
       BeginDeployKeeps, RemoteKeeps DEF External
<1>2. CASE Wake \/ SettleStarting \/ ActivateRun \/ CleanupDone \/ CleanupFails
  BY <1>2, WakeKeeps, SettleStartingKeeps, ActivateRunKeeps, CleanupDoneKeeps,
     CleanupFailsKeeps
<1>3. CASE \E r \in 1..nRuns :
             Launch(r) \/ Poll(r) \/ ScriptStep(r) \/ TimerFires(r)
  BY <1>3, LaunchKeeps, PollKeeps, ScriptStepKeeps, TimerFiresKeeps
<1>4. CASE \E s \in stops : StopSucceeds(s) \/ StopFails(s) \/ CleanupAwaited(s)
  BY <1>4, StopSucceedsKeeps, StopFailsKeeps, CleanupAwaitedKeeps
<1>5. CASE Deployment \/ CloseRemote \/ RemoteClosed \/ Exit
  <2>1. CASE Activate \/ Exit
    BY <1>0, <2>1, RestartedKeeps DEF Activate, Exit
  <2> QED
    BY <1>5, <2>1, DeploymentKeeps, RemoteKeeps
<1> QED
  BY <1>1, <1>2, <1>3, <1>4, <1>5 DEF Next

LEMMA StutterKeeps == ASSUME IInv, UNCHANGED vars PROVE IInv'
<1>1. UNCHANGED <<Slot, nRuns, run, stops, wake, results, owed, exiting, budget>>
  BY DEF vars, Slot
<1>2. SameTasks(run')
  BY <1>1, RunKept DEF SameTasks
<1> QED
  BY <1>1, <1>2, Quiet, QuietStep

\* IInv is inductive, hence an invariant of the executor.
THEOREM Invariance == Spec => []IInv
<1>1. IInv /\ [Next]_vars => IInv'
  BY NextKeeps, StutterKeeps
<1> QED
  BY <1>1, InitIInv, PTL DEF Spec

\* Every variable keeps its type, for any number of tasks, runs and events.
THEOREM TypeCorrect == Spec => []TypeOK
<1>1. IInv => TypeOK
  BY DEF IInv
<1> QED
  BY <1>1, Invariance, PTL

\* The phone does one thing at a time (the guards of processNextTask, of the
\* remote session's isDeviceControlBusy and of the deployment's activation).
THEOREM PhoneIsUsedExclusively == Spec => []ExclusiveUse
<1>1. IInv => ExclusiveUse
  BY DEF IInv, ExclusiveUse
<1> QED
  BY <1>1, Invariance, PTL

\* The duplicate filter of enqueueTask is exact.
THEOREM DedupIsExact == Spec => []DedupExact
<1>1. IInv => DedupExact
  BY DEF IInv, DedupExact, WellFormed
<1> QED
  BY <1>1, Invariance, PTL

\* The queue stays in order and within its limit.
THEOREM QueueIsDisciplined == Spec => []QueueDiscipline
<1>1. IInv => QueueDiscipline
  BY DEF IInv, QueueDiscipline, WellFormed
<1> QED
  BY <1>1, Invariance, PTL

-----------------------------------------------------------------------------
(* No waiting task is forgotten.                                           *)

\* A step that lets no task wait for a dispatch it did not wait for before.
LEMMA StillScheduled ==
  ASSUME NoLostWakeup, queue' # <<>> => queue # <<>>,
         CanStart(active', starting', Blocked', remote') =>
           CanStart(active, starting, Blocked, remote),
         wake \/ exiting => wake' \/ exiting'
  PROVE  NoLostWakeup'
BY DEF NoLostWakeup

\* processNextTask leaves no task waiting that could start.
LEMMA DispatchSchedules ==
  ASSUME NEW q \in Seq(Entry), NEW st,
         ProcessNextTask(q, active', st, Blocked', remote')
  PROVE  NoLostWakeup'
<1>1. CASE q # <<>> /\ CanStart(active', st, Blocked', remote')
  <2>1. starting' = Head(q).task /\ Head(q) \in Entry
    BY <1>1 DEF ProcessNextTask
  <2>2. starting' # NoTask
    BY <2>1, TaskExecutorAssumption DEF Entry
  <2> QED
    BY <2>2 DEF NoLostWakeup, CanStart
<1>2. CASE ~(q # <<>> /\ CanStart(active', st, Blocked', remote'))
  <2>1. starting' = st /\ queue' = q
    BY <1>2 DEF ProcessNextTask
  <2> QED
    BY <1>2, <2>1 DEF NoLostWakeup
<1> QED
  BY <1>1, <1>2

\* A termination leaves queue and slot alone, or resumes its handler.
LEMMA StopOutcome ==
  ASSUME IInv, NEW s \in stops, StopSucceeds(s) \/ StopFails(s) \/ CleanupAwaited(s)
  PROVE  /\ UNCHANGED <<queue, starting, deploy>> \/ Resumed(s.by)
         /\ StopUnchanged
<1>1. s.by \in Handlers
  BY StopExists
<1>2. StopUnchanged
  BY DEF StopSucceeds, StopFails, CleanupAwaited, EngineStopSucceeds, PackageStopSucceeds,
         EngineStopFails, PackageStopFails
<1>3. (active = NoRun) \in BOOLEAN
  OBVIOUS
<1>4. \A f : Stopped(s, f) => UNCHANGED <<queue, starting, deploy>> \/ Resumed(s.by)
  BY <1>1, <1>3, ResumeOutcome DEF Stopped
<1>5. \A f : NotStopped(s, f) => Resumed(s.by)
  BY <1>1, ResumeOutcome DEF NotStopped
<1>6. CASE StopSucceeds(s)
  BY <1>4, <1>6 DEF StopSucceeds, EngineStopSucceeds, PackageStopSucceeds
<1>7. CASE StopFails(s)
  BY <1>5, <1>7 DEF StopFails, EngineStopFails, PackageStopFails
<1>8. CASE CleanupAwaited(s)
  <2>1. PICK recovered \in BOOLEAN : Resume(s.by, active = NoRun /\ recovered)
    BY <1>8 DEF CleanupAwaited
  <2>2. (active = NoRun /\ recovered) \in BOOLEAN
    OBVIOUS
  <2>3. Resumed(s.by)
    BY <1>1, <2>1, <2>2, ResumeOutcome
  <2> QED
    BY <1>2, <2>3
<1> QED
  BY <1>2, <1>6, <1>7, <1>8

LEMMA StopSchedules ==
  ASSUME IInv, NoLostWakeup, NEW s \in stops,
         StopSucceeds(s) \/ StopFails(s) \/ CleanupAwaited(s)
  PROVE  NoLostWakeup'
<1>1. UNCHANGED <<active, wake, remote, exiting>>
  BY StopOutcome DEF StopUnchanged
<1>2. CASE UNCHANGED <<queue, starting, deploy>>
  BY <1>1, <1>2, StillScheduled DEF Blocked
<1>3. CASE Resumed(s.by) /\ s.by # "deploy"
  <2>1. Blocked' = Blocked
    BY <1>3 DEF Resumed, Blocked
  <2>2. CASE UNCHANGED <<queue, starting>>
    BY <1>1, <2>1, <2>2, StillScheduled
  <2>3. CASE ProcessNextTask(queue, active, starting, Blocked, remote)
    <3>1. ProcessNextTask(queue, active', starting, Blocked', remote')
      BY <1>1, <2>1, <2>3
    <3>2. queue \in Seq(Entry)
      BY Parts
    <3> QED
      BY <3>1, <3>2, DispatchSchedules
  <2> QED
    BY <1>3, <2>2, <2>3 DEF Resumed
<1>4. CASE Resumed(s.by) /\ s.by = "deploy"
  <2>1. Blocked'
    <3>1. deploy \in Deploys
      BY DeployParts
    <3> QED
      BY <1>4, <3>1 DEF Resumed, Blocked, Deploys
  <2> QED
    BY <2>1 DEF NoLostWakeup, CanStart
<1> QED
  BY <1>2, <1>3, <1>4, StopOutcome

LEMMA EnqueueSchedules ==
  ASSUME IInv, NoLostWakeup, NEW t \in Tasks, EnqueueTask(t)
  PROVE  NoLostWakeup'
<1>1. /\ UNCHANGED <<active, wake, deploy, remote, exiting>> /\ Blocked' = Blocked
      /\ queue \in Seq(Entry) /\ nextSeq \in Nat
  BY Parts DEF EnqueueTask, Blocked, RestOK
<1>2. ASSUME NEW q \in Seq(Entry), NEW evicted, Enter(t, q, evicted)
      PROVE  NoLostWakeup'
  <2>1. PICK e : e = [task |-> t, seq |-> nextSeq]
    OBVIOUS
  <2>2. e \in Entry
    BY <1>1, <2>1 DEF Entry
  <2>3. InsertQueuedTask(q, e) \in Seq(Entry)
    BY <2>2, InsertQueuedTaskType
  <2>4. ProcessNextTask(InsertQueuedTask(q, e), active', starting, Blocked', remote')
    BY <1>1, <1>2, <2>1 DEF Enter
  <2> QED
    BY <2>3, <2>4, DispatchSchedules
<1>3. CASE RefuseDraining(t) \/ IgnoreDuplicate(t) \/ RefuseFull(t)
  <2>1. UNCHANGED <<queue, starting>>
    BY <1>3 DEF RefuseDraining, IgnoreDuplicate, RefuseFull
  <2> QED
    BY <1>1, <2>1, StillScheduled
<1>4. CASE Accept(t)
  BY <1>1, <1>2, <1>4 DEF Accept
<1>5. CASE AcceptEvicting(t)
  <2>1. EvictionIndex(queue, t) \in 1..Len(queue)
    BY <1>1, <1>5, EvictionIndexType DEF AcceptEvicting
  <2>2. RemoveAt(queue, EvictionIndex(queue, t)) \in Seq(Entry)
    BY <1>1, <2>1, RemoveAtType
  <2> QED
    BY <1>2, <1>5, <2>2 DEF AcceptEvicting
<1> QED
  BY <1>3, <1>4, <1>5 DEF EnqueueTask

\* Whatever a step does, a task that could start has a call of processNextTask to
\* come, or the client is about to exit.
LEMMA NextSchedules == ASSUME IInv, NoLostWakeup, [Next]_vars PROVE NoLostWakeup'
<1>0. queue \in Seq(Entry)
  BY Parts
<1>1. CASE \E t \in Tasks : EnqueueTask(t) \/ CancelQueued(t) \/ CancelActive(t)
  <2>1. ASSUME NEW t \in Tasks, CancelQueued(t) PROVE NoLostWakeup'
    <3>1. queue # <<>>
      BY <1>0, <2>1, PositionType DEF CancelQueued
    <3>2. UNCHANGED <<starting, active, wake, deploy, remote, exiting>>
      BY <2>1 DEF CancelQueued
    <3> QED
      BY <3>1, <3>2, StillScheduled DEF Blocked
  <2>2. ASSUME NEW t \in Tasks, CancelActive(t) PROVE NoLostWakeup'
    <3>1. UNCHANGED <<queue, starting, active, wake, deploy, remote, exiting>>
      BY <2>2 DEF CancelActive
    <3> QED
      BY <3>1, StillScheduled DEF Blocked
  <2> QED
    BY <1>1, <2>1, <2>2, EnqueueSchedules
<1>2. CASE \/ \E mode \in DeployModes : BeginDeploy(mode)
           \/ Crash \/ Exit \/ Activate
  <2>1. queue' = <<>>
    BY <1>2 DEF BeginDeploy, Crash, Exit, Activate, Restarted
  <2> QED
    BY <2>1 DEF NoLostWakeup
<1>3. CASE OpenRemote \/ CloseRemote \/ ActivateRun
  <2>1. remote' # "none" \/ active' # NoRun
    <3>1. nRuns \in Nat
      BY Parts, TaskExecutorAssumption DEF RestOK
    <3> QED
      BY <1>3, <3>1 DEF OpenRemote, CloseRemote, ActivateRun, NoRun
  <2> QED
    BY <2>1 DEF NoLostWakeup, CanStart
<1>4. CASE Wake \/ RemoteClosed
  <2>1. ProcessNextTask(queue, active', starting, Blocked', remote')
    BY <1>4 DEF Wake, RemoteClosed, Blocked
  <2> QED
    BY <1>0, <2>1, DispatchSchedules
<1>5. CASE SettleStarting \/ CleanupDone \/ CleanupFails
  BY <1>5 DEF SettleStarting, CleanupDone, CleanupFails, NoLostWakeup
<1>6. CASE \E r \in 1..nRuns : Launch(r) \/ Poll(r) \/ ScriptStep(r) \/ TimerFires(r)
  <2>1. UNCHANGED <<queue, starting, active, wake, deploy, remote, exiting>>
    BY <1>6 DEF Launch, EngineStarts, LaunchReturns, LaunchFails, Poll, PollCheckpoint,
         AckCheckpoint, PollResult, ScriptStep, TimerFires
  <2> QED
    BY <2>1, StillScheduled DEF Blocked
<1>7. CASE \E s \in stops : StopSucceeds(s) \/ StopFails(s) \/ CleanupAwaited(s)
  BY <1>7, StopSchedules
<1>8. CASE Staged \/ Drain \/ ForceWithoutRun \/ ForceStop \/ ActivationFails
  <2>1. \A from, to : ToPhase(from, to) /\ to # "none" => Blocked'
    BY DeployParts DEF ToPhase, Blocked, Deploys
  <2>2. Blocked'
    BY <1>8, <2>1 DEF Staged, Drain, ForceWithoutRun, ForceStop, ActivationFails
  <2> QED
    BY <2>2 DEF NoLostWakeup, CanStart
<1>9. CASE EndFailedDeploy
  <2>1. Blocked /\ queue = <<>>
    BY <1>9, DeployParts DEF EndFailedDeploy, Blocked
  <2>2. queue' = <<>>
    BY <1>9, <2>1 DEF EndFailedDeploy, ProcessNextTask
  <2> QED
    BY <2>2 DEF NoLostWakeup
<1>10. CASE UNCHANGED vars
  BY <1>10, StillScheduled DEF vars, Blocked
<1> QED
  BY <1>1, <1>2, <1>3, <1>4, <1>5, <1>6, <1>7, <1>8, <1>9, <1>10
  DEF Next, External, Deployment

\* A waiting task never depends on an event that need not come: of the many handlers
\* that free the slot, end a remote session or a deployment, none forgets the queue.
THEOREM NoWakeupIsLost == Spec => []NoLostWakeup
<1>1. Init => NoLostWakeup
  BY DEF Init, NoLostWakeup
<1>2. IInv /\ NoLostWakeup /\ [Next]_vars => NoLostWakeup'
  BY NextSchedules
<1> QED
  BY <1>1, <1>2, Invariance, PTL DEF Spec

-----------------------------------------------------------------------------
(* What is said of a run, and the scripts at work.                          *)

\* A script is at work until it has written its result or its engine has ended.
Working(q) == q.engine = "on" /\ ~q.output

\* The verdicts that deny a side effect.
Denials == {"TIMEOUT", "OPERATOR_CANCELLED", "FORCED"}

\* A checkpoint is acknowledged only past the commit boundary, and a run that was
\* denied one is being cleaned up, so that nothing acknowledges it any more.
Truth ==
  /\ \A r \in Runs : run[r].checkpoint = "acked" => run[r].committed
  /\ \A x \in results : x.code \in Denials /\ x.run # NoRun =>
       x.run \in 1..nRuns /\ run[x.run].cleaning /\ run[x.run].checkpoint # "acked"

\* A run that has been answered is being cleaned up, or its launch is over: nothing
\* makes it look launched any more, and if it does, its script is not at work.
Settled ==
  /\ \A r \in Runs : run[r].launched => run[r].launch = "returned"
  /\ \A x \in results : x.run # NoRun =>
       /\ x.run \in 1..nRuns
       /\ run[x.run].cleaning \/ run[x.run].launch = "returned"
       /\ run[x.run].launched => ~Working(run[x.run])

\* Who is owed an answer is tracked, except that a run being cleaned up has had its own.
Answers ==
  /\ owed \subseteq queuedIds
  /\ active # NoRun /\ run[active].cleaning => run[active].task \notin owed

\* The client neither has crashed nor can.
Alive == ~exiting /\ budget["crash"] = 0

\* What the return of "am start" asks of a run that it marks as launched.
Launchable(q) == q.launch = "started" /\ ~q.cleaning

\* The same run, whose engine may have ended or whose launch may be over.
Quieter(q, z) ==
  /\ z.task = q.task /\ z.cleaning = q.cleaning /\ z.committed = q.committed
  /\ z.checkpoint = q.checkpoint /\ z.output = q.output
  /\ z.engine \in {q.engine, "off"}
  /\ q.launch = "returned" => z.launch = "returned"
  /\ z.launched => q.launched \/ (Launchable(q) /\ z.launch = "returned")

AllQuieter == \A r \in Runs : Quieter(run[r], run'[r])

LEMMA QuieterRecord ==
  ASSUME NEW q \in RunState
  PROVE  /\ Quieter(q, q)
         /\ \A b : Quieter(q, [q EXCEPT !.timer = b])
         /\ \A b : Quieter(q, [q EXCEPT !.failed = b])
         /\ \A e \in {q.engine, "off"} : Quieter(q, [q EXCEPT !.engine = e])
         /\ \A e \in {q.engine, "off"} : \A b :
              Quieter(q, [[q EXCEPT !.engine = e] EXCEPT !.timer = b])
         /\ \A b : Quieter(q, [q EXCEPT !.timer = b, !.launch = "returned"])
         /\ \A b, c : (b => q.launched \/ Launchable(q)) =>
              Quieter(q, [q EXCEPT !.launch = "returned", !.launched = b, !.timer = c])
<1> USE DEF RunState, Quieter
<1>1. Quieter(q, q)
  OBVIOUS
<1>2. \A b : Quieter(q, [q EXCEPT !.timer = b])
  OBVIOUS
<1>3. \A b : Quieter(q, [q EXCEPT !.failed = b])
  OBVIOUS
<1>4. \A e \in {q.engine, "off"} : Quieter(q, [q EXCEPT !.engine = e])
  OBVIOUS
<1>5. \A e \in {q.engine, "off"} : \A b :
        Quieter(q, [[q EXCEPT !.engine = e] EXCEPT !.timer = b])
  OBVIOUS
<1>6. \A b : Quieter(q, [q EXCEPT !.timer = b, !.launch = "returned"])
  OBVIOUS
<1>7. \A b, c : (b => q.launched \/ Launchable(q)) =>
        Quieter(q, [q EXCEPT !.launch = "returned", !.launched = b, !.timer = c])
  OBVIOUS
<1> HIDE DEF RunState, Quieter
<1> QED
  BY <1>1, <1>2, <1>3, <1>4, <1>5, <1>6, <1>7

\* Only one run is written at a time, or none.
LEMMA OneRunQuieter ==
  ASSUME IInv, NEW r \in Runs, NEW q, run' = [run EXCEPT ![r] = q], Quieter(run[r], q)
  PROVE  AllQuieter
<1>1. run \in [Runs -> RunState]
  BY RunKept DEF SameTasks
<1>2. \A p \in Runs : run'[p] = IF p = r THEN q ELSE run[p]
  BY <1>1
<1> QED
  BY <1>1, <1>2, QuieterRecord DEF AllQuieter

LEMMA SameRunsQuieter == ASSUME IInv, UNCHANGED run PROVE AllQuieter
<1>1. run \in [Runs -> RunState]
  BY RunKept DEF SameTasks
<1> QED
  BY <1>1, QuieterRecord DEF AllQuieter

\* A timer that is set or cleared changes nothing of the run that matters here.
LEMMA TimerQuieter ==
  ASSUME IInv, NEW r \in Runs, NEW b, run' = [run EXCEPT ![r].timer = b]
  PROVE  AllQuieter
<1>1. run[r] \in RunState
  BY RunKept DEF SameTasks
<1>2. PICK q : q = [run[r] EXCEPT !.timer = b]
  OBVIOUS
<1> QED
  BY <1>1, <1>2, QuieterRecord, OneRunQuieter

\* The steps after which every run is where it was, or quieter.
LEMMA QuieterSteps ==
  ASSUME IInv,
         \/ \E t \in Tasks : EnqueueTask(t) \/ CancelQueued(t) \/ CancelActive(t)
         \/ \E mode \in DeployModes : BeginDeploy(mode)
         \/ OpenRemote \/ CloseRemote \/ RemoteClosed \/ Wake \/ SettleStarting \/ CleanupDone
         \/ CleanupFails \/ (Deployment /\ ~Activate) \/ UNCHANGED vars
         \/ \E r \in 1..nRuns : LaunchReturns(r) \/ TimerFires(r)
         \/ \E s \in stops : StopFails(s) \/ CleanupAwaited(s)
  PROVE  AllQuieter
<1>0. run \in [Runs -> RunState]
  BY RunKept DEF SameTasks
<1>1. ASSUME NEW t \in Tasks, EnqueueTask(t) PROVE AllQuieter
  <2>1. UNCHANGED run \/ (active # NoRun /\ BeginStop("intake", active))
    BY <1>1 DEF EnqueueTask, RefuseDraining, IgnoreDuplicate, RefuseFull, Accept,
         AcceptEvicting, Enter
  <2>2. CASE active # NoRun /\ BeginStop("intake", active)
    <3>1. active \in Runs
      BY <2>2, ActiveExists
    <3> QED
      BY <2>2, <3>1, TimerQuieter DEF BeginStop
  <2> QED
    BY <2>1, <2>2, SameRunsQuieter
<1>2. ASSUME NEW t \in Tasks, CancelActive(t) PROVE AllQuieter
  <2>1. active \in Runs
    BY <1>2, ActiveExists DEF CancelActive, CanCancelActiveTask
  <2> QED
    BY <1>2, <2>1, TimerQuieter DEF CancelActive, BeginStop
<1>3. CASE CleanupFails
  <2>1. active \in Runs
    BY <1>3, ActiveExists DEF CleanupFails
  <2>2. PICK q : q = [run[active] EXCEPT !.failed = TRUE]
    OBVIOUS
  <2>3. run' = [run EXCEPT ![active] = q]
    BY <1>3, <2>2 DEF CleanupFails
  <2>4. Quieter(run[active], q)
    BY <1>0, <2>1, <2>2, QuieterRecord
  <2> QED
    BY <2>1, <2>3, <2>4, OneRunQuieter
<1>4. CASE Deployment /\ ~Activate
  <2>1. CASE ForceStop
    <3>1. active \in Runs
      BY <2>1, ActiveExists DEF ForceStop
    <3> QED
      BY <2>1, <3>1, TimerQuieter DEF ForceStop, BeginStop
  <2>2. CASE ~ForceStop
    <3>1. UNCHANGED run
      BY <1>4, <2>2 DEF Deployment, Staged, Drain, ForceWithoutRun, ActivationFails,
           EndFailedDeploy
    <3> QED
      BY <3>1, SameRunsQuieter
  <2> QED
    BY <2>1, <2>2
<1>5. ASSUME NEW r \in 1..nRuns, TimerFires(r) PROVE AllQuieter
  BY <1>5, RunExists, TimerQuieter DEF TimerFires, BeginStop
<1>6. ASSUME NEW r \in 1..nRuns, LaunchReturns(r) PROVE AllQuieter
  <2>1. r \in Runs
    BY RunExists
  <2>2. PICK b, c : /\ run' = [run EXCEPT ![r].launch = "returned", ![r].launched = b,
                                          ![r].timer = c]
                    /\ b => run[r].launched \/ Launchable(run[r])
    <3>1. Current(r) \/ run[r].launched => run[r].launched \/ Launchable(run[r])
      BY <1>6 DEF LaunchReturns, Current, Launchable
    <3> QED
      BY <1>6, <3>1 DEF LaunchReturns
  <2>3. PICK q : q = [run[r] EXCEPT !.launch = "returned", !.launched = b, !.timer = c]
    OBVIOUS
  <2>4. run' = [run EXCEPT ![r] = q]
    BY <1>0, <2>1, <2>2, <2>3
  <2>5. Quieter(run[r], q)
    BY <1>0, <2>1, <2>2, <2>3, QuieterRecord
  <2> QED
    BY <2>1, <2>4, <2>5, OneRunQuieter
<1>7. ASSUME NEW s \in stops, StopFails(s) PROVE AllQuieter
  <2>1. s.run \in Runs
    BY StopExists
  <2>2. PICK f : /\ \/ \E e \in {run[s.run].engine, "off"} :
                         f = [run EXCEPT ![s.run].engine = e]
                    \/ f = run \/ f = AllEnginesOff
                 /\ run' = f \/ NotStopped(s, f)
    BY <1>7 DEF StopFails, EngineStopFails, PackageStopFails
  <2>3. /\ f \in [Runs -> RunState]
        /\ \A p \in Runs : \E e \in {run[p].engine, "off"} : f[p] = [run[p] EXCEPT !.engine = e]
    <3>1. \A p \in Runs : run[p] = [run[p] EXCEPT !.engine = run[p].engine]
      BY <1>0 DEF RunState
    <3>2. CASE f = run
      BY <1>0, <3>1, <3>2
    <3>3. CASE f = AllEnginesOff
      BY <1>0, <3>3, AllEnginesOffKeepsTasks DEF AllEnginesOff, SameTasks
    <3>4. CASE \E e \in {run[s.run].engine, "off"} : f = [run EXCEPT ![s.run].engine = e]
      <4>1. PICK e \in {run[s.run].engine, "off"} : f = [run EXCEPT ![s.run].engine = e]
        BY <3>4
      <4>2. e \in {"off", "on"}
        BY <1>0, <2>1, <4>1 DEF RunState
      <4>3. f \in [Runs -> RunState]
        <5>1. SameTasks([run EXCEPT ![s.run].engine = e])
          BY <2>1, <4>2, RunKept, RunFieldSet
        <5> QED
          BY <4>1, <5>1 DEF SameTasks
      <4>4. \A p \in Runs : f[p] = IF p = s.run THEN [run[p] EXCEPT !.engine = e] ELSE run[p]
        BY <1>0, <2>1, <4>1
      <4> QED
        BY <3>1, <4>1, <4>3, <4>4
    <3> QED
      BY <2>2, <3>2, <3>3, <3>4
  <2>4. run' = f \/ run' = [f EXCEPT ![s.run].timer = TRUE]
    BY <2>2 DEF NotStopped
  <2>5. \A p \in Runs : run'[p] = f[p] \/ run'[p] = [f[p] EXCEPT !.timer = TRUE]
    BY <2>1, <2>3, <2>4
  <2>6. ASSUME NEW p \in Runs PROVE Quieter(run[p], run'[p])
    <3>1. PICK e \in {run[p].engine, "off"} : f[p] = [run[p] EXCEPT !.engine = e]
      BY <2>3
    <3>2. \/ run'[p] = [run[p] EXCEPT !.engine = e]
          \/ run'[p] = [[run[p] EXCEPT !.engine = e] EXCEPT !.timer = TRUE]
      BY <2>5, <3>1
    <3>3. run[p] \in RunState
      BY <1>0
    <3>4. Quieter(run[p], [run[p] EXCEPT !.engine = e])
      BY <3>1, <3>3, QuieterRecord
    <3>5. Quieter(run[p], [[run[p] EXCEPT !.engine = e] EXCEPT !.timer = TRUE])
      BY <3>1, <3>3, QuieterRecord
    <3> QED
      BY <3>2, <3>4, <3>5
  <2> QED
    BY <2>6 DEF AllQuieter
<1>8. ASSUME UNCHANGED run PROVE AllQuieter
  BY <1>8, SameRunsQuieter
<1> QED
  BY <1>1, <1>2, <1>3, <1>4, <1>5, <1>6, <1>7, <1>8
  DEF CancelQueued, BeginDeploy, OpenRemote, CloseRemote, RemoteClosed, Wake, SettleStarting, CleanupDone,
      CleanupAwaited, vars

\* The results a step adds about a run, and those of them that deny a side effect.
NewAnswers(x) == x \in results' \ results /\ x.run # NoRun
NewDenials(x) == NewAnswers(x) /\ x.code \in Denials

\* Truth stays when no run that was denied a side effect goes on.
LEMMA TruthKept ==
  ASSUME IInv, Truth, nRuns' \in {nRuns, nRuns + 1},
         \A r \in Runs : run'[r].checkpoint = "acked" => run'[r].committed,
         \A r \in 1..nRuns : run[r].cleaning =>
           run'[r].cleaning /\ run'[r].checkpoint = run[r].checkpoint,
         \A x : NewDenials(x) =>
           x.run \in 1..nRuns /\ run'[x.run].cleaning /\ run'[x.run].checkpoint # "acked"
  PROVE  Truth'
<1>1. nRuns \in Nat
  BY Parts, TaskExecutorAssumption DEF RestOK
<1>2. 1..nRuns \subseteq 1..nRuns'
  BY <1>1
<1>3. ASSUME NEW x \in results', x.code \in Denials, x.run # NoRun
      PROVE  x.run \in 1..nRuns' /\ run'[x.run].cleaning /\ run'[x.run].checkpoint # "acked"
  <2>1. CASE x \in results
    BY <1>2, <1>3, <2>1 DEF Truth
  <2>2. CASE x \notin results
    BY <1>2, <1>3, <2>2 DEF NewAnswers, NewDenials
  <2> QED
    BY <2>1, <2>2
<1> QED
  BY <1>3 DEF Truth

LEMMA TruthKeptQuietly ==
  ASSUME IInv, Truth, AllQuieter, UNCHANGED nRuns, \A x : ~NewDenials(x)
  PROVE  Truth'
<1>1. 1..nRuns \subseteq Runs
  BY Parts, TaskExecutorAssumption DEF RestOK, Runs
<1>2. \A r \in Runs : run'[r].checkpoint = "acked" => run'[r].committed
  BY DEF AllQuieter, Quieter, Truth
<1>3. \A r \in 1..nRuns : run[r].cleaning =>
        run'[r].cleaning /\ run'[r].checkpoint = run[r].checkpoint
  BY <1>1 DEF AllQuieter, Quieter
<1> QED
  BY <1>2, <1>3, TruthKept

\* Answers that are about no run.
LEMMA PlainAnswers ==
  ASSUME NEW S, results' = results \cup S, \A x \in S : x.run = NoRun
  PROVE  \A x : ~NewAnswers(x)
BY DEF NewAnswers

LEMMA PlainAnswer ==
  ASSUME NEW t, NEW c, Publish({Result(t, NoRun, c)}) PROVE \A x : ~NewAnswers(x)
<1>1. Result(t, NoRun, c).run = NoRun
  BY DEF Result
<1>2. PICK S : S = {Result(t, NoRun, c)}
  OBVIOUS
<1>3. results' = results \cup S /\ \A x \in S : x.run = NoRun
  BY <1>1, <1>2 DEF Publish
<1> QED
  BY <1>3, PlainAnswers

\* The one answer that a step gives about a run.
LEMMA RunAnswer ==
  ASSUME NEW t, NEW r, NEW c, Publish({Result(t, r, c)})
  PROVE  \A x : NewAnswers(x) => x.run = r /\ x.code = c
<1>1. Result(t, r, c).run = r /\ Result(t, r, c).code = c
  BY DEF Result
<1>2. results' = results \cup {Result(t, r, c)}
  BY DEF Publish
<1> QED
  BY <1>1, <1>2 DEF NewAnswers

\* A cleanup that begins marks its run, and changes nothing else that is read of it.
LEMMA CleanupRuns ==
  ASSUME NEW f \in [Runs -> RunState], NEW a, NEW p \in Runs
  PROVE  /\ BeginCleanup(f, a)[p].task = f[p].task
         /\ BeginCleanup(f, a)[p].committed = f[p].committed
         /\ BeginCleanup(f, a)[p].checkpoint = f[p].checkpoint
         /\ BeginCleanup(f, a)[p].output = f[p].output
         /\ BeginCleanup(f, a)[p].engine = f[p].engine
         /\ BeginCleanup(f, a)[p].launch = f[p].launch
         /\ BeginCleanup(f, a)[p].launched = f[p].launched
         /\ BeginCleanup(f, a)[p].cleaning = (p = a \/ f[p].cleaning)
<1>1. f[p] \in RunState
  OBVIOUS
<1>2. BeginCleanup(f, a)[p] = IF p = a THEN [f[p] EXCEPT !.cleaning = TRUE, !.timer = FALSE]
                              ELSE f[p]
  BY DEF BeginCleanup
<1>3. CASE p = a
  <2>1. PICK z : z = [f[p] EXCEPT !.cleaning = TRUE, !.timer = FALSE]
    OBVIOUS
  <2>2. /\ z.task = f[p].task /\ z.committed = f[p].committed
        /\ z.checkpoint = f[p].checkpoint /\ z.output = f[p].output
        /\ z.engine = f[p].engine /\ z.launch = f[p].launch
        /\ z.launched = f[p].launched /\ z.cleaning
    BY <1>1, <2>1 DEF RunState
  <2>3. BeginCleanup(f, a)[p] = z
    BY <1>2, <1>3, <2>1
  <2>4. z.cleaning = TRUE
    BY <1>1, <2>1 DEF RunState
  <2> QED
    BY <1>3, <2>2, <2>3, <2>4
<1>4. CASE p # a
  <2>1. BeginCleanup(f, a)[p] = f[p]
    BY <1>2, <1>4
  <2>2. f[p].cleaning \in BOOLEAN
    BY <1>1 DEF RunState
  <2> QED
    BY <1>4, <2>1, <2>2
<1> QED
  BY <1>3, <1>4

\* What a successful stop leaves: engines off, and the stopped run's engine surely.
LEMMA StopRuns ==
  ASSUME IInv, NEW s \in stops, StopSucceeds(s)
  PROVE  \E f \in [Runs -> RunState] :
           /\ Stopped(s, f) /\ f[s.run].engine = "off"
           /\ \A p \in Runs : Quieter(run[p], f[p])
<1>1. s.run \in Runs /\ run \in [Runs -> RunState]
  BY StopExists DEF SameTasks
<1>2. CASE EngineStopSucceeds(s)
  <2>1. PICK f : f = [run EXCEPT ![s.run].engine = "off"]
    OBVIOUS
  <2>2. f \in [Runs -> RunState]
    <3>1. SameTasks([run EXCEPT ![s.run].engine = "off"])
      BY <1>1, RunKept, RunFieldSet
    <3> QED
      BY <2>1, <3>1 DEF SameTasks
  <2>3. \A p \in Runs : f[p] = IF p = s.run THEN [run[p] EXCEPT !.engine = "off"] ELSE run[p]
    BY <1>1, <2>1
  <2>4. \A p \in Runs : Quieter(run[p], f[p])
    BY <1>1, <2>3, QuieterRecord
  <2>5. f[s.run].engine = "off"
    BY <1>1, <2>3 DEF RunState
  <2>6. Stopped(s, f)
    BY <1>2, <2>1 DEF EngineStopSucceeds
  <2> QED
    BY <2>2, <2>4, <2>5, <2>6
<1>3. CASE PackageStopSucceeds(s)
  <2>1. PICK f : f = AllEnginesOff
    OBVIOUS
  <2>2. f \in [Runs -> RunState]
    BY <2>1, AllEnginesOffKeepsTasks DEF SameTasks
  <2>3. \A p \in Runs : f[p] = [run[p] EXCEPT !.engine = "off"]
    BY <2>1 DEF AllEnginesOff
  <2>4. \A p \in Runs : Quieter(run[p], f[p])
    BY <1>1, <2>3, QuieterRecord
  <2>5. f[s.run].engine = "off"
    BY <1>1, <2>3 DEF RunState
  <2>6. Stopped(s, f)
    BY <1>3, <2>1 DEF PackageStopSucceeds
  <2> QED
    BY <2>2, <2>4, <2>5, <2>6
<1> QED
  BY <1>2, <1>3 DEF StopSucceeds

\* A verdict on a committed run does not deny a side effect.
LEMMA VerdictFacts ==
  ASSUME NEW h \in Handlers PROVE Verdict(h, TRUE) \notin Denials
BY DEF Handlers, Verdict, Denials

LEMMA StopSucceedsTruth ==
  ASSUME IInv, Truth, NEW s \in stops, StopSucceeds(s) PROVE Truth'
<1>1. /\ s.by \in Handlers /\ s.run \in Runs /\ run \in [Runs -> RunState]
      /\ UNCHANGED nRuns
  BY StopExists, StopOutcome DEF SameTasks, StopUnchanged
<1>2. 1..nRuns \subseteq Runs
  BY Parts, TaskExecutorAssumption DEF RestOK, Runs
<1>3. PICK f \in [Runs -> RunState] :
        Stopped(s, f) /\ \A p \in Runs : Quieter(run[p], f[p])
  BY StopRuns
<1>4. CASE active # s.run
  <2>1. run' = f /\ results' = results
    BY <1>3, <1>4 DEF Stopped, Unpublished
  <2> QED
    BY <1>1, <1>3, <2>1, TruthKeptQuietly DEF AllQuieter, NewAnswers, NewDenials
<1>5. CASE active = s.run
  <2>1. PICK c : c = Verdict(s.by, run[s.run].committed)
    OBVIOUS
  <2>2. PICK t : t = run[s.run].task
    OBVIOUS
  <2>3. run' = BeginCleanup(f, s.run) /\ results' = results \cup {Result(t, s.run, c)}
    BY <1>3, <1>5, <2>1, <2>2 DEF Stopped, Publish
  <2>4. \A p \in Runs : /\ run'[p].committed = run[p].committed
                        /\ run'[p].checkpoint = run[p].checkpoint
                        /\ run'[p].cleaning = (p = s.run \/ run[p].cleaning)
    <3> SUFFICES ASSUME NEW p \in Runs
                 PROVE  /\ run'[p].committed = run[p].committed
                        /\ run'[p].checkpoint = run[p].checkpoint
                        /\ run'[p].cleaning = (p = s.run \/ run[p].cleaning)
      OBVIOUS
    <3>1. Quieter(run[p], f[p])
      BY <1>3
    <3>2. /\ run'[p].committed = f[p].committed /\ run'[p].checkpoint = f[p].checkpoint
          /\ run'[p].cleaning = (p = s.run \/ f[p].cleaning)
      BY <2>3, CleanupRuns
    <3> QED
      BY <3>1, <3>2 DEF Quieter
  <2>5. ASSUME NEW x, NewDenials(x)
        PROVE  /\ x.run \in 1..nRuns /\ run'[x.run].cleaning
               /\ run'[x.run].checkpoint # "acked"
    <3>1. x = Result(t, s.run, c)
      BY <2>3, <2>5 DEF NewAnswers, NewDenials
    <3>2. x.run = s.run /\ x.code = c
      BY <3>1 DEF Result
    <3>3. run[s.run].committed \in BOOLEAN
      BY <1>1 DEF RunState
    <3>4. ~run[s.run].committed
      BY <1>1, <2>1, <2>5, <3>2, <3>3, VerdictFacts DEF NewDenials
    <3>5. s.run \in 1..nRuns
      BY <1>5, <2>5, <3>2, ActiveExists DEF NewAnswers, NewDenials
    <3> QED
      BY <1>1, <2>4, <3>2, <3>4, <3>5 DEF Truth
  <2> QED
    BY <1>1, <1>2, <2>4, <2>5, TruthKept DEF Truth
<1> QED
  BY <1>4, <1>5

\* The steps that say nothing about a run.
LEMMA QuieterAnswers ==
  ASSUME IInv,
         \/ \E t \in Tasks : EnqueueTask(t) \/ CancelQueued(t) \/ CancelActive(t)
         \/ \E mode \in DeployModes : BeginDeploy(mode)
         \/ OpenRemote \/ CloseRemote \/ RemoteClosed \/ Wake \/ SettleStarting \/ CleanupDone
         \/ CleanupFails \/ (Deployment /\ ~Activate) \/ UNCHANGED vars
         \/ \E r \in 1..nRuns : LaunchReturns(r) \/ TimerFires(r)
         \/ \E s \in stops : StopFails(s) \/ CleanupAwaited(s)
  PROVE  UNCHANGED nRuns /\ \A x : ~NewAnswers(x)
<1>1. ASSUME NEW t \in Tasks, EnqueueTask(t) PROVE UNCHANGED nRuns /\ \A x : ~NewAnswers(x)
  <2>1. UNCHANGED nRuns
    BY <1>1 DEF EnqueueTask
  <2>2. \E S : /\ results' = results \cup S
               /\ \A x \in S : x.run = NoRun
    <3>1. CASE UNCHANGED results
      <4>1. PICK S : S = {}
        OBVIOUS
      <4>2. results' = results \cup S /\ \A x \in S : x.run = NoRun
        BY <3>1, <4>1
      <4> QED
        BY <4>2
    <3>2. ASSUME NEW c, Publish({Result(t, NoRun, c)})
          PROVE  \E S : results' = results \cup S /\ \A x \in S : x.run = NoRun
      <4>1. results' = results \cup {Result(t, NoRun, c)}
        BY <3>2 DEF Publish
      <4>2. Result(t, NoRun, c).run = NoRun
        BY DEF Result
      <4>3. PICK S : S = {Result(t, NoRun, c)}
        OBVIOUS
      <4>4. results' = results \cup S /\ \A x \in S : x.run = NoRun
        BY <4>1, <4>2, <4>3
      <4> QED
        BY <4>4
    <3>3. ASSUME NEW q, NEW evicted, Enter(t, q, evicted)
          PROVE  \E S : results' = results \cup S /\ \A x \in S : x.run = NoRun
      <4>1. results' = results \cup {Result(e, NoRun, "EVICTED") : e \in evicted}
        BY <3>3 DEF Enter
      <4>2. \A e \in evicted : Result(e, NoRun, "EVICTED").run = NoRun
        BY DEF Result
      <4>3. PICK S : S = {Result(e, NoRun, "EVICTED") : e \in evicted}
        OBVIOUS
      <4>4. results' = results \cup S /\ \A x \in S : x.run = NoRun
        BY <4>1, <4>2, <4>3
      <4> QED
        BY <4>4
    <3> QED
      BY <1>1, <3>1, <3>2, <3>3 DEF EnqueueTask, RefuseDraining, IgnoreDuplicate, RefuseFull,
         Accept, AcceptEvicting, Unpublished
  <2> QED
    BY <2>1, <2>2, PlainAnswers
<1>2. ASSUME NEW t \in Tasks, CancelQueued(t)
      PROVE  UNCHANGED nRuns /\ \A x : ~NewAnswers(x)
  BY <1>2, PlainAnswer DEF CancelQueued
<1>3. ASSUME NEW mode \in DeployModes, BeginDeploy(mode)
      PROVE  UNCHANGED nRuns /\ \A x : ~NewAnswers(x)
  <2>1. results' = results \cup {Result(t, NoRun, "DRAINING") : t \in Waiting(queue)}
    BY <1>3 DEF BeginDeploy, Publish
  <2>2. \A t \in Waiting(queue) : Result(t, NoRun, "DRAINING").run = NoRun
    BY DEF Result
  <2>3. PICK S : S = {Result(t, NoRun, "DRAINING") : t \in Waiting(queue)}
    OBVIOUS
  <2>4. results' = results \cup S /\ \A x \in S : x.run = NoRun
    BY <2>1, <2>2, <2>3
  <2> QED
    BY <1>3, <2>4, PlainAnswers DEF BeginDeploy
<1>4. CASE SettleStarting
  BY <1>4, PlainAnswer DEF SettleStarting
<1>5. ASSUME UNCHANGED <<nRuns, results>>
      PROVE  UNCHANGED nRuns /\ \A x : ~NewAnswers(x)
  BY <1>5 DEF NewAnswers
<1>6. ASSUME NEW s \in stops, StopFails(s)
      PROVE  UNCHANGED <<nRuns, results>>
  <2>1. \A f : NotStopped(s, f) => UNCHANGED results
    BY DEF NotStopped, Unpublished
  <2>2. UNCHANGED results
    BY <1>6, <2>1 DEF StopFails, EngineStopFails, PackageStopFails, Unpublished
  <2> QED
    BY <1>6, <2>2, StopOutcome DEF StopUnchanged
<1>7. CASE Deployment /\ ~Activate
  BY <1>5, <1>7 DEF Deployment, Staged, Drain, ForceWithoutRun, ForceStop, ActivationFails,
     EndFailedDeploy, ToPhase
<1> QED
  BY <1>1, <1>2, <1>3, <1>4, <1>5, <1>6, <1>7
  DEF CancelActive, OpenRemote, CloseRemote, RemoteClosed, Wake, CleanupDone, CleanupFails, LaunchReturns,
      TimerFires, CleanupAwaited, StopUnchanged, Unpublished, vars

\* A script asks to commit once, before it is told to.
LEMMA ScriptTruth ==
  ASSUME IInv, Truth, NEW r \in 1..nRuns, ScriptStep(r) \/ EngineStarts(r) PROVE Truth'
<1>1. r \in Runs /\ run \in [Runs -> RunState] /\ run[r] \in RunState
  BY RunExists, RunKept DEF SameTasks
<1>2. UNCHANGED <<nRuns, results>>
  BY DEF ScriptStep, EngineStarts
<1>3. \A p \in Runs : /\ run'[p].committed = run[p].committed
                      /\ run'[p].cleaning = run[p].cleaning
                      /\ run'[p].checkpoint = run[p].checkpoint
                         \/ (run[p].checkpoint = "none" /\ run'[p].checkpoint = "written")
  <2>1. \/ run' = [run EXCEPT ![r].checkpoint = "written"] /\ run[r].checkpoint = "none"
        \/ run' = [run EXCEPT ![r].output = TRUE]
        \/ run' = [run EXCEPT ![r].engine = "off"]
        \/ run' = [run EXCEPT ![r].launch = "started", ![r].engine = "on"]
    BY DEF ScriptStep, EngineStarts, WriteCheckpoint, WriteResult, EngineExits
  <2> QED
    BY <1>1, <2>1 DEF RunState
<1>4. \A x : ~NewDenials(x)
  BY <1>2 DEF NewAnswers, NewDenials
<1>5. \A p \in Runs : run'[p].checkpoint = "acked" => run'[p].committed
  BY <1>3 DEF Truth
<1>6. ASSUME NEW x \in results, x.code \in Denials, x.run # NoRun
      PROVE  /\ x.run \in 1..nRuns /\ run'[x.run].cleaning
             /\ run'[x.run].checkpoint # "acked"
  <2>1. x.run \in Runs
    BY <1>6, RunExists DEF Truth
  <2> QED
    BY <1>3, <1>6, <2>1 DEF Truth
<1> QED
  BY <1>2, <1>5, <1>6 DEF Truth

\* The poll acknowledges the checkpoint of the active run only, past its boundary.
LEMMA PollTruth ==
  ASSUME IInv, Truth, NEW r \in 1..nRuns, Poll(r) \/ LaunchFails(r) PROVE Truth'
<1>1. r \in Runs /\ run \in [Runs -> RunState] /\ run[r] \in RunState /\ 1..nRuns \subseteq Runs
  BY RunExists, RunKept DEF SameTasks
<1>2. UNCHANGED nRuns
  BY DEF Poll, PollCheckpoint, AckCheckpoint, PollResult, LaunchFails
<1>3. CASE PollCheckpoint(r) \/ AckCheckpoint(r)
  <2>1. \A x : ~NewDenials(x)
    BY <1>3 DEF PollCheckpoint, AckCheckpoint, NewAnswers, NewDenials
  <2>2. \/ run' = [run EXCEPT ![r].committed = TRUE]
        \/ run' = [run EXCEPT ![r].checkpoint = "acked"] /\ run[r].committed
    BY <1>3 DEF PollCheckpoint, AckCheckpoint
  <2>3. ~run[r].cleaning
    BY <1>3 DEF PollCheckpoint, AckCheckpoint, Current
  <2>4. \A p \in Runs :
          /\ run'[p].cleaning = run[p].cleaning
          /\ run'[p].checkpoint = "acked" =>
               run[p].checkpoint = "acked" \/ (p = r /\ run'[p].committed)
          /\ p # r => run'[p] = run[p]
          /\ run[p].committed => run'[p].committed
    BY <1>1, <2>2 DEF RunState
  <2>5. \A p \in 1..nRuns : run[p].cleaning =>
          run'[p].cleaning /\ run'[p].checkpoint = run[p].checkpoint
    BY <1>1, <2>3, <2>4
  <2>6. \A p \in Runs : run'[p].checkpoint = "acked" => run'[p].committed
    BY <2>4 DEF Truth
  <2> QED
    BY <1>2, <2>1, <2>5, <2>6, TruthKept
<1>4. ASSUME NEW f \in [Runs -> RunState], NEW a, run' = BeginCleanup(f, a),
             \A p \in Runs : Quieter(run[p], f[p]), \A x : ~NewDenials(x)
      PROVE  Truth'
  <2>1. \A p \in Runs : /\ run'[p].committed = run[p].committed
                        /\ run'[p].checkpoint = run[p].checkpoint
                        /\ run[p].cleaning => run'[p].cleaning
    <3> SUFFICES ASSUME NEW p \in Runs
                 PROVE  /\ run'[p].committed = run[p].committed
                        /\ run'[p].checkpoint = run[p].checkpoint
                        /\ run[p].cleaning => run'[p].cleaning
      OBVIOUS
    <3>1. Quieter(run[p], f[p])
      BY <1>4
    <3>2. /\ run'[p].committed = f[p].committed /\ run'[p].checkpoint = f[p].checkpoint
          /\ run'[p].cleaning = (p = a \/ f[p].cleaning)
      BY <1>4, CleanupRuns
    <3> QED
      BY <3>1, <3>2 DEF Quieter
  <2> QED
    BY <1>1, <1>2, <1>4, <2>1, TruthKept DEF Truth
<1>5. CASE PollResult(r)
  <2>1. \A x : ~NewDenials(x)
    BY <1>5, RunAnswer DEF PollResult, NewDenials, Denials
  <2>2. \A p \in Runs : Quieter(run[p], run[p])
    BY <1>1, QuieterRecord
  <2>3. run' = BeginCleanup(run, r)
    BY <1>5 DEF PollResult
  <2> QED
    BY <1>1, <1>4, <2>1, <2>2, <2>3
<1>6. CASE LaunchFails(r)
  <2>1. \A x : ~NewDenials(x)
    BY <1>6, RunAnswer DEF LaunchFails, NewDenials, Denials
  <2>2. PICK f : f = [run EXCEPT ![r].launch = "returned"]
    OBVIOUS
  <2>3. f \in [Runs -> RunState]
    <3>1. SameTasks([run EXCEPT ![r].launch = "returned"])
      BY <1>1, RunKept, RunFieldSet
    <3> QED
      BY <2>2, <3>1 DEF SameTasks
  <2>4. \A p \in Runs : Quieter(run[p], f[p])
    BY <1>1, <2>2 DEF Quieter, RunState
  <2>5. run' = BeginCleanup(f, active)
    BY <1>6, <2>2 DEF LaunchFails
  <2> QED
    BY <1>4, <2>1, <2>3, <2>4, <2>5
<1> QED
  BY <1>3, <1>5, <1>6 DEF Poll

\* A new run has nothing to acknowledge; a new client forgets the runs.
LEMMA StartTruth ==
  ASSUME IInv, Truth, ActivateRun \/ Restarted PROVE Truth'
<1>1. run \in [Runs -> RunState] /\ nRuns \in Nat /\ 1..nRuns \subseteq Runs
  BY RunKept, Parts, TaskExecutorAssumption DEF SameTasks, RestOK, Runs
<1>2. \A x : ~NewDenials(x)
  BY DEF ActivateRun, Restarted, NewAnswers, NewDenials
<1>3. CASE Restarted
  <2>1. \A p \in Runs : run'[p] = [run[p] EXCEPT !.timer = FALSE, !.launch = "returned"]
    BY <1>3 DEF Restarted
  <2>2. ASSUME NEW p \in Runs PROVE Quieter(run[p], run'[p])
    <3>1. run[p] \in RunState
      BY <1>1
    <3>2. PICK q : q = run[p]
      OBVIOUS
    <3>3. Quieter(q, [q EXCEPT !.timer = FALSE, !.launch = "returned"])
      BY <3>1, <3>2, QuieterRecord
    <3>4. run'[p] = [q EXCEPT !.timer = FALSE, !.launch = "returned"]
      BY <2>1, <3>2
    <3> QED
      BY <3>2, <3>3, <3>4
  <2>3. AllQuieter
    BY <2>2 DEF AllQuieter
  <2> QED
    BY <1>2, <1>3, <2>3, TruthKeptQuietly DEF Restarted
<1>4. CASE ActivateRun
  <2>1. \A p \in Runs : run'[p] = IF p = nRuns + 1 THEN NewRun(starting) ELSE run[p]
    BY <1>1, <1>4 DEF ActivateRun
  <2>2. NewRun(starting).checkpoint = "none"
    BY DEF NewRun
  <2>3. \A p \in Runs : run'[p].checkpoint = "acked" => run'[p].committed
    BY <2>1, <2>2 DEF Truth
  <2>4. \A p \in 1..nRuns : p # nRuns + 1
    BY <1>1
  <2>5. nRuns' = nRuns + 1
    BY <1>4 DEF ActivateRun
  <2> QED
    BY <1>1, <1>2, <2>1, <2>3, <2>4, <2>5, TruthKept
<1> QED
  BY <1>3, <1>4

LEMMA NextTruth == ASSUME IInv, Truth, [Next]_vars PROVE Truth'
<1>1. CASE \/ \E t \in Tasks : EnqueueTask(t) \/ CancelQueued(t) \/ CancelActive(t)
           \/ \E mode \in DeployModes : BeginDeploy(mode)
           \/ OpenRemote \/ CloseRemote \/ RemoteClosed \/ Wake \/ SettleStarting \/ CleanupDone
           \/ CleanupFails \/ (Deployment /\ ~Activate) \/ UNCHANGED vars
           \/ \E r \in 1..nRuns : LaunchReturns(r) \/ TimerFires(r)
           \/ \E s \in stops : StopFails(s) \/ CleanupAwaited(s)
  BY <1>1, QuieterSteps, QuieterAnswers, TruthKeptQuietly DEF NewDenials
<1>2. CASE \E r \in 1..nRuns : ScriptStep(r) \/ EngineStarts(r) \/ Poll(r) \/ LaunchFails(r)
  BY <1>2, ScriptTruth, PollTruth
<1>3. CASE \E s \in stops : StopSucceeds(s)
  BY <1>3, StopSucceedsTruth
<1>4. CASE ActivateRun \/ Crash \/ Exit \/ Activate
  BY <1>4, StartTruth DEF Crash, Exit, Activate
<1> QED
  BY <1>1, <1>2, <1>3, <1>4 DEF Next, External, Launch, Deployment

\* A run reported as timed out, cancelled or forced, with no word about a side effect,
\* was never told to commit one and never will be, whatever raced with its stop.
THEOREM CommitIsTold == Spec => []CommitTruthful
<1>1. Init => Truth
  <2> SUFFICES ASSUME Init PROVE Truth
    OBVIOUS
  <2>1. \A r \in Runs : run[r] = NoRunYet
    BY DEF Init
  <2>2. NoRunYet.checkpoint = "none"
    BY DEF NoRunYet, NewRun
  <2> QED
    BY <2>1, <2>2 DEF Init, Truth
<1>2. IInv /\ Truth /\ [Next]_vars => Truth'
  BY NextTruth
<1>3. Truth => CommitTruthful
  BY DEF Truth, CommitTruthful, Denials
<1> QED
  BY <1>1, <1>2, <1>3, Invariance, PTL DEF Spec

-----------------------------------------------------------------------------
(* The scripts of the runs that were answered.                              *)

\* How a run may change without coming back to life after its answer.
Ages(q, z) ==
  /\ q.cleaning => z.cleaning
  /\ q.launch = "returned" => z.launch = "returned"
  /\ z.launched => q.launched \/ (Launchable(q) /\ z.launch = "returned")
  /\ Working(z) => Working(q) \/ q.launch = "pending"

LEMMA QuieterAges == ASSUME NEW q, NEW z, Quieter(q, z) PROVE Ages(q, z)
BY DEF Quieter, Ages, Working

\* Answers stay settled when no run comes back to life and the new ones are settled.
LEMMA SettledKept ==
  ASSUME IInv, Settled, nRuns' \in {nRuns, nRuns + 1},
         \A p \in Runs : Ages(run[p], run'[p]) \/ (p \notin 1..nRuns /\ ~run'[p].launched),
         \A x : NewAnswers(x) =>
           /\ x.run \in 1..nRuns
           /\ run'[x.run].cleaning \/ run'[x.run].launch = "returned"
           /\ run'[x.run].launched => ~Working(run'[x.run])
  PROVE  Settled'
<1>1. nRuns \in Nat /\ 1..nRuns \subseteq Runs
  BY Parts, TaskExecutorAssumption DEF RestOK, Runs
<1>2. 1..nRuns \subseteq 1..nRuns'
  BY <1>1
<1>3. \A p \in Runs : run'[p].launched => run'[p].launch = "returned"
  BY DEF Settled, Ages
<1>4. ASSUME NEW x \in results', x.run # NoRun
      PROVE  /\ x.run \in 1..nRuns'
             /\ run'[x.run].cleaning \/ run'[x.run].launch = "returned"
             /\ run'[x.run].launched => ~Working(run'[x.run])
  <2>1. CASE x \in results
    <3>1. PICK p \in 1..nRuns : p = x.run
      BY <1>4, <2>1 DEF Settled
    <3>2. /\ run[p].cleaning \/ run[p].launch = "returned"
          /\ run[p].launched => ~Working(run[p])
          /\ run[p].launched => run[p].launch = "returned"
      BY <1>1, <1>4, <2>1, <3>1 DEF Settled
    <3>3. Ages(run[p], run'[p])
      BY <1>1
    <3>4. run'[p].cleaning \/ run'[p].launch = "returned"
      BY <3>2, <3>3 DEF Ages
    <3>5. run'[p].launched => run[p].launched
      BY <3>2, <3>3 DEF Ages, Launchable
    <3>6. run'[p].launched => ~Working(run'[p])
      BY <3>2, <3>3, <3>5 DEF Ages
    <3> QED
      BY <1>2, <3>1, <3>4, <3>6
  <2>2. CASE x \notin results
    BY <1>2, <1>4, <2>2 DEF NewAnswers
  <2> QED
    BY <2>1, <2>2
<1> QED
  BY <1>3, <1>4 DEF Settled, Working

LEMMA SettledQuietly ==
  ASSUME IInv, Settled, AllQuieter, UNCHANGED nRuns, \A x : ~NewAnswers(x)
  PROVE  Settled'
<1>1. \A p \in Runs : Ages(run[p], run'[p])
  BY QuieterAges DEF AllQuieter
<1> QED
  BY <1>1, SettledKept

\* A cleanup begins, and one run is answered by whom it is over.
LEMMA SettledAnswer ==
  ASSUME IInv, Settled, UNCHANGED nRuns, NEW f \in [Runs -> RunState],
         \A p \in Runs : Quieter(run[p], f[p]),
         NEW a, run' = BeginCleanup(f, a), NEW r \in 1..nRuns,
         \A x : NewAnswers(x) => x.run = r,
         r = a \/ f[r].launch = "returned", f[r].launched => ~Working(f[r])
  PROVE  Settled'
<1>1. \A p \in Runs : /\ run'[p].output = f[p].output /\ run'[p].engine = f[p].engine
                      /\ run'[p].launch = f[p].launch /\ run'[p].launched = f[p].launched
                      /\ run'[p].cleaning = (p = a \/ f[p].cleaning)
  BY CleanupRuns
<1>2. ASSUME NEW p \in Runs PROVE Ages(run[p], run'[p])
  <2>1. Ages(run[p], f[p])
    BY QuieterAges
  <2> QED
    BY <1>1, <2>1 DEF Ages, Working
<1>3. r \in Runs
  BY RunExists
<1>4. /\ run'[r].cleaning \/ run'[r].launch = "returned"
      /\ run'[r].launched => ~Working(run'[r])
  BY <1>1, <1>3 DEF Working
<1> QED
  BY <1>2, <1>4, SettledKept

\* A script and the poll of its checkpoint write one field of one run, or two.
LEMMA RunSteps ==
  ASSUME IInv, NEW r \in 1..nRuns,
         ScriptStep(r) \/ EngineStarts(r) \/ PollCheckpoint(r) \/ AckCheckpoint(r)
  PROVE  \E q : /\ run' = [run EXCEPT ![r] = q]
                /\ \/ \E c \in {"written", "acked"} : q = [run[r] EXCEPT !.checkpoint = c]
                   \/ q = [run[r] EXCEPT !.committed = TRUE]
                   \/ q = [run[r] EXCEPT !.output = TRUE]
                   \/ q = [run[r] EXCEPT !.engine = "off"]
                   \/ /\ run[r].launch = "pending"
                      /\ q = [run[r] EXCEPT !.launch = "started", !.engine = "on"]
<1>1. r \in Runs /\ run \in [Runs -> RunState]
  BY RunExists, RunKept DEF SameTasks
<1>2. CASE EngineStarts(r)
  <2>1. run' = [run EXCEPT ![r] = [run[r] EXCEPT !.launch = "started", !.engine = "on"]]
    BY <1>1, <1>2 DEF EngineStarts
  <2>2. run[r].launch = "pending"
    BY <1>2 DEF EngineStarts
  <2> QED
    BY <2>1, <2>2
<1>3. CASE ~EngineStarts(r)
  BY <1>3 DEF ScriptStep, WriteCheckpoint, WriteResult, EngineExits, PollCheckpoint,
     AckCheckpoint
<1> QED
  BY <1>2, <1>3

LEMMA ScriptSettled ==
  ASSUME IInv, Settled, NEW r \in 1..nRuns,
         ScriptStep(r) \/ EngineStarts(r) \/ PollCheckpoint(r) \/ AckCheckpoint(r)
  PROVE  Settled'
<1>1. r \in Runs /\ run \in [Runs -> RunState] /\ \A p \in Runs : run[p] \in RunState
  BY RunExists, RunKept DEF SameTasks
<1>2. UNCHANGED nRuns /\ \A x : ~NewAnswers(x)
  BY DEF ScriptStep, EngineStarts, PollCheckpoint, AckCheckpoint, NewAnswers
<1>3. PICK q :
        /\ run' = [run EXCEPT ![r] = q]
        /\ \/ \E c \in {"written", "acked"} : q = [run[r] EXCEPT !.checkpoint = c]
           \/ q = [run[r] EXCEPT !.committed = TRUE]
           \/ q = [run[r] EXCEPT !.output = TRUE]
           \/ q = [run[r] EXCEPT !.engine = "off"]
           \/ /\ run[r].launch = "pending"
              /\ q = [run[r] EXCEPT !.launch = "started", !.engine = "on"]
  BY RunSteps
<1>4. Ages(run[r], q)
  BY <1>1, <1>3 DEF Ages, Working, RunState
<1>5. \A p \in Runs : Ages(run[p], run[p])
  BY <1>1, QuieterRecord, QuieterAges
<1>6. \A p \in Runs : Ages(run[p], run'[p])
  BY <1>1, <1>3, <1>4, <1>5
<1> QED
  BY <1>2, <1>6, SettledKept

\* A result answers for a script that has written it, a failed launch for a run that
\* never looked launched.
LEMMA PollSettled ==
  ASSUME IInv, Settled, NEW r \in 1..nRuns, PollResult(r) \/ LaunchFails(r) PROVE Settled'
<1>1. r \in Runs /\ run \in [Runs -> RunState] /\ run[r] \in RunState
  BY RunExists, RunKept DEF SameTasks
<1>2. UNCHANGED nRuns /\ \A x : NewAnswers(x) => x.run = r
  BY RunAnswer DEF PollResult, LaunchFails
<1>3. CASE PollResult(r)
  <2>1. \A p \in Runs : Quieter(run[p], run[p])
    BY <1>1, QuieterRecord
  <2>2. run' = BeginCleanup(run, r) /\ ~Working(run[r])
    BY <1>3 DEF PollResult, Working
  <2> QED
    BY <1>1, <1>2, <2>1, <2>2, SettledAnswer
<1>4. CASE LaunchFails(r)
  <2>1. PICK f : f = [run EXCEPT ![r].launch = "returned"]
    OBVIOUS
  <2>2. f \in [Runs -> RunState]
    <3>1. SameTasks([run EXCEPT ![r].launch = "returned"])
      BY <1>1, RunKept, RunFieldSet
    <3> QED
      BY <2>1, <3>1 DEF SameTasks
  <2>3. \A p \in Runs : Quieter(run[p], f[p])
    BY <1>1, <2>1 DEF Quieter, RunState
  <2>4. run' = BeginCleanup(f, active)
    BY <1>4, <2>1 DEF LaunchFails
  <2>5. run[r].launch # "returned"
    BY <1>4 DEF LaunchFails
  <2>6. ~run[r].launched
    BY <1>1, <2>5 DEF Settled
  <2>7. f[r].launch = "returned" /\ ~f[r].launched
    BY <1>1, <2>1, <2>6 DEF RunState
  <2> QED
    BY <1>2, <2>2, <2>3, <2>4, <2>7, SettledAnswer
<1> QED
  BY <1>3, <1>4

\* A handler that answers for a run has seen its script stopped.
LEMMA StopSettled ==
  ASSUME IInv, Settled, NEW s \in stops, StopSucceeds(s) PROVE Settled'
<1>1. s.run \in Runs /\ UNCHANGED nRuns
  BY StopExists, StopOutcome DEF StopUnchanged
<1>2. PICK f \in [Runs -> RunState] :
        /\ Stopped(s, f) /\ f[s.run].engine = "off"
        /\ \A p \in Runs : Quieter(run[p], f[p])
  BY StopRuns
<1>3. CASE active = s.run
  <2>1. run' = BeginCleanup(f, s.run) /\ ~Working(f[s.run])
    BY <1>2, <1>3 DEF Stopped, Working
  <2>2. \A x : NewAnswers(x) => x.run = s.run
    BY <1>2, <1>3, RunAnswer DEF Stopped
  <2>3. s.run \in 1..nRuns
    BY <1>1, <1>3, ActiveExists, TaskExecutorAssumption DEF NoRun, Runs
  <2> QED
    BY <1>1, <1>2, <2>1, <2>2, <2>3, SettledAnswer
<1>4. CASE active # s.run
  <2>1. run' = f /\ UNCHANGED results
    BY <1>4, <1>2 DEF Stopped, Unpublished
  <2>2. AllQuieter /\ \A x : ~NewAnswers(x)
    BY <1>2, <2>1 DEF AllQuieter, NewAnswers
  <2> QED
    BY <1>1, <2>2, SettledQuietly
<1> QED
  BY <1>3, <1>4

\* A new run is not launched yet; for a new client every launch is over.
LEMMA StartSettled ==
  ASSUME IInv, Settled, ActivateRun \/ Restarted PROVE Settled'
<1>1. run \in [Runs -> RunState] /\ nRuns \in Nat /\ 1..nRuns \subseteq Runs
  BY RunKept, Parts, TaskExecutorAssumption DEF SameTasks, RestOK, Runs
<1>2. \A x : ~NewAnswers(x)
  BY DEF ActivateRun, Restarted, NewAnswers
<1>3. CASE Restarted
  <2>1. ASSUME NEW p \in Runs PROVE Quieter(run[p], run'[p])
    <3>1. PICK q \in RunState : q = run[p]
      BY <1>1
    <3>2. Quieter(q, [q EXCEPT !.timer = FALSE, !.launch = "returned"])
      BY QuieterRecord
    <3>3. run'[p] = [q EXCEPT !.timer = FALSE, !.launch = "returned"]
      BY <1>3, <3>1 DEF Restarted
    <3> QED
      BY <3>1, <3>2, <3>3
  <2>2. AllQuieter
    BY <2>1 DEF AllQuieter
  <2> QED
    BY <1>2, <1>3, <2>2, SettledQuietly DEF Restarted
<1>4. CASE ActivateRun
  <2>1. \A p \in Runs : run'[p] = IF p = nRuns + 1 THEN NewRun(starting) ELSE run[p]
    BY <1>1, <1>4 DEF ActivateRun
  <2>2. ~NewRun(starting).launched
    BY DEF NewRun
  <2>3. nRuns + 1 \notin 1..nRuns /\ nRuns' = nRuns + 1
    BY <1>1, <1>4 DEF ActivateRun
  <2>4. \A p \in Runs : Ages(run[p], run[p])
    BY <1>1, QuieterRecord, QuieterAges
  <2>5. \A p \in Runs : Ages(run[p], run'[p]) \/ (p \notin 1..nRuns /\ ~run'[p].launched)
    BY <2>1, <2>2, <2>3, <2>4
  <2> QED
    BY <1>2, <2>3, <2>5, SettledKept
<1> QED
  BY <1>3, <1>4

LEMMA NextSettled == ASSUME IInv, Settled, [Next]_vars PROVE Settled'
<1>1. CASE \/ \E t \in Tasks : EnqueueTask(t) \/ CancelQueued(t) \/ CancelActive(t)
           \/ \E mode \in DeployModes : BeginDeploy(mode)
           \/ OpenRemote \/ CloseRemote \/ RemoteClosed \/ Wake \/ SettleStarting \/ CleanupDone
           \/ CleanupFails \/ (Deployment /\ ~Activate) \/ UNCHANGED vars
           \/ \E r \in 1..nRuns : LaunchReturns(r) \/ TimerFires(r)
           \/ \E s \in stops : StopFails(s) \/ CleanupAwaited(s)
  BY <1>1, QuieterSteps, QuieterAnswers, SettledQuietly
<1>2. CASE \E r \in 1..nRuns : ScriptStep(r) \/ EngineStarts(r) \/ Poll(r) \/ LaunchFails(r)
  BY <1>2, ScriptSettled, PollSettled DEF Poll
<1>3. CASE \E s \in stops : StopSucceeds(s)
  BY <1>3, StopSettled
<1>4. CASE ActivateRun \/ Crash \/ Exit \/ Activate
  BY <1>4, StartSettled DEF Crash, Exit, Activate
<1> QED
  BY <1>1, <1>2, <1>3, <1>4 DEF Next, External, Launch, Deployment

\* A task whose start was seen and which has been answered has no script at work: every
\* handler that answers for such a run has its result or has seen its script stopped,
\* also when launches come late or fail late, deployments are forced or the client crashes.
THEOREM AnsweredIsStopped == Spec => []StoppedForGood
<1>1. Init => Settled
  <2> SUFFICES ASSUME Init PROVE Settled
    OBVIOUS
  <2>1. \A r \in Runs : run[r] = NoRunYet
    BY DEF Init
  <2>2. ~NoRunYet.launched
    BY DEF NoRunYet, NewRun
  <2> QED
    BY <2>1, <2>2 DEF Init, Settled
<1>2. IInv /\ Settled /\ [Next]_vars => Settled'
  BY NextSettled
<1>3. Settled => StoppedForGood
  BY DEF Settled, StoppedForGood, Working
<1> QED
  BY <1>1, <1>2, <1>3, Invariance, PTL DEF Spec

-----------------------------------------------------------------------------
(* One life of the client, in which no launch fails late.                   *)

LEMMA AliveStays == ASSUME IInv, Alive, [Next]_vars PROVE Alive'
<1>1. budget \in Budgets
  BY Parts DEF RestOK, Budgets
<1>2. ~Spend("crash")
  BY <1>1 DEF Alive, Spend, Budgets
<1>3. \A kind : Spend(kind) /\ kind # "crash" => budget'["crash"] = 0
  BY <1>1 DEF Alive, Spend, Budgets
<1>4. ASSUME UNCHANGED <<exiting, budget>> PROVE Alive'
  BY <1>4 DEF Alive
<1>5. ASSUME NEW kind, Spend(kind), kind # "crash", UNCHANGED exiting PROVE Alive'
  BY <1>3, <1>5 DEF Alive
<1>6. CASE \E t \in Tasks : EnqueueTask(t)
  BY <1>5, <1>6 DEF EnqueueTask
<1>7. CASE \E t \in Tasks : CancelQueued(t)
  BY <1>5, <1>7 DEF CancelQueued
<1>8. CASE \E t \in Tasks : CancelActive(t)
  BY <1>5, <1>8 DEF CancelActive
<1>9. CASE (\E mode \in DeployModes : BeginDeploy(mode)) \/ OpenRemote
  BY <1>5, <1>9 DEF BeginDeploy, OpenRemote
<1>10. CASE Crash \/ CleanupFails
  BY <1>2, <1>10 DEF Crash, CleanupFails
<1>11. CASE Exit
  BY <1>11 DEF Exit, Alive
<1>12. CASE Activate
  BY <1>12 DEF Activate, Restarted, Alive
<1>13. CASE SettleStarting
  BY <1>2, <1>4, <1>13 DEF SettleStarting
<1>14. CASE \/ Wake \/ ActivateRun \/ CleanupDone \/ CloseRemote \/ RemoteClosed
            \/ UNCHANGED vars
  BY <1>4, <1>14 DEF Wake, ActivateRun, CleanupDone, CloseRemote, RemoteClosed, vars
<1>15. CASE \E r \in 1..nRuns : Launch(r) \/ Poll(r) \/ ScriptStep(r) \/ TimerFires(r)
  BY <1>4, <1>15 DEF Launch, EngineStarts, LaunchReturns, LaunchFails, Poll, PollCheckpoint,
     AckCheckpoint, PollResult, ScriptStep, TimerFires
<1>16. CASE \E s \in stops : StopSucceeds(s) \/ StopFails(s) \/ CleanupAwaited(s)
  BY <1>4, <1>16, StopOutcome DEF StopUnchanged
<1>17. CASE Deployment /\ ~Activate
  BY <1>4, <1>17 DEF Deployment, Staged, Drain, ForceWithoutRun, ForceStop, ActivationFails,
     EndFailedDeploy, ToPhase
<1> QED
  BY <1>6, <1>7, <1>8, <1>9, <1>10, <1>11, <1>12, <1>13, <1>14, <1>15, <1>16, <1>17
  DEF Next, External

\* A step that answers nobody but tasks it also stops tracking, and takes on at most a
\* task it tracks from then on.
LEMMA AnswersKept ==
  ASSUME IInv, Answers, UNCHANGED active, owed' \subseteq queuedIds',
         \A p \in Runs : run'[p].task = run[p].task /\ run'[p].cleaning = run[p].cleaning,
         active # NoRun => run[active].task \notin owed' \ owed
  PROVE  Answers'
<1>1. active # NoRun => active \in Runs
  BY ActiveExists
<1> QED
  BY <1>1 DEF Answers

\* A run that is answered when its cleanup begins.
LEMMA AnswersRun ==
  ASSUME IInv, Answers, UNCHANGED <<active, queuedIds>>, active # NoRun,
         NEW f \in [Runs -> RunState], f[active].task = run[active].task,
         run' = BeginCleanup(f, active), owed' = owed \ {run[active].task}
  PROVE  Answers'
<1>1. active \in Runs
  BY ActiveExists
<1>2. run'[active].task = run[active].task
  BY <1>1, CleanupRuns
<1> QED
  BY <1>2 DEF Answers

\* The task of the run in the slot is tracked.
LEMMA ActiveTracked ==
  ASSUME IInv, active # NoRun
  PROVE  run[active].task \in queuedIds /\ run[active].task \notin Waiting(queue)
BY Parts DEF HolderOf

\* The tasks that a step answers are owed nothing more.
LEMMA PublishOne ==
  ASSUME NEW t, NEW r, NEW c, Publish({Result(t, r, c)}) PROVE owed' = owed \ {t}
<1>1. {x.task : x \in {Result(t, r, c)}} = {t}
  BY DEF Result
<1> QED
  BY <1>1 DEF Publish

LEMMA EnqueueAnswers ==
  ASSUME IInv, Answers, NEW t \in Tasks, EnqueueTask(t) PROVE Answers'
<1>1. UNCHANGED active /\ AllQuieter
  BY QuieterSteps DEF EnqueueTask
<1>2. \A p \in Runs : run'[p].task = run[p].task /\ run'[p].cleaning = run[p].cleaning
  BY <1>1 DEF AllQuieter, Quieter
<1>3. CASE RefuseDraining(t) \/ IgnoreDuplicate(t) \/ RefuseFull(t)
  <2>1. owed' \subseteq owed /\ queuedIds' = queuedIds
    BY <1>3, PublishOne DEF RefuseDraining, IgnoreDuplicate, RefuseFull, Unpublished
  <2> QED
    BY <1>1, <1>2, <2>1, AnswersKept DEF Answers
<1>4. ASSUME NEW q, NEW evicted, Enter(t, q, evicted), t \notin queuedIds PROVE Answers'
  <2>1. queuedIds' = (queuedIds \ evicted) \cup {t} /\ owed' = (owed \ evicted) \cup {t}
    BY <1>4 DEF Enter
  <2>2. owed' \subseteq queuedIds'
    BY <2>1 DEF Answers
  <2>3. active # NoRun => run[active].task \notin owed' \ owed
    BY <1>4, <2>1, ActiveTracked
  <2> QED
    BY <1>1, <1>2, <2>2, <2>3, AnswersKept
<1>5. CASE Accept(t)
  BY <1>4, <1>5 DEF Accept
<1>6. CASE AcceptEvicting(t)
  BY <1>4, <1>6 DEF AcceptEvicting
<1> QED
  BY <1>3, <1>5, <1>6 DEF EnqueueTask

LEMMA QueueAnswers ==
  ASSUME IInv, Answers,
         \/ \E t \in Tasks : CancelQueued(t)
         \/ \E mode \in DeployModes : BeginDeploy(mode)
         \/ SettleStarting \/ CleanupDone
  PROVE  Answers'
<1>1. AllQuieter
  BY QuieterSteps
<1>2. \A p \in Runs : run'[p].task = run[p].task /\ run'[p].cleaning = run[p].cleaning
  BY <1>1 DEF AllQuieter, Quieter
<1>3. ASSUME NEW S, UNCHANGED active, owed' = owed \ S, queuedIds' = queuedIds \ S
      PROVE  Answers'
  <2>1. owed' \subseteq queuedIds' /\ owed' \subseteq owed
    BY <1>3 DEF Answers
  <2> QED
    BY <1>2, <1>3, <2>1, AnswersKept
<1>4. ASSUME NEW t \in Tasks, CancelQueued(t) PROVE Answers'
  <2>1. PICK S : S = {t}
    OBVIOUS
  <2>2. UNCHANGED active /\ owed' = owed \ S /\ queuedIds' = queuedIds \ S
    BY <1>4, <2>1, PublishOne DEF CancelQueued
  <2> QED
    BY <1>3, <2>2
<1>5. ASSUME NEW mode \in DeployModes, BeginDeploy(mode) PROVE Answers'
  <2>1. PICK S : S = Waiting(queue)
    OBVIOUS
  <2>2. PICK P : P = {Result(t, NoRun, "DRAINING") : t \in S}
    OBVIOUS
  <2>3. {x.task : x \in P} = S
    <3>1. \A t \in S : Result(t, NoRun, "DRAINING").task = t
      BY DEF Result
    <3> QED
      BY <2>2, <3>1
  <2>4. owed' = owed \ {x.task : x \in P}
    BY <1>5, <2>1, <2>2 DEF BeginDeploy, Publish
  <2>5. UNCHANGED active /\ owed' = owed \ S /\ queuedIds' = queuedIds \ S
    BY <1>5, <2>1, <2>3, <2>4 DEF BeginDeploy
  <2> QED
    BY <1>3, <2>5
<1>6. CASE SettleStarting
  <2>1. PICK S : S = {starting}
    OBVIOUS
  <2>2. UNCHANGED active /\ owed' = owed \ S /\ queuedIds' = queuedIds \ S
    BY <1>6, <2>1, PublishOne DEF SettleStarting
  <2> QED
    BY <1>3, <2>2
<1>7. CASE CleanupDone
  BY <1>7 DEF CleanupDone, Answers
<1> QED
  BY <1>4, <1>5, <1>6, <1>7

LEMMA RunAnswers ==
  ASSUME ~LateFailure, IInv, Answers, NEW r \in 1..nRuns,
         LaunchFails(r) \/ PollResult(r)
  PROVE  Answers'
<1>1. r \in Runs /\ run \in [Runs -> RunState] /\ r # NoRun
  BY RunExists, RunKept, TaskExecutorAssumption DEF SameTasks, NoRun, Runs
<1>2. active = r /\ UNCHANGED <<active, queuedIds>>
  BY DEF LaunchFails, PollResult, Current
<1>3. owed' = owed \ {run[active].task}
  BY <1>2, PublishOne DEF LaunchFails, PollResult
<1>4. CASE PollResult(r)
  <2>1. run' = BeginCleanup(run, active)
    BY <1>2, <1>4 DEF PollResult
  <2> QED
    BY <1>1, <1>2, <1>3, <2>1, AnswersRun
<1>5. CASE LaunchFails(r)
  <2>1. PICK f : f = [run EXCEPT ![r].launch = "returned"]
    OBVIOUS
  <2>2. f \in [Runs -> RunState] /\ f[r].task = run[r].task
    <3>1. SameTasks([run EXCEPT ![r].launch = "returned"])
      BY <1>1, RunKept, RunFieldSet
    <3> QED
      BY <1>1, <2>1, <3>1 DEF SameTasks
  <2>3. run' = BeginCleanup(f, active)
    BY <1>5, <2>1 DEF LaunchFails
  <2> QED
    BY <1>1, <1>2, <1>3, <2>2, <2>3, AnswersRun
<1> QED
  BY <1>4, <1>5

LEMMA StopAnswers ==
  ASSUME IInv, Answers, NEW s \in stops, StopSucceeds(s) PROVE Answers'
<1>1. /\ s.run \in Runs /\ UNCHANGED <<active, queuedIds>> /\ run \in [Runs -> RunState]
      /\ s.run # NoRun
  BY StopExists, StopOutcome, TaskExecutorAssumption
  DEF StopUnchanged, SameTasks, NoRun, Runs
<1>2. PICK f \in [Runs -> RunState] :
        Stopped(s, f) /\ \A p \in Runs : Quieter(run[p], f[p])
  BY StopRuns
<1>3. CASE active = s.run
  <2>1. /\ run' = BeginCleanup(f, active)
        /\ Publish({Result(run[active].task, active, Verdict(s.by, run[active].committed))})
    BY <1>2, <1>3 DEF Stopped
  <2>2. owed' = owed \ {run[active].task}
    BY <2>1, PublishOne
  <2>3. f[active].task = run[active].task
    BY <1>1, <1>2, <1>3 DEF Quieter
  <2> QED
    BY <1>1, <1>2, <1>3, <2>1, <2>2, <2>3, AnswersRun
<1>4. CASE active # s.run
  <2>1. run' = f /\ owed' = owed
    BY <1>2, <1>4 DEF Stopped, Unpublished
  <2>2. \A p \in Runs : run'[p].task = run[p].task /\ run'[p].cleaning = run[p].cleaning
    BY <1>2, <2>1 DEF Quieter
  <2> QED
    BY <1>1, <2>1, <2>2, AnswersKept DEF Answers
<1> QED
  BY <1>3, <1>4

\* A run takes the slot, or the phone is handed to the next release with nothing owed.
LEMMA SlotAnswers == ASSUME IInv, Answers, ActivateRun \/ Activate PROVE Answers'
<1>1. CASE ActivateRun
  <2>1. run' = [run EXCEPT ![nRuns + 1] = NewRun(starting)] /\ active' = nRuns + 1
        /\ UNCHANGED <<queuedIds, owed>> /\ nRuns < MaxRuns
    BY <1>1 DEF ActivateRun
  <2>2. nRuns + 1 \in Runs /\ run \in [Runs -> RunState]
    BY <2>1, RunKept, Parts, TaskExecutorAssumption DEF SameTasks, RestOK, Runs
  <2>3. ~NewRun(starting).cleaning
    BY DEF NewRun
  <2>4. ~run'[active'].cleaning
    BY <2>1, <2>2, <2>3
  <2> QED
    BY <2>1, <2>4 DEF Answers
<1>2. CASE Activate
  <2>1. deploy.phase = "activating" /\ active' = NoRun /\ owed' = owed /\ queuedIds' = {}
    BY <1>2 DEF Activate, Restarted
  <2>2. active = NoRun /\ starting = NoTask /\ queue = <<>>
    BY <2>1, DeployParts DEF Blocked
  <2>3. Waiting(queue) = {} /\ HolderOf(starting, active, run) = {}
    BY <2>2 DEF Waiting, HolderOf
  <2>4. queuedIds = {}
    BY <2>3, Parts
  <2> QED
    BY <2>1, <2>4 DEF Answers
<1> QED
  BY <1>1, <1>2

LEMMA NextAnswers ==
  ASSUME ~LateFailure, IInv, Alive, Answers, [Next]_vars PROVE Answers'
<1>1. \A p \in Runs : run[p] \in RunState
  BY RunKept DEF SameTasks
<1>2. ASSUME \A p \in Runs : run'[p].task = run[p].task /\ run'[p].cleaning = run[p].cleaning,
             UNCHANGED <<active, owed, queuedIds>>
      PROVE  Answers'
  BY <1>2, AnswersKept DEF Answers
<1>3. ASSUME AllQuieter, UNCHANGED <<active, owed, queuedIds>> PROVE Answers'
  BY <1>2, <1>3 DEF AllQuieter, Quieter
<1>4. ASSUME NEW t \in Tasks, CancelActive(t) PROVE Answers'
  BY <1>3, <1>4, QuieterSteps DEF CancelActive
<1>5. CASE OpenRemote \/ CloseRemote \/ RemoteClosed \/ Wake \/ CleanupFails \/ UNCHANGED vars
  BY <1>3, <1>5, QuieterSteps DEF OpenRemote, CloseRemote, RemoteClosed, Wake, CleanupFails, vars
<1>6. CASE Deployment /\ ~Activate
  <2>1. UNCHANGED <<active, owed, queuedIds>>
    BY <1>6 DEF Deployment, Staged, Drain, ForceWithoutRun, ForceStop, ActivationFails,
       EndFailedDeploy, ToPhase
  <2> QED
    BY <1>3, <1>6, <2>1, QuieterSteps
<1>7. ASSUME NEW r \in 1..nRuns, LaunchReturns(r) \/ TimerFires(r) PROVE Answers'
  <2>1. UNCHANGED <<active, owed, queuedIds>>
    BY <1>7 DEF LaunchReturns, TimerFires
  <2> QED
    BY <1>3, <1>7, <2>1, QuieterSteps
<1>8. ASSUME NEW s \in stops, StopFails(s) \/ CleanupAwaited(s) PROVE Answers'
  <2>1. UNCHANGED <<active, queuedIds>>
    BY <1>8, StopOutcome DEF StopUnchanged
  <2>2. \A f : NotStopped(s, f) => UNCHANGED owed
    BY DEF NotStopped, Unpublished
  <2>3. UNCHANGED owed
    BY <1>8, <2>2 DEF StopFails, EngineStopFails, PackageStopFails, CleanupAwaited, Unpublished
  <2> QED
    BY <1>3, <1>8, <2>1, <2>3, QuieterSteps
<1>9. ASSUME NEW r \in 1..nRuns,
             ScriptStep(r) \/ EngineStarts(r) \/ PollCheckpoint(r) \/ AckCheckpoint(r)
      PROVE  Answers'
  <2>1. UNCHANGED <<active, owed, queuedIds>> /\ r \in Runs /\ run \in [Runs -> RunState]
    BY <1>9, RunExists, RunKept DEF ScriptStep, EngineStarts, PollCheckpoint, AckCheckpoint,
       SameTasks
  <2>2. PICK q : /\ run' = [run EXCEPT ![r] = q]
                 /\ \/ \E c \in {"written", "acked"} : q = [run[r] EXCEPT !.checkpoint = c]
                    \/ q = [run[r] EXCEPT !.committed = TRUE]
                    \/ q = [run[r] EXCEPT !.output = TRUE]
                    \/ q = [run[r] EXCEPT !.engine = "off"]
                    \/ q = [run[r] EXCEPT !.launch = "started", !.engine = "on"]
    BY <1>9, RunSteps
  <2>3. q.task = run[r].task /\ q.cleaning = run[r].cleaning
    BY <1>1, <2>1, <2>2 DEF RunState
  <2>4. \A p \in Runs : run'[p].task = run[p].task /\ run'[p].cleaning = run[p].cleaning
    BY <2>1, <2>2, <2>3
  <2> QED
    BY <1>2, <2>1, <2>4
<1>10. ~Crash /\ ~Exit
  <2>1. budget \in Budgets
    BY Parts DEF RestOK, Budgets
  <2> QED
    BY <2>1 DEF Alive, Crash, Exit, Spend, Budgets
<1>11. CASE \E t \in Tasks : EnqueueTask(t)
  BY <1>11, EnqueueAnswers
<1>12. CASE \/ \E t \in Tasks : CancelQueued(t)
            \/ \E mode \in DeployModes : BeginDeploy(mode)
            \/ SettleStarting \/ CleanupDone
  BY <1>12, QueueAnswers
<1>13. CASE \E r \in 1..nRuns : LaunchFails(r) \/ PollResult(r)
  BY <1>13, RunAnswers
<1>14. CASE \E s \in stops : StopSucceeds(s)
  BY <1>14, StopAnswers
<1>15. CASE ActivateRun \/ Activate
  BY <1>15, SlotAnswers
<1> QED
  BY <1>4, <1>5, <1>6, <1>7, <1>8, <1>9, <1>10, <1>11, <1>12, <1>13, <1>14, <1>15
  DEF Next, External, Launch, Poll, Deployment

LEMMA InitLife == ASSUME MaxCrashes = 0, Init PROVE Alive /\ Answers
BY DEF Init, Alive, Answers

\* While one client runs, and no launch fails late, every task it has accepted is
\* tracked until somebody has been told how it ended, whatever is evicted, cancelled,
\* preempted or answered by a deployment in the meantime.
THEOREM NothingIsDropped ==
  ASSUME ~LateFailure, MaxCrashes = 0 PROVE Spec => []NoSilentDrop
<1>1. Init => Alive /\ Answers
  BY InitLife
<1>2. IInv /\ Alive /\ Answers /\ [Next]_vars => Alive' /\ Answers'
  BY AliveStays, NextAnswers
<1>3. Answers => NoSilentDrop
  BY DEF Answers, NoSilentDrop
<1> QED
  BY <1>1, <1>2, <1>3, Invariance, PTL DEF Spec
=============================================================================
