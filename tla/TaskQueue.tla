------------------------------ MODULE TaskQueue ------------------------------
(***************************************************************************)
(* The pure scheduling algorithms of the phone's task queue,               *)
(* mobile/src/task-queue.ts.  A queue entry is a task with the sequence    *)
(* number the client gave it on arrival; Rank[t] is priorityRank of the    *)
(* task's priority and Preempting the tasks sent with preemptRunning=true. *)
(***************************************************************************)
EXTENDS Naturals, Sequences, FiniteSets, SequencesExt

CONSTANTS Tasks,       \* task identifiers
          Rank,        \* Rank[t] \in 0..2, i.e. LOW, NORMAL, HIGH
          Preempting   \* tasks whose request carries preemptRunning

High == 2

ASSUME TaskQueueAssumption ==
  /\ Rank \in [Tasks -> 0..High]
  /\ Preempting \subseteq Tasks

Entry == [task : Tasks, seq : Nat]

\* The tasks waiting in q.
Waiting(q) == {q[i].task : i \in DOMAIN q}

\* canPreemptRunning
CanPreemptRunning(incoming, running, sideEffectCommitted) ==
  /\ ~sideEffectCommitted
  /\ incoming \in Preempting
  /\ Rank[incoming] >= Rank[running]

\* Seeded defect: an arrival overtakes the waiting tasks of its own rank.
InsertPositionBeforeEquals(q, t) ==
  LET lower == {i \in DOMAIN q : Rank[q[i].task] <= Rank[t]}
  IN  IF lower = {} THEN Len(q) + 1
      ELSE CHOOSE i \in lower : \A j \in lower : i <= j

\* The findIndex of insertQueuedTask: the first entry of strictly lower rank.
InsertPosition(q, t) ==
  LET lower == {i \in DOMAIN q : Rank[q[i].task] < Rank[t]}
  IN  IF lower = {} THEN Len(q) + 1
      ELSE CHOOSE i \in lower : \A j \in lower : i <= j

\* insertQueuedTask
InsertQueuedTask(q, e) == InsertAt(q, InsertPosition(q, e.task), e)

\* findHighPriorityEvictionIndex: only HIGH evicts, and what it evicts is the
\* longest waiting entry of the lowest waiting rank; 0 is the code's -1.
EvictionIndex(q, incoming) ==
  LET lower == {i \in DOMAIN q : Rank[q[i].task] < Rank[incoming]}
  IN  IF Rank[incoming] # High \/ lower = {} THEN 0
      ELSE CHOOSE i \in lower : \A j \in lower :
             \/ Rank[q[i].task] < Rank[q[j].task]
             \/ /\ Rank[q[i].task] = Rank[q[j].task]
                /\ q[i].seq <= q[j].seq

\* No task waits twice.
Distinct(q) == \A i, j \in DOMAIN q : q[i].task = q[j].task => i = j

\* The order the queue is meant to keep: rank first, arrival second.
Before(e, f) ==
  \/ Rank[e.task] > Rank[f.task]
  \/ Rank[e.task] = Rank[f.task] /\ e.seq < f.seq

Ordered(q) == \A i, j \in DOMAIN q : i < j => Before(q[i], q[j])
=============================================================================
