------------------------- MODULE NetworkRoutingProofs -------------------------
(***************************************************************************)
(* Safety of persistent network routing for any policies, networks,        *)
(* generations and failures: the kernel has what the last operation        *)
(* answered, and what was disabled stays disabled.                         *)
(***************************************************************************)
EXTENDS NetworkRouting, TLAPS

\* What a routing state is made of, and an operation under way.
IsState(s) ==
  /\ s = [active |-> s.active, generation |-> s.generation, policy |-> s.policy,
          baseline |-> s.baseline, status |-> s.status]
  /\ s.active \in BOOLEAN /\ s.generation \in 0..MaxGeneration /\ s.status \in Statuses
  /\ s.active <=> s.policy # None

IsRun(r) ==
  r = [pc |-> r.pc, kind |-> r.kind, request |-> r.request, snapshot |-> r.snapshot,
       exit |-> r.exit, previous |-> r.previous]

\* The steps an operation of a kind goes through.
StepsOf(kind) ==
  IF kind = "apply" THEN {"waiting", "inspect", "probe", "command", "reconnect", "verify",
                          "postprobe", "rollback", "rollbackReconnect"}
  ELSE IF kind = "disable" THEN {"waiting", "removal", "removed"}
  ELSE IF kind = "restore" THEN {"waiting", "inspect", "command", "verify"}
  ELSE IF kind = "drift" THEN {"waiting", "inspect", "command", "reconnect", "verify",
                               "probe", "postprobe"}
  ELSE {"idle"}

KindsOf(o) == IF o = "task" THEN {"none", "apply", "disable", "restore"}
              ELSE {"none", "drift"}

Begun(o) == runs[o].pc \notin {"idle", "waiting"}

\* What the variables hold, the queue and the operations in it aside.
Plain ==
  /\ net \in Networks /\ rules = [g \in GroupNames |-> rules[g]]
  /\ IsState(state) /\ IsState(disk)
  /\ phase \in {"restoring", "serving"}
  /\ monitor \in [running : BOOLEAN, debounce : BOOLEAN] /\ mqtt \in {"up", "down"}
  /\ touched \in BOOLEAN /\ budget \in [requests : Nat, troubles : Nat]

\* The queue has every operation that is not idle, once.
Lined ==
  /\ queue \in Seq(Ops) /\ \A i, j \in 1..Len(queue) : queue[i] = queue[j] => i = j
  /\ runs = [o \in Ops |-> runs[o]]
  /\ \A o \in Ops :
       /\ IsRun(runs[o]) /\ runs[o].kind \in KindsOf(o)
       /\ runs[o].pc \in StepsOf(runs[o].kind)
       /\ runs[o].pc = "idle" <=> \A i \in 1..Len(queue) : queue[i] # o
       /\ runs[o].kind \in {"apply", "disable"} =>
            runs[o].request \in Requests /\ runs[o].request.kind = runs[o].kind

\* Operations take turns; that of the start is the first.
InTurn ==
  /\ \A o \in Ops : Begun(o) => Turn(o)
  /\ runs["task"].kind = "restore" => Turn("task") /\ touched

\* What an operation found when it began is still so: nobody else has saved a state.
Found ==
  /\ disk = state
  /\ runs["task"].kind \in {"apply", "disable"} /\ Begun("task") =>
       runs["task"].request.generation > state.generation
  /\ runs["task"].kind = "apply" /\ Begun("task") => runs["task"].previous = state
  /\ \A o \in Ops : runs[o].kind \in {"restore", "drift"} /\ Begun(o) => state.active

\* The kernel has the rules of s, a state that is not on its way to others.
Kept(s) ==
  /\ s.active => AssertApplied(s.policy, Snapshot, rules)
  /\ ~s.active => NoRules

\* Whose rules nobody has written since the last answer.
Unwritten(r) ==
  \/ r.pc \in {"idle", "waiting", "inspect", "removal"}
  \/ r.kind = "apply" /\ r.pc \in {"probe", "command"}

\* What the kernel has by the state.
Promised ==
  /\ state.active /\ state.status = "ACTIVE" => InForce
  /\ ~state.active => NoRules

\* What the kernel has by the step of an operation.
Reached(r) ==
  /\ r.kind = "drift" /\ r.pc \in {"probe", "postprobe"} => InForce
  /\ r.kind = "apply" /\ r.pc = "postprobe" =>
       AssertApplied(r.request.policy, Snapshot, rules)
  /\ r.pc = "rollbackReconnect" => Kept(r.previous)
  /\ r.pc = "removed" => NoRules

\* What the kernel has as long as nothing around the manager changes it.
Kernel ==
  ~touched =>
    /\ last \in {"OK", "DISABLED", "ROLLED_BACK"} /\ (\A o \in Ops : Unwritten(runs[o]))
         => Promised
    /\ \A o \in Ops : Reached(runs[o])

IInv == Plain /\ Lined /\ InTurn /\ Found /\ Kernel

-----------------------------------------------------------------------------
(* The queue and the operations. *)

\* Only one operation has the turn, and it leaves the queue when it is done.
LEMMA TurnFacts ==
  ASSUME Lined, NEW o \in Ops, Turn(o)
  PROVE  /\ Len(queue) \in Nat /\ Len(queue) > 0 /\ queue[1] = o
         /\ runs[o].pc # "idle"
         /\ \A p \in Ops : Turn(p) => p = o
         /\ Tail(queue) \in Seq(Ops) /\ Len(Tail(queue)) = Len(queue) - 1
         /\ \A i \in 1..Len(Tail(queue)) : Tail(queue)[i] = queue[i + 1]
<1>1. queue \in Seq(Ops) /\ queue # <<>> /\ Head(queue) = o
  BY DEF Lined, Turn
<1>2. Len(queue) \in Nat /\ Len(queue) > 0 /\ queue[1] = o
  BY <1>1
<1>3. runs[o].pc # "idle"
  BY <1>2 DEF Lined
<1> QED
  BY <1>1, <1>2, <1>3 DEF Turn

\* The operation that has the turn leaves: nobody is past its first step then.
LEMMA Leaving ==
  ASSUME Lined, InTurn, NEW o \in Ops, Turn(o), Leave(o)
  PROVE  /\ Lined' /\ InTurn' /\ phase' = "serving"
         /\ \A p \in Ops : runs'[p] = IF p = o THEN Resting ELSE runs[p]
         /\ \A p \in Ops : ~Begun(p)'
<1>1. runs' = [runs EXCEPT ![o] = Resting] /\ queue' = Tail(queue) /\ phase' = "serving"
  BY DEF Leave
<1>2. \A p \in Ops : runs'[p] = IF p = o THEN Resting ELSE runs[p]
  BY <1>1 DEF Lined
<1>3. \A p \in Ops : p # o => ~Begun(p) /\ ~Turn(p)
  BY TurnFacts DEF InTurn
<1>4. \A p \in Ops : ~Begun(p)'
  BY <1>2, <1>3 DEF Begun, Resting
<1>5. IsRun(Resting) /\ Resting.pc = "idle" /\ Resting.kind = "none"
  BY DEF Resting, IsRun
<1>6. \A p \in Ops : runs'[p].pc = "idle" <=> \A i \in 1..Len(queue') : queue'[i] # p
  <2> SUFFICES ASSUME NEW p \in Ops
               PROVE  runs'[p].pc = "idle" <=> \A i \in 1..Len(queue') : queue'[i] # p
    OBVIOUS
  <2>1. /\ Len(queue) \in Nat /\ Len(queue) > 0 /\ queue[1] = o
        /\ Len(queue') = Len(queue) - 1
        /\ \A i \in 1..Len(queue') : queue'[i] = queue[i + 1]
    BY <1>1, TurnFacts
  <2>2. \A i, j \in 1..Len(queue) : queue[i] = queue[j] => i = j
    BY DEF Lined
  <2>3. CASE p = o
    <3>1. \A i \in 1..Len(queue') : queue'[i] # o
      BY <2>1, <2>2
    <3> QED
      BY <3>1, <2>3, <1>2, <1>5
  <2>4. CASE p # o
    <3>1. (\A i \in 1..Len(queue') : queue'[i] # p) <=> \A i \in 1..Len(queue) : queue[i] # p
      <4>1. ASSUME \A i \in 1..Len(queue') : queue'[i] # p, NEW i \in 1..Len(queue)
            PROVE  queue[i] # p
        <5>1. CASE i = 1
          BY <5>1, <2>1, <2>4
        <5>2. CASE i # 1
          <6>1. i - 1 \in 1..Len(queue') /\ (i - 1) + 1 = i
            BY <5>2, <2>1
          <6> QED
            BY <6>1, <4>1, <2>1
        <5> QED
          BY <5>1, <5>2
      <4>2. ASSUME \A i \in 1..Len(queue) : queue[i] # p, NEW i \in 1..Len(queue')
            PROVE  queue'[i] # p
        BY <4>2, <2>1
      <4> QED
        BY <4>1, <4>2
    <3> QED
      BY <3>1, <2>4, <1>2 DEF Lined
  <2> QED
    BY <2>3, <2>4
<1>7. queue' \in Seq(Ops) /\ \A i, j \in 1..Len(queue') : queue'[i] = queue'[j] => i = j
  <2>1. /\ Len(queue) \in Nat /\ Len(queue) > 0 /\ queue' \in Seq(Ops)
        /\ Len(queue') = Len(queue) - 1
        /\ \A i \in 1..Len(queue') : queue'[i] = queue[i + 1]
    BY <1>1, TurnFacts
  <2>2. \A i, j \in 1..Len(queue) : queue[i] = queue[j] => i = j
    BY DEF Lined
  <2>3. ASSUME NEW i \in 1..Len(queue'), NEW j \in 1..Len(queue'), queue'[i] = queue'[j]
        PROVE  i = j
    <3>1. i + 1 \in 1..Len(queue) /\ j + 1 \in 1..Len(queue)
      BY <2>1
    <3>2. queue[i + 1] = queue[j + 1]
      BY <2>1, <2>3
    <3>3. i + 1 = j + 1
      BY <3>1, <3>2, <2>2
    <3> QED
      BY <3>3
  <2> QED
    BY <2>1, <2>3
<1>8. \A p \in Ops :
        /\ IsRun(runs'[p]) /\ runs'[p].kind \in KindsOf(p)
        /\ runs'[p].pc \in StepsOf(runs'[p].kind)
        /\ runs'[p].kind \in {"apply", "disable"} =>
             runs'[p].request \in Requests /\ runs'[p].request.kind = runs'[p].kind
  BY <1>2, <1>5 DEF Lined, KindsOf, StepsOf
<1>9. Lined'
  <2>1. runs' = [p \in Ops |-> runs'[p]]
    BY <1>1 DEF Lined
  <2> QED
    BY <2>1, <1>6, <1>7, <1>8 DEF Lined
<1>10. runs'["task"].kind # "restore"
  <2>1. "task" \in Ops
    BY DEF Ops
  <2>2. CASE o = "task"
    BY <1>2, <1>5, <2>1, <2>2
  <2>3. CASE o # "task"
    BY <1>2, <1>3, <2>1, <2>3 DEF InTurn
  <2> QED
    BY <2>2, <2>3
<1>11. InTurn'
  BY <1>4, <1>10 DEF InTurn
<1> QED
  BY <1>1, <1>2, <1>4, <1>9, <1>11

\* The operation that has the turn goes on to another of its steps.
LEMMA Going ==
  ASSUME Lined, InTurn, NEW o \in Ops, Turn(o), NEW r, IsRun(r),
         runs' = [runs EXCEPT ![o] = r], UNCHANGED queue,
         r.kind = runs[o].kind, r.request = runs[o].request,
         r.pc \in StepsOf(r.kind) \ {"idle", "waiting"},
         r.kind # "restore" \/ touched'
  PROVE  /\ Lined' /\ InTurn'
         /\ \A p \in Ops : runs'[p] = IF p = o THEN r ELSE runs[p]
         /\ \A p \in Ops : p # o => ~Begun(p) /\ ~Begun(p)'
<1>1. \A p \in Ops : runs'[p] = IF p = o THEN r ELSE runs[p]
  BY DEF Lined
<1>2. runs' = [p \in Ops |-> runs'[p]]
  BY DEF Lined
<1>3. runs[o].pc # "idle"
  BY TurnFacts
<1>4. Lined'
  BY <1>1, <1>2, <1>3 DEF Lined
<1>5. \A p \in Ops : p # o => ~Begun(p) /\ ~Turn(p)
  BY TurnFacts DEF InTurn
<1>6. \A p \in Ops : p # o => ~Begun(p)'
  BY <1>1, <1>5 DEF Begun
<1>7. Turn(o)'
  BY DEF Turn
<1>8. runs'["task"].kind = "restore" => Turn("task")' /\ touched'
  <2>1. "task" \in Ops
    BY DEF Ops
  <2>2. CASE o = "task"
    BY <1>1, <1>7, <2>1, <2>2
  <2>3. CASE o # "task"
    BY <1>1, <1>5, <2>1, <2>3 DEF InTurn
  <2> QED
    BY <2>2, <2>3
<1>9. InTurn'
  BY <1>6, <1>7, <1>8 DEF InTurn
<1> QED
  BY <1>1, <1>4, <1>5, <1>6, <1>9

\* An operation is called: it waits behind the others.
LEMMA Calling ==
  ASSUME Lined, InTurn, NEW o \in Ops, NEW kind, NEW request, Call(o, kind, request),
         kind \in KindsOf(o) \ {"none", "restore"},
         kind \in {"apply", "disable"} => request \in Requests /\ request.kind = kind,
         touched' = touched
  PROVE  /\ Lined' /\ InTurn'
         /\ \A p \in Ops : p # o => runs'[p] = runs[p]
         /\ runs'[o].pc = "waiting" /\ runs[o].pc = "idle"
         /\ \A p \in Ops : Begun(p)' <=> Begun(p)
<1>1. PICK r : /\ r = [Resting EXCEPT !.pc = "waiting", !.kind = kind, !.request = request]
               /\ runs[o].pc = "idle" /\ runs' = [runs EXCEPT ![o] = r]
               /\ queue' = Append(queue, o)
  BY DEF Call
<1>2. IsRun(r) /\ r.pc = "waiting" /\ r.kind = kind /\ r.request = request
  BY <1>1 DEF Resting, IsRun
<1>3. \A p \in Ops : runs'[p] = IF p = o THEN r ELSE runs[p]
  BY <1>1 DEF Lined
<1>4. runs' = [p \in Ops |-> runs'[p]]
  BY <1>1 DEF Lined
<1>5. /\ queue \in Seq(Ops) /\ Len(queue) \in Nat /\ queue' \in Seq(Ops)
      /\ Len(queue') = Len(queue) + 1 /\ queue'[Len(queue) + 1] = o
      /\ \A i \in 1..Len(queue) : queue'[i] = queue[i]
  BY <1>1 DEF Lined
<1>6. \A i \in 1..Len(queue) : queue[i] # o
  BY <1>1 DEF Lined
<1>7. \A i, j \in 1..Len(queue') : queue'[i] = queue'[j] => i = j
  <2>1. \A i, j \in 1..Len(queue) : queue[i] = queue[j] => i = j
    BY DEF Lined
  <2>2. \A i \in 1..Len(queue') : i \in 1..Len(queue) \/ i = Len(queue) + 1
    BY <1>5
  <2> QED
    BY <1>5, <1>6, <2>1, <2>2
<1>8. \A p \in Ops : runs'[p].pc = "idle" <=> \A i \in 1..Len(queue') : queue'[i] # p
  <2> SUFFICES ASSUME NEW p \in Ops
               PROVE  runs'[p].pc = "idle" <=> \A i \in 1..Len(queue') : queue'[i] # p
    OBVIOUS
  <2>1. CASE p = o
    <3>1. Len(queue) + 1 \in 1..Len(queue')
      BY <1>5
    <3> QED
      BY <2>1, <3>1, <1>2, <1>3, <1>5
  <2>2. CASE p # o
    <3>1. (\A i \in 1..Len(queue') : queue'[i] # p) <=> \A i \in 1..Len(queue) : queue[i] # p
      BY <1>5, <2>2
    <3> QED
      BY <2>2, <3>1, <1>3 DEF Lined
  <2> QED
    BY <2>1, <2>2
<1>9. r.pc \in StepsOf(r.kind) /\ r.kind \in KindsOf(o)
  BY <1>2 DEF StepsOf, KindsOf
<1>10. \A p \in Ops :
        /\ IsRun(runs'[p]) /\ runs'[p].kind \in KindsOf(p)
        /\ runs'[p].pc \in StepsOf(runs'[p].kind)
        /\ runs'[p].kind \in {"apply", "disable"} =>
             runs'[p].request \in Requests /\ runs'[p].request.kind = runs'[p].kind
  BY <1>2, <1>3, <1>9 DEF Lined
<1>11. Lined'
  BY <1>4, <1>5, <1>7, <1>8, <1>10 DEF Lined
<1>12. \A p \in Ops : Turn(p) => Turn(p)'
  BY <1>1, <1>5 DEF Turn
<1>13. \A p \in Ops : Begun(p)' <=> Begun(p)
  BY <1>1, <1>2, <1>3 DEF Begun
<1>14. runs'["task"].kind = "restore" => Turn("task")' /\ touched'
  <2>1. "task" \in Ops
    BY DEF Ops
  <2> QED
    BY <1>2, <1>3, <1>12, <2>1 DEF InTurn
<1>15. InTurn'
  BY <1>12, <1>13, <1>14 DEF InTurn
<1> QED
  BY <1>1, <1>2, <1>3, <1>11, <1>13, <1>15

-----------------------------------------------------------------------------
(* States, and the rules the commands write. *)

\* A status that is saved changes nothing else of the state.
LEMMA StatusFacts ==
  ASSUME Plain, NEW s \in Statuses, RuntimeStatus(s)
  PROVE  /\ disk' = state' /\ IsState(state')
         /\ state'.active = state.active /\ state'.generation = state.generation
         /\ state'.policy = state.policy /\ state'.status = s
<1>1. state' = [state EXCEPT !.status = s] /\ disk' = state'
  BY DEF RuntimeStatus, Save
<1>2. IsState(state)
  BY DEF Plain
<1>3. state = [active |-> state.active, generation |-> state.generation,
               policy |-> state.policy, baseline |-> state.baseline, status |-> state.status]
  BY <1>2 DEF IsState
<1>4. state' = [active |-> state.active, generation |-> state.generation,
                policy |-> state.policy, baseline |-> state.baseline, status |-> s]
  BY <1>1, <1>3
<1>5. /\ state'.active = state.active /\ state'.generation = state.generation
      /\ state'.policy = state.policy /\ state'.status = s
      /\ state'.baseline = state.baseline
  BY <1>4
<1> QED
  BY <1>1, <1>2, <1>4, <1>5 DEF IsState

\* The groups, by their place in the root command.
LEMMA GroupFacts ==
  /\ Len(Groups) = 6 /\ AllSteps = 7
  /\ GroupNames = {"bound", "management", "lan", "default4", "default6", "ndc"}
  /\ \A g \in GroupNames : \E i \in 1..6 : Groups[i] = g
<1>1. Len(Groups) = 6 /\ AllSteps = 7
  BY DEF Groups, AllSteps
<1>2. /\ Groups[1] = "bound" /\ Groups[2] = "management" /\ Groups[3] = "lan"
      /\ Groups[4] = "default4" /\ Groups[5] = "default6" /\ Groups[6] = "ndc"
  BY DEF Groups
<1>3. 1..Len(Groups) = {1, 2, 3, 4, 5, 6}
  BY <1>1
<1>4. GroupNames = {"bound", "management", "lan", "default4", "default6", "ndc"}
  BY <1>2, <1>3 DEF GroupNames
<1> QED
  BY <1>1, <1>2, <1>4

\* A script that runs to its end writes every group but the pinned default as wanted.
LEMMA WrittenWhole ==
  ASSUME NEW want, NEW g \in GroupNames \ {"ndc"}
  PROVE  Written(want, AllSteps)[g] = want[g]
<1>1. Written(want, AllSteps)[g] =
        IF \E i \in 1..Len(Groups) : i < AllSteps /\ Groups[i] = g /\ want[g] # None
        THEN want[g] ELSE None
  BY GroupFacts DEF Written
<1>2. \E i \in 1..Len(Groups) : i < AllSteps /\ Groups[i] = g
  BY GroupFacts
<1> QED
  BY <1>1, <1>2

\* A script of any length leaves every group in its place.
LEMMA WrittenRules ==
  ASSUME Plain, NEW want, NEW k
  PROVE  Written(want, k) = [g \in GroupNames |-> Written(want, k)[g]]
<1>1. CASE k = 0
  BY <1>1 DEF Written, Plain
<1>2. CASE k # 0
  BY <1>2 DEF Written
<1> QED
  BY <1>1, <1>2

\* A script that only clears leaves no rule where there was none.
LEMMA WrittenClear ==
  ASSUME NEW k, NEW g \in GroupNames \ {"ndc"}, rules[g] = None
  PROVE  Written(Clear, k)[g] = None
<1>1. Clear[g] = None
  BY DEF Clear
<1>2. CASE k = 0
  BY <1>2 DEF Written
<1>3. CASE k # 0
  BY <1>1, <1>3 DEF Written
<1> QED
  BY <1>2, <1>3

\* What removeManagedRules leaves.
LEMMA ClearedFacts ==
  ASSUME NEW id
  PROVE  /\ Cleared(id) = [g \in GroupNames |-> Cleared(id)[g]]
         /\ \A g \in GroupNames \ {"ndc"} : Cleared(id)[g] = None
BY DEF Cleared, Clear

\* With every other operation at rest, the kernel has what the step of one says.
LEMMA KernelOf ==
  ASSUME NEW o \in Ops, \A p \in Ops : p # o => ~Begun(p)
  PROVE  Kernel <=>
           (~touched =>
              /\ last \in {"OK", "DISABLED", "ROLLED_BACK"} /\ Unwritten(runs[o]) => Promised
              /\ Reached(runs[o]))
<1>1. \A p \in Ops : p # o => Unwritten(runs[p]) /\ Reached(runs[p])
  BY DEF Begun, Unwritten, Reached
<1> QED
  BY <1>1 DEF Kernel
-----------------------------------------------------------------------------
(* One lemma for every way a step leaves the invariant as it was. *)

\* Nothing the invariant speaks of changes but the network status and the budget.
LEMMA Aside ==
  ASSUME IInv, Plain', UNCHANGED <<net, rules, disk, state, queue, runs, last, touched>>
  PROVE  IInv'
<1>1. Lined' /\ InTurn'
  BY DEF IInv, Lined, InTurn, Begun, Turn
<1>2. Found'
  BY DEF IInv, Found, Begun
<1>3. Snapshot' = Snapshot
  BY DEF Snapshot
<1>4. Promised' <=> Promised
  BY <1>3 DEF Promised, InForce, NoRules, AssertApplied
<1>5. \A o \in Ops : Reached(runs[o])' <=> Reached(runs[o])
  BY <1>3 DEF Reached, InForce, NoRules, AssertApplied, Kept
<1>6. \A o \in Ops : Unwritten(runs[o])' <=> Unwritten(runs[o])
  BY DEF Unwritten
<1>7. Kernel'
  BY <1>4, <1>5, <1>6 DEF IInv, Kernel
<1> QED
  BY <1>1, <1>2, <1>7 DEF IInv

\* An operation is called.
LEMMA CallKeeps ==
  ASSUME IInv, NEW o \in Ops, NEW kind, NEW request, Call(o, kind, request),
         kind \in KindsOf(o) \ {"none", "restore"},
         kind \in {"apply", "disable"} => request \in Requests /\ request.kind = kind,
         Plain', UNCHANGED <<net, rules, disk, state, last, touched>>
  PROVE  IInv'
<1>1. /\ Lined' /\ InTurn'
      /\ \A p \in Ops : p # o => runs'[p] = runs[p]
      /\ runs'[o].pc = "waiting" /\ runs[o].pc = "idle"
      /\ \A p \in Ops : Begun(p)' <=> Begun(p)
  BY Calling DEF IInv
<1>2. ~Begun(o) /\ ~Begun(o)'
  BY <1>1 DEF Begun
<1>3. Found'
  <2>1. "task" \in Ops
    BY DEF Ops
  <2> QED
    BY <1>1, <1>2, <2>1 DEF IInv, Found
<1>4. Snapshot' = Snapshot
  BY DEF Snapshot
<1>5. Promised' <=> Promised
  BY <1>4 DEF Promised, InForce, NoRules, AssertApplied
<1>6. \A p \in Ops : Reached(runs[p])' <=> Reached(runs[p])
  <2> SUFFICES ASSUME NEW p \in Ops PROVE Reached(runs[p])' <=> Reached(runs[p])
    OBVIOUS
  <2>1. CASE p = o
    BY <1>1, <2>1 DEF Reached
  <2>2. CASE p # o
    BY <1>1, <1>4, <2>2 DEF Reached, InForce, NoRules, AssertApplied, Kept
  <2> QED
    BY <2>1, <2>2
<1>7. \A p \in Ops : Unwritten(runs[p])' => Unwritten(runs[p])
  BY <1>1 DEF Unwritten
<1>8. Kernel'
  BY <1>5, <1>6, <1>7 DEF IInv, Kernel
<1> QED
  BY <1>1, <1>3, <1>8 DEF IInv

\* The operation that has the turn ends: what it answers, the kernel has.
LEMMA LeaveKeeps ==
  ASSUME IInv, NEW o \in Ops, Turn(o), Leave(o), Plain', disk' = state',
         ~touched' /\ last' \in {"OK", "DISABLED", "ROLLED_BACK"} => Promised'
  PROVE  IInv'
<1>1. /\ Lined' /\ InTurn'
      /\ \A p \in Ops : ~Begun(p)'
  BY Leaving DEF IInv
<1>2. "task" \in Ops
  BY DEF Ops
<1>3. Found'
  BY <1>1, <1>2 DEF Found
<1>4. \A p \in Ops : Reached(runs[p])'
  BY <1>1 DEF Begun, Reached
<1>5. Kernel'
  BY <1>4 DEF Kernel
<1> QED
  BY <1>1, <1>3, <1>5 DEF IInv

\* The operation that has the turn goes on: what its step says, the kernel has.
LEMMA StepKeeps ==
  ASSUME IInv, NEW o \in Ops, Turn(o), NEW r, IsRun(r),
         runs' = [runs EXCEPT ![o] = r], UNCHANGED queue,
         r.kind = runs[o].kind, r.request = runs[o].request,
         r.pc \in StepsOf(r.kind) \ {"idle", "waiting"},
         r.kind # "restore" \/ touched', Plain', disk' = state',
         r.kind \in {"apply", "disable"} => r.request.generation > state'.generation,
         r.kind = "apply" => r.previous = state',
         r.kind \in {"restore", "drift"} => state'.active,
         ~touched' =>
           /\ last' \in {"OK", "DISABLED", "ROLLED_BACK"} /\ Unwritten(r) => Promised'
           /\ Reached(r)'
  PROVE  IInv'
<1>1. /\ Lined' /\ InTurn'
      /\ \A p \in Ops : runs'[p] = IF p = o THEN r ELSE runs[p]
      /\ \A p \in Ops : p # o => ~Begun(p) /\ ~Begun(p)'
  BY Going DEF IInv
<1>2. "task" \in Ops
  BY DEF Ops
<1>3. Found'
  <2>1. runs'[o] = r
    BY <1>1
  <2>2. runs'["task"].kind \in {"apply", "disable"} /\ Begun("task")' =>
          runs'["task"].request.generation > state'.generation
    BY <1>1, <1>2, <2>1
  <2>3. runs'["task"].kind = "apply" /\ Begun("task")' => runs'["task"].previous = state'
    BY <1>1, <1>2, <2>1
  <2>4. \A p \in Ops : runs'[p].kind \in {"restore", "drift"} /\ Begun(p)' => state'.active
    BY <1>1, <2>1
  <2> QED
    BY <2>2, <2>3, <2>4 DEF Found
<1>4. \A p \in Ops : p # o => Reached(runs[p])'
  BY <1>1 DEF Begun, Reached
<1>5. Kernel'
  <2>1. runs'[o] = r
    BY <1>1
  <2>2. (\A p \in Ops : Unwritten(runs[p])') => Unwritten(r)
    BY <2>1
  <2>3. Reached(r)' => \A p \in Ops : Reached(runs[p])'
    BY <1>1, <1>4, <2>1 DEF Reached
  <2> QED
    BY <2>2, <2>3 DEF Kernel
<1> QED
  BY <1>1, <1>3, <1>5 DEF IInv
-----------------------------------------------------------------------------
(* The initial states, and one lemma for every action. *)

LEMMA InitInvariant == NetworkRoutingAssumption /\ Init => IInv
<1> SUFFICES ASSUME NetworkRoutingAssumption, Init PROVE IInv
  OBVIOUS
<1>1. IsState(state) /\ disk = state /\ ~state.active
  BY DEF Init, Disabled, IsState, Statuses, NetworkRoutingAssumption
<1>2. Plain
  BY <1>1 DEF Plain, Init, Clear, NetworkRoutingAssumption
<1>3. IsRun(Resting) /\ Resting.pc = "idle" /\ Resting.kind = "none"
  BY DEF IsRun, Resting
<1>4. \A o \in Ops : runs[o] = Resting
  BY DEF Init
<1>5. Lined
  BY <1>3, <1>4 DEF Init, Lined, StepsOf, KindsOf
<1>6. "task" \in Ops
  BY DEF Ops
<1>7. InTurn /\ Found
  BY <1>1, <1>3, <1>4, <1>6 DEF InTurn, Found, Begun
<1>8. Promised
  BY <1>1 DEF Promised, NoRules, Init, Clear
<1>9. \A o \in Ops : Reached(runs[o])
  BY <1>3, <1>4 DEF Reached
<1> QED
  BY <1>2, <1>5, <1>7, <1>8, <1>9 DEF IInv, Kernel

\* What a budgeted step leaves is still a budget.
LEMMA BudgetFacts ==
  ASSUME Plain, Trouble \/ UNCHANGED budget
  PROVE  budget' \in [requests : Nat, troubles : Nat]
<1>1. budget \in [requests : Nat, troubles : Nat]
  BY DEF Plain
<1>2. CASE Trouble
  <2>1. budget.troubles > 0 /\ budget' = [budget EXCEPT !.troubles = budget.troubles - 1]
    BY <1>2 DEF Trouble
  <2> QED
    BY <1>1, <2>1
<1> QED
  BY <1>1, <1>2

\* A request is enqueued behind the operations before it.
LEMMA RequestKeeps ==
  ASSUME IInv, NEW r \in Requests, Request(r)
  PROVE  IInv'
<1>1. r.kind \in {"apply", "disable"}
  BY DEF Requests
<1>2. "task" \in Ops /\ r.kind \in KindsOf("task") \ {"none", "restore"}
  BY <1>1 DEF Ops, KindsOf
<1>3. budget' \in [requests : Nat, troubles : Nat]
  <2>1. budget \in [requests : Nat, troubles : Nat] /\ budget.requests > 0
        /\ budget' = [budget EXCEPT !.requests = budget.requests - 1]
    BY DEF Request, IInv, Plain
  <2> QED
    BY <2>1
<1>4. Plain'
  BY <1>3 DEF Request, IInv, Plain
<1> QED
  BY <1>2, <1>4, CallKeeps DEF Request

\* The timer calls a drift check.
LEMMA PeriodicCheckKeeps ==
  ASSUME IInv, PeriodicCheck
  PROVE  IInv'
<1>1. "periodic" \in Ops /\ "drift" \in KindsOf("periodic") \ {"none", "restore"}
  BY DEF Ops, KindsOf
<1>2. Plain'
  BY DEF PeriodicCheck, IInv, Plain
<1> QED
  BY <1>1, <1>2, CallKeeps DEF PeriodicCheck

\* A change of the network calls one.
LEMMA ReconcileChangeKeeps ==
  ASSUME IInv, ReconcileChange
  PROVE  IInv'
<1>1. "change" \in Ops /\ "drift" \in KindsOf("change") \ {"none", "restore"}
  BY DEF Ops, KindsOf
<1>2. Plain'
  BY DEF ReconcileChange, IInv, Plain
<1> QED
  BY <1>1, <1>2, CallKeeps DEF ReconcileChange

\* What is true of the operation that has the turn.
LEMMA AtFacts ==
  ASSUME IInv, NEW o \in Ops, Turn(o)
  PROVE  /\ IsRun(runs[o]) /\ runs[o].kind \in KindsOf(o)
         /\ runs[o].pc \in StepsOf(runs[o].kind)
         /\ \A p \in Ops : p # o => ~Begun(p)
         /\ disk = state /\ IsState(state)
         /\ runs[o].kind = "restore" => touched
         /\ Begun(o) /\ runs[o].kind \in {"apply", "disable"} =>
              runs[o].request.generation > state.generation
         /\ Begun(o) /\ runs[o].kind = "apply" => runs[o].previous = state
         /\ Begun(o) /\ runs[o].kind \in {"restore", "drift"} => state.active
         /\ runs[o].kind \in {"apply", "disable"} =>
              runs[o].request \in Requests /\ runs[o].request.kind = runs[o].kind
<1>1. "task" \in Ops
  BY DEF Ops
<1>2. \A p \in Ops : p # o => ~Begun(p)
  BY TurnFacts DEF IInv, InTurn
<1>3. runs[o].kind \in {"apply", "disable", "restore"} => o = "task"
  BY DEF IInv, Lined, KindsOf
<1> QED
  BY <1>1, <1>2, <1>3 DEF IInv, Lined, Found, InTurn, Plain

\* A policy a request carries has the parts a saved state needs.
LEMMA RequestFacts ==
  ASSUME NetworkRoutingAssumption, NEW r \in Requests
  PROVE  /\ r.generation \in 0..MaxGeneration
         /\ r.kind = "apply" => r.policy # None
BY DEF Requests, NetworkRoutingAssumption

\* What the kernel promised before the operation wrote any rule.
LEMMA StillPromised ==
  ASSUME IInv, NEW o \in Ops, Turn(o), Unwritten(runs[o]),
         ~touched, last \in {"OK", "DISABLED", "ROLLED_BACK"}
  PROVE  Promised
BY AtFacts, KernelOf DEF IInv

\* An apply that is due begins, or is answered with the state as it is.
LEMMA BeginApplyKeeps ==
  ASSUME IInv, BeginApply
  PROVE  IInv'
<1>1. PICK run : run = runs["task"]
  OBVIOUS
<1>2. /\ "task" \in Ops /\ Turn("task") /\ run.pc = "waiting" /\ run.kind = "apply"
      /\ UNCHANGED <<net, rules, disk, state, monitor, mqtt, retained, last, touched, budget>>
  BY <1>1 DEF BeginApply, At, Ops
<1>3. Unwritten(run)
  BY <1>2 DEF Unwritten
<1>4. Snapshot' = Snapshot
  BY <1>2 DEF Snapshot
<1>5. Promised' <=> Promised
  BY <1>2, <1>4 DEF Promised, InForce, NoRules, AssertApplied
<1>6. ~touched' /\ last' \in {"OK", "DISABLED", "ROLLED_BACK"} => Promised'
  BY <1>1, <1>2, <1>3, <1>5, StillPromised
<1>7. disk' = state'
  BY <1>2, AtFacts
<1>8. CASE Leave("task")
  <2>1. Plain'
    BY <1>2, <1>8 DEF IInv, Plain, Leave
  <2> QED
    BY <1>2, <1>6, <1>7, <1>8, <2>1, LeaveKeeps
<1>9. CASE /\ run.request.generation > state.generation
           /\ runs' = [runs EXCEPT !["task"].pc = "inspect", !["task"].previous = state]
           /\ UNCHANGED <<queue, phase>>
  <2>1. PICK q : q = [run EXCEPT !.pc = "inspect"]
    OBVIOUS
  <2>2. PICK r : r = [q EXCEPT !.previous = state]
    OBVIOUS
  <2>3. IsRun(run)
    BY <1>1, <1>2, AtFacts
  <2>4. IsRun(q) /\ q.pc = "inspect" /\ q.kind = run.kind /\ q.request = run.request
    BY <2>1, <2>3 DEF IsRun
  <2>5. /\ IsRun(r) /\ r.pc = "inspect" /\ r.kind = run.kind /\ r.request = run.request
        /\ r.previous = state
    BY <2>2, <2>4 DEF IsRun
  <2>6. runs' = [runs EXCEPT !["task"] = r]
    BY <1>1, <1>2, <1>9, <2>1, <2>2 DEF IInv, Lined
  <2>7. Plain'
    BY <1>2, <1>9 DEF IInv, Plain
  <2>8. r.pc \in StepsOf(r.kind) \ {"idle", "waiting"} /\ Reached(r)'
    BY <1>2, <2>5 DEF StepsOf, Reached
  <2> QED
    BY <1>1, <1>2, <1>6, <1>7, <1>9, <2>5, <2>6, <2>7, <2>8, StepKeeps
<1> QED
  BY <1>1, <1>8, <1>9 DEF BeginApply
\* An operation at its next step is the same operation.
LEMMA GotoFacts ==
  ASSUME IInv, NEW o \in Ops, NEW pc, Goto(o, pc)
  PROVE  /\ UNCHANGED <<queue, phase>>
         /\ \E r : /\ IsRun(r) /\ runs' = [runs EXCEPT ![o] = r] /\ r.pc = pc
                   /\ r.kind = runs[o].kind /\ r.request = runs[o].request
                   /\ r.snapshot = runs[o].snapshot /\ r.previous = runs[o].previous
<1>1. PICK run : run = runs[o]
  OBVIOUS
<1>2. PICK r : r = [run EXCEPT !.pc = pc]
  OBVIOUS
<1>3. IsRun(run)
  BY <1>1 DEF IInv, Lined
<1>4. /\ IsRun(r) /\ r.pc = pc /\ r.kind = run.kind /\ r.request = run.request
      /\ r.snapshot = run.snapshot /\ r.previous = run.previous
  BY <1>2, <1>3 DEF IsRun
<1>5. runs' = [runs EXCEPT ![o] = r] /\ UNCHANGED <<queue, phase>>
  BY <1>1, <1>2 DEF Goto
<1> QED
  BY <1>1, <1>4, <1>5

\* As long as neither the network, the rules nor the state change, a promise stays.
LEMMA PromiseStays ==
  ASSUME UNCHANGED <<net, rules, state>>
  PROVE  /\ Snapshot' = Snapshot /\ (Promised' <=> Promised)
         /\ \A r : Reached(r)' <=> Reached(r)
<1>1. Snapshot' = Snapshot
  BY DEF Snapshot
<1> QED
  BY <1>1 DEF Promised, InForce, NoRules, AssertApplied, Reached, Kept

\* A disable that is due begins, or is answered with the state as it is.
LEMMA BeginDisableKeeps ==
  ASSUME IInv, BeginDisable
  PROVE  IInv'
<1>1. /\ "task" \in Ops /\ Turn("task") /\ runs["task"].pc = "waiting"
      /\ runs["task"].kind = "disable"
      /\ UNCHANGED <<net, rules, disk, state, monitor, mqtt, retained, last, touched, budget>>
  BY DEF BeginDisable, At, Ops
<1>2. Unwritten(runs["task"])
  BY <1>1 DEF Unwritten
<1>3. ~touched' /\ last' \in {"OK", "DISABLED", "ROLLED_BACK"} => Promised'
  BY <1>1, <1>2, StillPromised, PromiseStays
<1>4. disk' = state'
  BY <1>1, AtFacts
<1>5. CASE Leave("task")
  <2>1. Plain'
    BY <1>1, <1>5 DEF IInv, Plain, Leave
  <2> QED
    BY <1>1, <1>3, <1>4, <1>5, <2>1, LeaveKeeps
<1>6. CASE /\ runs["task"].request.generation > state.generation
           /\ Goto("task", "removal")
  <2>1. PICK r : /\ IsRun(r) /\ runs' = [runs EXCEPT !["task"] = r] /\ r.pc = "removal"
                 /\ r.kind = runs["task"].kind /\ r.request = runs["task"].request
    BY <1>1, <1>6, GotoFacts
  <2>2. UNCHANGED <<queue, phase>>
    BY <1>1, <1>6, GotoFacts
  <2>3. Plain'
    BY <1>1, <2>2 DEF IInv, Plain
  <2>4. r.pc \in StepsOf(r.kind) \ {"idle", "waiting"} /\ Reached(r)'
    BY <1>1, <2>1 DEF StepsOf, Reached
  <2> QED
    BY <1>1, <1>3, <1>4, <1>6, <2>1, <2>2, <2>3, <2>4, StepKeeps
<1> QED
  BY <1>5, <1>6 DEF BeginDisable

\* A drift check of an active policy begins; one that has nothing to check ends.
LEMMA BeginDriftKeeps ==
  ASSUME IInv, NEW o \in Ops, BeginDrift(o)
  PROVE  IInv'
<1>1. /\ Turn(o) /\ runs[o].pc = "waiting" /\ runs[o].kind = "drift"
      /\ UNCHANGED <<net, rules, monitor, mqtt, last, touched, budget>>
  BY DEF BeginDrift, At
<1>2. Unwritten(runs[o])
  BY <1>1 DEF Unwritten
<1>3. CASE ~state.active /\ Leave(o) /\ UNCHANGED <<disk, state, retained>>
  <2>1. Plain'
    BY <1>1, <1>3 DEF IInv, Plain, Leave
  <2>2. ~touched' /\ last' \in {"OK", "DISABLED", "ROLLED_BACK"} => Promised'
    BY <1>1, <1>2, <1>3, StillPromised, PromiseStays
  <2>3. disk' = state'
    BY <1>1, <1>3, AtFacts
  <2> QED
    BY <1>1, <1>3, <2>1, <2>2, <2>3, LeaveKeeps
<1>4. CASE /\ state.active /\ Goto(o, "inspect")
           /\ RuntimeStatus("RECOVERING") \/ UNCHANGED <<disk, state, retained>>
  <2>1. PICK r : /\ IsRun(r) /\ runs' = [runs EXCEPT ![o] = r] /\ r.pc = "inspect"
                 /\ r.kind = runs[o].kind /\ r.request = runs[o].request
    BY <1>4, GotoFacts
  <2>2. UNCHANGED <<queue, phase>>
    BY <1>4, GotoFacts
  <2>3. r.pc \in StepsOf(r.kind) \ {"idle", "waiting"} /\ Reached(r)'
    BY <1>1, <2>1 DEF StepsOf, Reached
  <2>4. CASE UNCHANGED <<disk, state, retained>>
    <3>1. Plain'
      BY <1>1, <2>2, <2>4 DEF IInv, Plain
    <3>2. ~touched' /\ last' \in {"OK", "DISABLED", "ROLLED_BACK"} => Promised'
      BY <1>1, <1>2, <2>4, StillPromised, PromiseStays
    <3>3. disk' = state' /\ state'.active
      BY <1>1, <1>4, <2>4, AtFacts
    <3> QED
      BY <1>1, <2>1, <2>2, <2>3, <3>1, <3>2, <3>3, StepKeeps
  <2>5. CASE RuntimeStatus("RECOVERING")
    <3>1. /\ disk' = state' /\ IsState(state') /\ state'.active
          /\ state'.status = "RECOVERING"
      BY <1>4, <2>5, StatusFacts DEF IInv, Statuses
    <3>2. Plain'
      BY <1>1, <2>2, <3>1 DEF IInv, Plain
    <3>3. Promised'
      BY <3>1 DEF Promised
    <3> QED
      BY <1>1, <2>1, <2>2, <2>3, <3>1, <3>2, <3>3, StepKeeps
  <2> QED
    BY <1>4, <2>4, <2>5
<1> QED
  BY <1>3, <1>4 DEF BeginDrift

\* The first operation after a restart begins, or has no policy to restore.
LEMMA BeginRestoreKeeps ==
  ASSUME IInv, NEW o \in Ops, BeginRestore(o)
  PROVE  IInv'
<1>1. /\ Turn(o) /\ runs[o].pc = "waiting" /\ runs[o].kind = "restore"
      /\ UNCHANGED <<net, rules, monitor, mqtt, last, touched, budget>>
  BY DEF BeginRestore, At
<1>2. touched' /\ disk = state
  BY <1>1, AtFacts
<1>3. CASE Leave(o) /\ UNCHANGED <<disk, state, retained>>
  <2>1. Plain'
    BY <1>1, <1>3 DEF IInv, Plain, Leave
  <2> QED
    BY <1>1, <1>2, <1>3, <2>1, LeaveKeeps
<1>4. CASE state.active /\ Goto(o, "inspect") /\ RuntimeStatus("RECOVERING")
  <2>1. PICK r : /\ IsRun(r) /\ runs' = [runs EXCEPT ![o] = r] /\ r.pc = "inspect"
                 /\ r.kind = runs[o].kind /\ r.request = runs[o].request
    BY <1>4, GotoFacts
  <2>2. UNCHANGED <<queue, phase>>
    BY <1>4, GotoFacts
  <2>3. r.pc \in StepsOf(r.kind) \ {"idle", "waiting"}
    BY <1>1, <2>1 DEF StepsOf
  <2>4. disk' = state' /\ IsState(state') /\ state'.active
    BY <1>4, StatusFacts DEF IInv, Statuses
  <2>5. Plain'
    BY <1>1, <2>2, <2>4 DEF IInv, Plain
  <2> QED
    BY <1>1, <1>2, <2>1, <2>2, <2>3, <2>4, <2>5, StepKeeps
<1> QED
  BY <1>3, <1>4 DEF BeginRestore

\* The network is read; a drift check sees whether its rules are there.
LEMMA InspectKeeps ==
  ASSUME IInv, NEW o \in Ops, Inspect(o)
  PROVE  IInv'
<1>1. PICK run : run = runs[o]
  OBVIOUS
<1>2. PICK applied \in BOOLEAN : applied <=> AssertApplied(Policy(o), Snapshot, rules)
  BY DEF AssertApplied
<1>3. PICK next : next = CASE run.kind = "apply" -> "probe"
                           [] run.kind = "restore" -> "command"
                           [] OTHER -> IF applied THEN "probe" ELSE "command"
  OBVIOUS
<1>4. PICK snapshot : snapshot = Snapshot
  OBVIOUS
<1>5. /\ Turn(o) /\ run.pc = "inspect"
      /\ runs' = [runs EXCEPT ![o].pc = next, ![o].snapshot = snapshot]
      /\ touched' = IF run.kind = "drift" /\ applied THEN FALSE ELSE touched
      /\ UNCHANGED <<net, rules, disk, state, phase, queue, monitor, mqtt, retained, last,
                     budget>>
  BY <1>1, <1>2, <1>3, <1>4 DEF Inspect, At
<1>6. PICK q : q = [run EXCEPT !.pc = next]
  OBVIOUS
<1>7. PICK r : r = [q EXCEPT !.snapshot = snapshot]
  OBVIOUS
<1>8. IsRun(run)
  BY <1>1, <1>5, AtFacts
<1>9. IsRun(q) /\ q.pc = next /\ q.kind = run.kind /\ q.request = run.request
      /\ q.previous = run.previous
  BY <1>6, <1>8 DEF IsRun
<1>10. /\ IsRun(r) /\ r.pc = next /\ r.kind = run.kind /\ r.request = run.request
       /\ r.previous = run.previous
  BY <1>7, <1>9 DEF IsRun
<1>11. runs' = [runs EXCEPT ![o] = r]
  BY <1>1, <1>5, <1>6, <1>7 DEF IInv, Lined
<1>12. /\ disk = state /\ run.pc \in StepsOf(run.kind) /\ Begun(o)
       /\ run.kind = "restore" => touched
       /\ run.kind \in {"apply", "disable"} => run.request.generation > state.generation
       /\ run.kind = "apply" => run.previous = state
       /\ run.kind \in {"restore", "drift"} => state.active
  BY <1>1, <1>5, AtFacts DEF Begun
<1>13. run.kind \in {"apply", "restore", "drift"}
  BY <1>5, <1>12 DEF StepsOf
<1>14. next \in StepsOf(run.kind) \ {"idle", "waiting"}
  BY <1>3, <1>13 DEF StepsOf
<1>15. Plain'
  BY <1>5 DEF IInv, Plain
<1>16. Unwritten(run)
  BY <1>5 DEF Unwritten
<1>17. CASE run.kind = "apply" \/ run.kind = "restore"
  <2>1. touched' = touched /\ last' = last /\ (run.kind = "restore" => touched')
    BY <1>5, <1>12, <1>17
  <2>2. ~touched' /\ last' \in {"OK", "DISABLED", "ROLLED_BACK"} => Promised'
    <3>1. ~touched /\ last \in {"OK", "DISABLED", "ROLLED_BACK"} => Promised
      BY <1>1, <1>5, <1>16, StillPromised
    <3>2. Promised' <=> Promised
      BY <1>5, PromiseStays
    <3> QED
      BY <2>1, <3>1, <3>2
  <2>3. Reached(r)'
    BY <1>3, <1>10, <1>17 DEF Reached
  <2> QED
    BY <1>1, <1>5, <1>10, <1>11, <1>12, <1>14, <1>15, <2>1, <2>2, <2>3, StepKeeps
<1>18. CASE run.kind = "drift" /\ ~applied
  <2>1. touched' = touched /\ next = "command"
    BY <1>3, <1>5, <1>18
  <2>2. ~Unwritten(r) /\ Reached(r)'
    BY <2>1, <1>10, <1>18 DEF Reached, Unwritten
  <2> QED
    BY <1>1, <1>5, <1>10, <1>11, <1>12, <1>14, <1>15, <1>18, <2>1, <2>2, StepKeeps
<1>19. CASE run.kind = "drift" /\ applied
  <2>1. ~touched' /\ next = "probe"
    BY <1>3, <1>5, <1>19
  <2>2. ~Unwritten(r)
    BY <2>1, <1>10, <1>19 DEF Unwritten
  <2>3. InForce
    BY <1>1, <1>2, <1>19 DEF Policy, InForce
  <2>4. Reached(r)
    BY <2>1, <2>3, <1>10, <1>19 DEF Reached
  <2>5. Reached(r)'
    BY <2>4, <1>5, PromiseStays
  <2> QED
    BY <1>1, <1>5, <1>10, <1>11, <1>12, <1>14, <1>15, <1>19, <2>1, <2>2, <2>5, StepKeeps
<1> QED
  BY <1>13, <1>17, <1>18, <1>19
\* The probes over the interfaces write nothing.
LEMMA ProbeBoundKeeps ==
  ASSUME IInv, NEW o \in Ops, ProbeBound(o)
  PROVE  IInv'
<1>1. PICK run : run = runs[o]
  OBVIOUS
<1>2. PICK next : next = IF run.kind = "apply" THEN "command" ELSE "postprobe"
  OBVIOUS
<1>3. PICK exit : exit = BoundExit(Policy(o))
  OBVIOUS
<1>4. /\ Turn(o) /\ run.pc = "probe"
      /\ runs' = [runs EXCEPT ![o].exit = exit, ![o].pc = next]
      /\ UNCHANGED <<net, rules, disk, state, phase, queue, monitor, mqtt, retained, last,
                     touched, budget>>
  BY <1>1, <1>2, <1>3 DEF ProbeBound, At
<1>5. PICK q : q = [run EXCEPT !.exit = exit]
  OBVIOUS
<1>6. PICK r : r = [q EXCEPT !.pc = next]
  OBVIOUS
<1>7. IsRun(run)
  BY <1>1, <1>4, AtFacts
<1>8. IsRun(q) /\ q.kind = run.kind /\ q.request = run.request /\ q.previous = run.previous
  BY <1>5, <1>7 DEF IsRun
<1>9. /\ IsRun(r) /\ r.pc = next /\ r.kind = run.kind /\ r.request = run.request
      /\ r.previous = run.previous
  BY <1>6, <1>8 DEF IsRun
<1>10. runs' = [runs EXCEPT ![o] = r]
  BY <1>1, <1>4, <1>5, <1>6 DEF IInv, Lined
<1>11. /\ disk = state /\ run.pc \in StepsOf(run.kind) /\ Begun(o)
       /\ run.kind \in {"apply", "disable"} => run.request.generation > state.generation
       /\ run.kind = "apply" => run.previous = state
       /\ run.kind \in {"restore", "drift"} => state.active
  BY <1>1, <1>4, AtFacts DEF Begun
<1>12. run.kind \in {"apply", "drift"}
  BY <1>4, <1>11 DEF StepsOf
<1>13. next \in StepsOf(run.kind) \ {"idle", "waiting"}
  BY <1>2, <1>12 DEF StepsOf
<1>14. Plain'
  BY <1>4 DEF IInv, Plain
<1>15. CASE run.kind = "apply"
  <2>1. Unwritten(run)
    BY <1>4, <1>15 DEF Unwritten
  <2>2. ~touched /\ last \in {"OK", "DISABLED", "ROLLED_BACK"} => Promised
    BY <1>1, <1>4, <2>1, StillPromised
  <2>3. Promised' <=> Promised
    BY <1>4, PromiseStays
  <2>4. Reached(r)'
    BY <1>2, <1>9, <1>15 DEF Reached
  <2> QED
    BY <1>1, <1>4, <1>9, <1>10, <1>11, <1>13, <1>14, <1>15, <2>2, <2>3, <2>4, StepKeeps
<1>16. CASE run.kind = "drift"
  <2>1. next = "postprobe" /\ ~Unwritten(r)
    BY <1>2, <1>9, <1>16 DEF Unwritten
  <2>2. ~touched => Reached(run)
    BY <1>1 DEF IInv, Kernel
  <2>3. ~touched => Reached(r)
    BY <2>1, <2>2, <1>4, <1>9, <1>16 DEF Reached
  <2>4. ~touched' => Reached(r)'
    BY <2>3, <1>4, PromiseStays
  <2> QED
    BY <1>1, <1>4, <1>9, <1>10, <1>11, <1>13, <1>14, <1>16, <2>1, <2>4, StepKeeps
<1> QED
  BY <1>12, <1>15, <1>16

\* What an operation past its first step, on its way to another of its steps, is about.
LEMMA OnItsWay ==
  ASSUME IInv, NEW o \in Ops, Turn(o), runs[o].pc \notin {"idle", "waiting"}
  PROVE  /\ disk = state /\ runs[o].pc \in StepsOf(runs[o].kind)
         /\ runs[o].kind \in {"apply", "disable", "restore", "drift"}
         /\ runs[o].kind = "restore" => touched
         /\ runs[o].kind \in {"apply", "disable"} =>
              runs[o].request.generation > state.generation
         /\ runs[o].kind = "apply" => runs[o].previous = state
         /\ runs[o].kind \in {"restore", "drift"} => state.active
<1>1. Begun(o)
  BY DEF Begun
<1>2. runs[o].kind \in {"apply", "disable", "restore", "drift"}
  BY AtFacts DEF StepsOf
<1> QED
  BY <1>1, <1>2, AtFacts

\* The rules are written: nothing is promised until they are verified.
LEMMA ApplyRulesKeeps ==
  ASSUME IInv, NEW o \in Ops, ApplyRules(o)
  PROVE  IInv'
<1>1. PICK next : next = IF runs[o].kind = "restore" THEN "verify" ELSE "reconnect"
  OBVIOUS
<1>2. /\ Turn(o) /\ runs[o].pc = "command" /\ Goto(o, next)
      /\ rules' = Written(Want(Policy(o), runs[o].snapshot), AllSteps)
      /\ UNCHANGED <<net, disk, state, monitor, mqtt, retained, last, touched, budget>>
  BY <1>1 DEF ApplyRules, At
<1>3. PICK r : /\ IsRun(r) /\ runs' = [runs EXCEPT ![o] = r] /\ r.pc = next
               /\ r.kind = runs[o].kind /\ r.request = runs[o].request
               /\ r.previous = runs[o].previous
  BY <1>2, GotoFacts
<1>4. UNCHANGED <<queue, phase>>
  BY <1>2, GotoFacts
<1>5. runs[o].kind \in {"apply", "restore", "drift"}
  BY <1>2, OnItsWay DEF StepsOf
<1>6. r.pc \in StepsOf(r.kind) \ {"idle", "waiting"}
  BY <1>1, <1>3, <1>5 DEF StepsOf
<1>7. rules' = [g \in GroupNames |-> rules'[g]]
  BY <1>2, WrittenRules DEF IInv
<1>8. Plain'
  BY <1>2, <1>4, <1>7 DEF IInv, Plain
<1>9. ~Unwritten(r) /\ Reached(r)'
  BY <1>1, <1>3, <1>5 DEF Unwritten, Reached
<1> QED
  BY <1>2, <1>3, <1>4, <1>6, <1>8, <1>9, OnItsWay, StepKeeps

\* The management connection is opened again: the rules stay as written.
LEMMA ReconnectKeeps ==
  ASSUME IInv, NEW o \in Ops, Reconnect(o)
  PROVE  IInv'
<1>1. /\ Turn(o) /\ runs[o].pc = "reconnect" /\ Goto(o, "verify") /\ mqtt' = "up"
      /\ UNCHANGED <<net, rules, disk, state, monitor, last, touched, budget>>
  BY DEF Reconnect, At
<1>2. PICK r : /\ IsRun(r) /\ runs' = [runs EXCEPT ![o] = r] /\ r.pc = "verify"
               /\ r.kind = runs[o].kind /\ r.request = runs[o].request
               /\ r.previous = runs[o].previous
  BY <1>1, GotoFacts
<1>3. UNCHANGED <<queue, phase>>
  BY <1>1, GotoFacts
<1>4. r.pc \in StepsOf(r.kind) \ {"idle", "waiting"}
  BY <1>1, <1>2, OnItsWay DEF StepsOf
<1>5. Plain'
  BY <1>1, <1>3 DEF IInv, Plain
<1>6. ~Unwritten(r) /\ Reached(r)'
  BY <1>2 DEF Unwritten, Reached
<1> QED
  BY <1>1, <1>2, <1>3, <1>4, <1>5, <1>6, OnItsWay, StepKeeps

\* The kernel is read back and has the rules of the policy.
LEMMA VerifyKeeps ==
  ASSUME IInv, NEW o \in Ops, Verify(o)
  PROVE  IInv'
<1>1. /\ Turn(o) /\ runs[o].pc = "verify" /\ touched' = FALSE
      /\ AssertApplied(Policy(o), Snapshot, rules)
      /\ UNCHANGED <<net, rules, monitor, mqtt, budget>>
  BY DEF Verify, At
<1>2. Snapshot' = Snapshot
  BY <1>1 DEF Snapshot
<1>3. CASE runs[o].kind = "restore"
  <2>1. RuntimeStatus("ACTIVE") /\ Leave(o) /\ state.active
    BY <1>1, <1>3, OnItsWay DEF Verify
  <2>2. /\ disk' = state' /\ IsState(state') /\ state'.active
        /\ state'.policy = state.policy
    BY <2>1, StatusFacts DEF IInv, Statuses
  <2>3. Plain'
    BY <1>1, <2>1, <2>2 DEF IInv, Plain, Leave
  <2>4. AssertApplied(state.policy, Snapshot, rules)
    BY <1>1, <1>3 DEF Policy
  <2>5. Promised'
    BY <1>1, <1>2, <2>2, <2>4 DEF Promised, InForce, AssertApplied
  <2> QED
    BY <1>1, <2>1, <2>2, <2>3, <2>5, LeaveKeeps
<1>4. CASE runs[o].kind # "restore"
  <2>1. PICK next : next = IF runs[o].kind = "apply" THEN "postprobe" ELSE "probe"
    OBVIOUS
  <2>2. Goto(o, next) /\ UNCHANGED <<disk, state, retained, last>>
    BY <1>4, <2>1 DEF Verify
  <2>3. PICK r : /\ IsRun(r) /\ runs' = [runs EXCEPT ![o] = r] /\ r.pc = next
                 /\ r.kind = runs[o].kind /\ r.request = runs[o].request
                 /\ r.previous = runs[o].previous
    BY <2>2, GotoFacts
  <2>4. UNCHANGED <<queue, phase>>
    BY <2>2, GotoFacts
  <2>5. runs[o].kind \in {"apply", "drift"}
    BY <1>1, <1>4, OnItsWay DEF StepsOf
  <2>6. r.pc \in StepsOf(r.kind) \ {"idle", "waiting"}
    BY <2>1, <2>3, <2>5 DEF StepsOf
  <2>7. Plain'
    BY <1>1, <2>2, <2>4 DEF IInv, Plain
  <2>8. ~Unwritten(r)
    BY <2>1, <2>3, <2>5 DEF Unwritten
  <2>9. Reached(r)
    <3>1. CASE runs[o].kind = "apply"
      BY <1>1, <2>1, <2>3, <3>1 DEF Reached, Policy
    <3>2. CASE runs[o].kind = "drift"
      BY <1>1, <2>1, <2>3, <3>2 DEF Reached, Policy, InForce
    <3> QED
      BY <2>5, <3>1, <3>2
  <2>10. Reached(r)'
    BY <1>1, <2>2, <2>9, PromiseStays
  <2> QED
    BY <1>1, <1>4, <2>2, <2>3, <2>4, <2>6, <2>7, <2>8, <2>10, OnItsWay, StepKeeps
<1> QED
  BY <1>3, <1>4

\* The exits agree: the policy in the kernel is the one that is saved.
LEMMA ProbeUnboundKeeps ==
  ASSUME NetworkRoutingAssumption, IInv, NEW o \in Ops, ProbeUnbound(o)
  PROVE  IInv'
<1>1. PICK run : run = runs[o]
  OBVIOUS
<1>2. /\ Turn(o) /\ run.pc = "postprobe" /\ Leave(o)
      /\ UNCHANGED <<net, rules, monitor, mqtt, touched, budget>>
  BY <1>1 DEF ProbeUnbound, At
<1>3. Snapshot' = Snapshot
  BY <1>2 DEF Snapshot
<1>4. run.kind \in {"apply", "drift"}
  BY <1>1, <1>2, OnItsWay DEF StepsOf
<1>5. ~touched => Reached(run)
  BY <1>1 DEF IInv, Kernel
<1>6. CASE run.kind = "drift"
  <2>1. RuntimeStatus("ACTIVE") /\ state.active
    BY <1>1, <1>2, <1>6, OnItsWay DEF ProbeUnbound
  <2>2. /\ disk' = state' /\ IsState(state') /\ state'.active
        /\ state'.policy = state.policy
    BY <2>1, StatusFacts DEF IInv, Statuses
  <2>3. Plain'
    BY <1>2, <2>1, <2>2 DEF IInv, Plain, Leave
  <2>4. ~touched => AssertApplied(state.policy, Snapshot, rules)
    BY <1>2, <1>5, <1>6 DEF Reached, InForce
  <2>5. ~touched' => Promised'
    BY <1>2, <1>3, <2>2, <2>4 DEF Promised, InForce, AssertApplied
  <2> QED
    BY <1>2, <2>2, <2>3, <2>5, LeaveKeeps
<1>7. CASE run.kind = "apply"
  <2>1. PICK s : s = [active |-> TRUE, generation |-> run.request.generation,
                      policy |-> run.request.policy,
                      baseline |-> IF run.previous.active THEN run.previous.baseline
                                   ELSE run.snapshot.default,
                      status |-> "ACTIVE"]
    OBVIOUS
  <2>2. disk' = s /\ state' = s
    BY <1>1, <1>7, <2>1 DEF ProbeUnbound, Save
  <2>3. run.request \in Requests /\ run.request.kind = "apply"
    BY <1>1, <1>2, <1>7, AtFacts
  <2>4. IsState(s)
    BY <2>1, <2>3, RequestFacts DEF IsState, Statuses
  <2>5. Plain'
    BY <1>2, <2>2, <2>4 DEF IInv, Plain, Leave
  <2>6. ~touched => AssertApplied(run.request.policy, Snapshot, rules)
    BY <1>2, <1>5, <1>7 DEF Reached
  <2>7. s.active /\ s.policy = run.request.policy
    BY <2>1
  <2>8. ~touched' => Promised'
    BY <1>2, <1>3, <2>2, <2>6, <2>7 DEF Promised, InForce, AssertApplied
  <2> QED
    BY <1>2, <2>2, <2>5, <2>8, LeaveKeeps
<1> QED
  BY <1>4, <1>6, <1>7
\* A step fails: an apply that has written rules rolls back, what wrote none is
\* answered, and a restore or a drift check ends degraded.
LEMMA StepFailsKeeps ==
  ASSUME IInv, NEW o \in Ops, StepFails(o)
  PROVE  IInv'
<1>1. /\ Turn(o)
      /\ runs[o].pc \in {"inspect", "probe", "command", "reconnect", "verify", "postprobe"}
      /\ Fails(o) /\ UNCHANGED <<net, monitor, touched>>
      /\ mqtt' \in {mqtt, "down"}
      /\ Trouble \/ UNCHANGED budget
  BY DEF StepFails
<1>2. PICK k \in Steps \ {AllSteps} :
        rules' = IF runs[o].pc = "command"
                 THEN Written(Want(Policy(o), runs[o].snapshot), k) ELSE rules
  BY DEF StepFails
<1>3. rules' = [g \in GroupNames |-> rules'[g]]
  BY <1>2, WrittenRules DEF IInv, Plain
<1>4. budget' \in [requests : Nat, troubles : Nat]
  BY <1>1, BudgetFacts DEF IInv
<1>5. mqtt' \in {"up", "down"}
  BY <1>1 DEF IInv, Plain
<1>6. CASE runs[o].kind # "apply"
  <2>1. Leave(o) /\ RuntimeStatus("DEGRADED") /\ last' = "DEGRADED"
    BY <1>1, <1>6 DEF Fails
  <2>2. disk' = state' /\ IsState(state')
    BY <2>1, StatusFacts DEF IInv, Statuses
  <2>3. Plain'
    BY <1>1, <1>3, <1>4, <1>5, <2>1, <2>2 DEF IInv, Plain, Leave
  <2> QED
    BY <1>1, <2>1, <2>2, <2>3, LeaveKeeps
<1>7. CASE runs[o].kind = "apply"
  <2>1. UNCHANGED <<disk, state, retained, last>>
    BY <1>1, <1>7 DEF Fails
  <2>2. disk' = state' /\ disk = state
    BY <1>1, <2>1, AtFacts
  <2>3. CASE runs[o].pc \in {"inspect", "probe"}
    <3>1. Leave(o) /\ rules' = rules
      BY <1>1, <1>2, <1>7, <2>3 DEF Fails
    <3>2. Plain'
      BY <1>1, <1>3, <1>4, <1>5, <2>1, <3>1 DEF IInv, Plain, Leave
    <3>3. Unwritten(runs[o])
      BY <1>7, <2>3 DEF Unwritten
    <3>4. ~touched /\ last \in {"OK", "DISABLED", "ROLLED_BACK"} => Promised
      BY <1>1, <3>3, StillPromised
    <3>5. Promised' <=> Promised
      BY <1>1, <2>1, <3>1, PromiseStays
    <3> QED
      BY <1>1, <2>1, <2>2, <3>1, <3>2, <3>4, <3>5, LeaveKeeps
  <2>4. CASE runs[o].pc \notin {"inspect", "probe"}
    <3>1. Goto(o, "rollback")
      BY <1>1, <1>7, <2>4 DEF Fails
    <3>2. PICK r : /\ IsRun(r) /\ runs' = [runs EXCEPT ![o] = r] /\ r.pc = "rollback"
                   /\ r.kind = runs[o].kind /\ r.request = runs[o].request
                   /\ r.previous = runs[o].previous
      BY <3>1, GotoFacts
    <3>3. UNCHANGED <<queue, phase>>
      BY <3>1, GotoFacts
    <3>4. r.pc \in StepsOf(r.kind) \ {"idle", "waiting"}
      BY <1>7, <3>2 DEF StepsOf
    <3>5. Plain'
      BY <1>1, <1>3, <1>4, <1>5, <2>1, <3>3 DEF IInv, Plain
    <3>6. ~Unwritten(r) /\ Reached(r)'
      BY <3>2 DEF Unwritten, Reached
    <3> QED
      BY <1>1, <1>7, <2>1, <2>2, <3>2, <3>3, <3>4, <3>5, <3>6, OnItsWay, StepKeeps
  <2> QED
    BY <2>3, <2>4
<1> QED
  BY <1>6, <1>7

\* The rules of the policy before are in the kernel again, or none.
LEMMA RestorePreviousKeeps ==
  ASSUME IInv, RestorePrevious
  PROVE  IInv'
<1>1. PICK previous : previous = runs["task"].previous
  OBVIOUS
<1>2. /\ "task" \in Ops /\ Turn("task") /\ runs["task"].pc = "rollback" /\ touched' = FALSE
      /\ Goto("task", "rollbackReconnect")
      /\ UNCHANGED <<net, disk, state, monitor, mqtt, retained, last, budget>>
  BY DEF RestorePrevious, At, Ops
<1>3. \/ previous.active /\ rules' = Written(Want(previous.policy, Snapshot), AllSteps)
      \/ ~previous.active /\ rules' = Cleared(runs["task"].snapshot.default)
  BY <1>1 DEF RestorePrevious
<1>4. rules' = [g \in GroupNames |-> rules'[g]]
  BY <1>3, WrittenRules, ClearedFacts DEF IInv
<1>5. PICK r : /\ IsRun(r) /\ runs' = [runs EXCEPT !["task"] = r]
               /\ r.pc = "rollbackReconnect"
               /\ r.kind = runs["task"].kind /\ r.request = runs["task"].request
               /\ r.previous = previous
  BY <1>1, <1>2, GotoFacts
<1>6. UNCHANGED <<queue, phase>>
  BY <1>2, GotoFacts
<1>7. runs["task"].kind = "apply"
  BY <1>2, OnItsWay DEF StepsOf
<1>8. r.pc \in StepsOf(r.kind) \ {"idle", "waiting"}
  BY <1>5, <1>7 DEF StepsOf
<1>9. Plain'
  BY <1>2, <1>4, <1>6 DEF IInv, Plain
<1>10. Snapshot' = Snapshot
  BY <1>2 DEF Snapshot
<1>11. Kept(previous)'
  <2>1. CASE previous.active /\ rules' = Written(Want(previous.policy, Snapshot), AllSteps)
    <3>1. \A g \in GroupNames \ {"ndc"} : rules'[g] = Want(previous.policy, Snapshot)[g]
      BY <2>1, WrittenWhole
    <3> QED
      BY <2>1, <3>1, <1>10 DEF Kept, AssertApplied
  <2>2. CASE ~previous.active /\ rules' = Cleared(runs["task"].snapshot.default)
    BY <2>2, ClearedFacts DEF Kept, NoRules
  <2> QED
    BY <1>3, <2>1, <2>2
<1>12. ~Unwritten(r) /\ Reached(r)'
  BY <1>5, <1>11 DEF Unwritten, Reached
<1> QED
  BY <1>1, <1>2, <1>5, <1>6, <1>7, <1>8, <1>9, <1>12, OnItsWay, StepKeeps

\* The state before is the manager's again, and the kernel has its rules.
LEMMA RolledBackKeeps ==
  ASSUME IInv, RolledBack
  PROVE  IInv'
<1>1. /\ "task" \in Ops /\ Turn("task") /\ runs["task"].pc = "rollbackReconnect"
      /\ mqtt' = "up" /\ state' = runs["task"].previous /\ Leave("task")
      /\ UNCHANGED <<net, rules, disk, monitor, touched, budget>>
  BY DEF RolledBack, At, Ops
<1>2. runs["task"].kind = "apply" /\ state' = state /\ disk' = state'
  BY <1>1, OnItsWay DEF StepsOf
<1>3. Plain'
  BY <1>1, <1>2 DEF IInv, Plain, Leave
<1>4. ~touched => Kept(state)
  <2>1. ~touched => Reached(runs["task"])
    BY <1>1 DEF IInv, Kernel
  <2> QED
    BY <2>1, <1>1, <1>2 DEF Reached
<1>5. ~touched => Promised
  BY <1>4 DEF Kept, Promised, InForce
<1>6. Promised' <=> Promised
  BY <1>1, <1>2, PromiseStays
<1> QED
  BY <1>1, <1>2, <1>3, <1>5, <1>6, LeaveKeeps

\* A rollback that fails promises nothing, and keeps the generation of the request.
LEMMA RollbackFailsKeeps ==
  ASSUME NetworkRoutingAssumption, IInv, RollbackFails
  PROVE  IInv'
<1>1. PICK run : run = runs["task"]
  OBVIOUS
<1>2. PICK s : s = [active |-> TRUE, generation |-> run.request.generation,
                    policy |-> IF run.previous.active THEN run.previous.policy
                               ELSE run.request.policy,
                    baseline |-> IF run.previous.baseline # None THEN run.previous.baseline
                                 ELSE run.snapshot.default,
                    status |-> "DEGRADED"]
  OBVIOUS
<1>3. /\ "task" \in Ops /\ Turn("task") /\ run.pc \in {"rollback", "rollbackReconnect"}
      /\ mqtt' = IF run.pc = "rollbackReconnect" THEN "down" ELSE mqtt
      /\ disk' = s /\ state' = s /\ last' = "ROLLBACK_FAILED" /\ Leave("task")
      /\ UNCHANGED <<net, monitor, touched>>
  BY <1>1, <1>2 DEF RollbackFails, Ops
<1>4. \/ UNCHANGED <<budget, rules>>
      \/ Trouble /\ \E want, k : rules' = IF run.pc = "rollback" THEN Written(want, k)
                                          ELSE rules
  BY <1>1 DEF RollbackFails
<1>5. rules' = [g \in GroupNames |-> rules'[g]]
  BY <1>4, WrittenRules DEF IInv, Plain
<1>6. budget' \in [requests : Nat, troubles : Nat]
  BY <1>4, BudgetFacts DEF IInv
<1>7. mqtt' \in {"up", "down"}
  BY <1>3 DEF IInv, Plain
<1>8. /\ run.kind = "apply" /\ run.previous = state /\ IsState(state)
      /\ run.request \in Requests /\ run.request.kind = "apply"
  <2>1. run.kind = "apply" /\ run.previous = state
    BY <1>1, <1>3, OnItsWay DEF StepsOf
  <2> QED
    BY <1>1, <1>3, <2>1, AtFacts
<1>9. IsState(s)
  <2>1. /\ s.active = TRUE /\ s.generation = run.request.generation
        /\ s.status = "DEGRADED"
        /\ s.policy = IF run.previous.active THEN run.previous.policy ELSE run.request.policy
        /\ s = [active |-> s.active, generation |-> s.generation, policy |-> s.policy,
                baseline |-> s.baseline, status |-> s.status]
    BY <1>2
  <2>2. s.policy # None
    BY <1>8, <2>1, RequestFacts DEF IsState
  <2> QED
    BY <1>8, <2>1, <2>2, RequestFacts DEF IsState, Statuses
<1>10. Plain'
  BY <1>3, <1>5, <1>6, <1>7, <1>9 DEF IInv, Plain, Leave
<1> QED
  BY <1>3, <1>10, LeaveKeeps

\* The managed rules are removed.
LEMMA RemoveRulesKeeps ==
  ASSUME IInv, RemoveRules
  PROVE  IInv'
<1>1. /\ "task" \in Ops /\ Turn("task") /\ runs["task"].pc = "removal" /\ touched' = FALSE
      /\ Goto("task", "removed")
      /\ UNCHANGED <<net, disk, state, monitor, mqtt, retained, last>>
  BY DEF RemoveRules, At, Ops
<1>2. PICK id : rules' = Cleared(id) /\ (Trouble \/ UNCHANGED budget)
  BY DEF RemoveRules
<1>3. PICK r : /\ IsRun(r) /\ runs' = [runs EXCEPT !["task"] = r] /\ r.pc = "removed"
               /\ r.kind = runs["task"].kind /\ r.request = runs["task"].request
               /\ r.previous = runs["task"].previous
  BY <1>1, GotoFacts
<1>4. UNCHANGED <<queue, phase>>
  BY <1>1, GotoFacts
<1>5. runs["task"].kind = "disable"
  BY <1>1, OnItsWay DEF StepsOf
<1>6. r.pc \in StepsOf(r.kind) \ {"idle", "waiting"}
  BY <1>3, <1>5 DEF StepsOf
<1>7. rules' = [g \in GroupNames |-> rules'[g]] /\ NoRules'
  BY <1>2, ClearedFacts DEF NoRules
<1>8. budget' \in [requests : Nat, troubles : Nat]
  BY <1>2, BudgetFacts DEF IInv
<1>9. Plain'
  BY <1>1, <1>4, <1>7, <1>8 DEF IInv, Plain
<1>10. ~Unwritten(r) /\ Reached(r)'
  BY <1>3, <1>5, <1>7 DEF Unwritten, Reached
<1> QED
  BY <1>1, <1>3, <1>4, <1>5, <1>6, <1>9, <1>10, OnItsWay, StepKeeps

\* The state that says routing is off is saved with the rules gone.
LEMMA DisableDoneKeeps ==
  ASSUME NetworkRoutingAssumption, IInv, DisableDone
  PROVE  IInv'
<1>1. PICK s : s = Disabled(runs["task"].request.generation)
  OBVIOUS
<1>2. /\ "task" \in Ops /\ Turn("task") /\ runs["task"].pc = "removed" /\ mqtt' = "up"
      /\ disk' = s /\ state' = s /\ Leave("task")
      /\ UNCHANGED <<net, rules, monitor, touched, budget>>
  BY <1>1 DEF DisableDone, At, Ops
<1>3. runs["task"].kind = "disable" /\ runs["task"].request \in Requests
  BY <1>2, OnItsWay, AtFacts DEF StepsOf
<1>4. IsState(s) /\ ~s.active
  BY <1>1, <1>3, RequestFacts DEF IsState, Disabled, Statuses
<1>5. Plain'
  BY <1>2, <1>4 DEF IInv, Plain, Leave
<1>6. ~touched => NoRules
  <2>1. ~touched => Reached(runs["task"])
    BY <1>2 DEF IInv, Kernel
  <2> QED
    BY <2>1, <1>2 DEF Reached
<1>7. ~touched' => Promised'
  BY <1>2, <1>4, <1>6 DEF Promised, NoRules
<1> QED
  BY <1>2, <1>5, <1>7, LeaveKeeps

\* A disable that fails promises nothing.
LEMMA DisableFailsKeeps ==
  ASSUME IInv, DisableFails
  PROVE  IInv'
<1>1. /\ "task" \in Ops /\ Turn("task") /\ runs["task"].pc \in {"removal", "removed"}
      /\ last' = "DISABLE_FAILED" /\ Leave("task")
      /\ mqtt' = IF runs["task"].pc = "removed" THEN "down" ELSE mqtt
      /\ Trouble \/ UNCHANGED budget
      /\ UNCHANGED <<net, disk, state, monitor, retained, touched>>
  BY DEF DisableFails, Ops
<1>2. PICK k : rules' = IF runs["task"].pc = "removal" THEN Written(Clear, k) ELSE rules
  BY DEF DisableFails
<1>3. rules' = [g \in GroupNames |-> rules'[g]]
  BY <1>2, WrittenRules DEF IInv, Plain
<1>4. budget' \in [requests : Nat, troubles : Nat] /\ mqtt' \in {"up", "down"}
  BY <1>1, BudgetFacts DEF IInv, Plain
<1>5. Plain'
  BY <1>1, <1>3, <1>4 DEF IInv, Plain, Leave
<1>6. disk' = state'
  BY <1>1, AtFacts
<1> QED
  BY <1>1, <1>5, <1>6, LeaveKeeps
\* Around the manager: what changes the network or the rules says so.
LEMMA NetworkChangesKeeps ==
  ASSUME IInv, NetworkChanges \/ RuleLost
  PROVE  IInv'
<1>1. /\ touched' /\ Trouble
      /\ UNCHANGED <<disk, state, phase, queue, runs, mqtt, last>>
  BY DEF NetworkChanges, RuleLost
<1>2. /\ net' \in Networks /\ rules' = [g \in GroupNames |-> rules'[g]]
      /\ monitor' \in [running : BOOLEAN, debounce : BOOLEAN]
  BY DEF NetworkChanges, RuleLost, Noticed, IInv, Plain
<1>3. budget' \in [requests : Nat, troubles : Nat] /\ touched' \in BOOLEAN
  BY <1>1, BudgetFacts DEF NetworkChanges, RuleLost, IInv
<1>4. Plain'
  BY <1>1, <1>2, <1>3 DEF IInv, Plain
<1>5. Lined' /\ InTurn'
  BY <1>1 DEF IInv, Lined, InTurn, Begun, Turn
<1>6. Found'
  BY <1>1 DEF IInv, Found, Begun
<1>7. Kernel'
  BY <1>1 DEF Kernel
<1> QED
  BY <1>4, <1>5, <1>6, <1>7 DEF IInv

\* The monitor, the connection and their timers write no state and no rule.
LEMMA OutsideKeeps ==
  ASSUME IInv, MonitorExits \/ MonitorStarts \/ ConnectionLost \/ Connected
  PROVE  IInv'
<1>1. /\ UNCHANGED <<net, rules, disk, state, phase, queue, runs, last, touched>>
      /\ mqtt' \in {mqtt, "up", "down"}
      /\ Trouble \/ UNCHANGED budget
  BY DEF MonitorExits, MonitorStarts, ConnectionLost, Connected
<1>2. monitor' \in [running : BOOLEAN, debounce : BOOLEAN]
  BY DEF MonitorExits, MonitorStarts, ConnectionLost, Connected, IInv, Plain
<1>3. budget' \in [requests : Nat, troubles : Nat]
  BY <1>1, BudgetFacts DEF IInv
<1>4. Plain'
  BY <1>1, <1>2, <1>3 DEF IInv, Plain
<1> QED
  BY <1>1, <1>4, Aside

\* After a restart one operation waits, alone, for its turn to restore the routes.
LEMMA RestartKeeps ==
  ASSUME IInv, Restart
  PROVE  IInv'
<1>1. PICK r : r = [Resting EXCEPT !.pc = "waiting", !.kind = "restore"]
  OBVIOUS
<1>2. /\ rules' \in {rules, Clear} /\ state' = disk /\ phase' = "restoring"
      /\ runs' = [o \in Ops |-> IF o = "task" THEN r ELSE Resting]
      /\ queue' = <<"task">> /\ monitor' = [running |-> FALSE, debounce |-> FALSE]
      /\ mqtt' = "down" /\ touched' = TRUE /\ UNCHANGED <<net, disk, last>>
  BY <1>1 DEF Restart
<1>3. budget' \in [requests : Nat, troubles : Nat]
  BY BudgetFacts DEF Restart, IInv
<1>4. rules' = [g \in GroupNames |-> rules'[g]]
  BY <1>2 DEF IInv, Plain, Clear
<1>5. Plain'
  BY <1>2, <1>3, <1>4 DEF IInv, Plain
<1>6. /\ IsRun(r) /\ r.pc = "waiting" /\ r.kind = "restore"
      /\ IsRun(Resting) /\ Resting.pc = "idle" /\ Resting.kind = "none"
  BY <1>1 DEF IsRun, Resting
<1>7. "task" \in Ops
  BY DEF Ops
<1>8. /\ queue' \in Seq(Ops) /\ Len(queue') = 1 /\ queue'[1] = "task"
      /\ queue' # <<>> /\ Head(queue') = "task"
  BY <1>2, <1>7
<1>9. \A o \in Ops : runs'[o] = IF o = "task" THEN r ELSE Resting
  BY <1>2
<1>10. \A o \in Ops :
        /\ IsRun(runs'[o]) /\ runs'[o].kind \in KindsOf(o)
        /\ runs'[o].pc \in StepsOf(runs'[o].kind)
        /\ runs'[o].pc = "idle" <=> o # "task"
        /\ runs'[o].kind \notin {"apply", "disable"}
  BY <1>6, <1>9 DEF KindsOf, StepsOf
<1>11. \A o \in Ops : (\A i \in 1..Len(queue') : queue'[i] # o) <=> o # "task"
  BY <1>8
<1>12. runs' = [o \in Ops |-> runs'[o]]
  BY <1>2
<1>13. Lined'
  BY <1>8, <1>10, <1>11, <1>12 DEF Lined
<1>14. \A o \in Ops : ~Begun(o)'
  BY <1>6, <1>9 DEF Begun
<1>15. InTurn'
  BY <1>2, <1>8, <1>14 DEF InTurn, Turn
<1>16. Found'
  BY <1>2, <1>7, <1>14 DEF Found
<1>17. Kernel'
  BY <1>2 DEF Kernel
<1> QED
  BY <1>5, <1>13, <1>15, <1>16, <1>17 DEF IInv

\* Every step keeps the invariant.
LEMMA NextInvariant ==
  ASSUME NetworkRoutingAssumption, IInv, [Next]_vars
  PROVE  IInv'
<1>1. CASE \E o \in Ops : OpSteps(o)
  BY <1>1, BeginDriftKeeps, BeginRestoreKeeps, InspectKeeps, ProbeBoundKeeps, ApplyRulesKeeps,
     ReconnectKeeps, VerifyKeeps, ProbeUnboundKeeps, StepFailsKeeps DEF OpSteps
<1>2. CASE TaskSteps
  BY <1>2, BeginApplyKeeps, BeginDisableKeeps, RestorePreviousKeeps, RolledBackKeeps,
     RollbackFailsKeeps, RemoveRulesKeeps, DisableDoneKeeps, DisableFailsKeeps DEF TaskSteps
<1>3. CASE PeriodicCheck \/ ReconcileChange
  BY <1>3, PeriodicCheckKeeps, ReconcileChangeKeeps
<1>4. CASE MonitorStarts \/ Connected
  BY <1>4, OutsideKeeps
<1>5. CASE Environment
  BY <1>5, RequestKeeps, NetworkChangesKeeps, OutsideKeeps, RestartKeeps DEF Environment
<1>6. CASE UNCHANGED vars
  <2>1. Plain'
    BY <1>6 DEF vars, IInv, Plain
  <2> QED
    BY <1>6, <2>1, Aside DEF vars
<1> QED
  BY <1>1, <1>2, <1>3, <1>4, <1>5, <1>6 DEF Next

-----------------------------------------------------------------------------
(* What every behaviour of the specification has. *)

\* The invariant holds in every state: of the routing state, the queue of operations
\* and the rules in the kernel between any two awaits of the manager.
THEOREM Invariance == Spec => []IInv
<1>1. Init => IInv
  BY InitInvariant, NetworkRoutingAssumption
<1>2. IInv /\ [Next]_vars => IInv'
  BY NextInvariant, NetworkRoutingAssumption
<1> QED
  BY <1>1, <1>2, PTL DEF Spec

\* Every variable keeps its type: no operation is in the queue twice, one is idle
\* exactly when it is not in it, and a state is active exactly when it has a policy.
THEOREM TypeCorrect == Spec => []TypeOK
<1>1. IInv => TypeOK
  <2> SUFFICES ASSUME IInv PROVE TypeOK
    OBVIOUS
  <2>1. \A i \in 1..Len(queue) : queue[i] \in Ops
    BY DEF IInv, Lined
  <2>2. \A b \in DOMAIN budget : budget[b] >= 0
    BY DEF IInv, Plain
  <2>3. DOMAIN rules = GroupNames
    BY DEF IInv, Plain
  <2> QED
    BY <2>1, <2>2, <2>3 DEF IInv, Plain, Lined, IsState, TypeOK
<1> QED
  BY <1>1, Invariance, PTL

\* With no operation under way and nothing changed around the manager, what the last
\* operation answered is what the kernel has: the policy saved as ACTIVE with all of
\* its groups, or no managed rule when the state says routing is off.
THEOREM KernelIsAsPromised == Spec => []KernelAsPromised
<1>1. IInv => KernelAsPromised
  <2> SUFFICES ASSUME IInv, Idle, ~touched, last \in {"OK", "DISABLED", "ROLLED_BACK"}
               PROVE  Promised
    BY DEF KernelAsPromised, Promised
  <2>1. \A o \in Ops : runs[o].pc = "idle"
    BY DEF IInv, Lined, Idle
  <2>2. \A o \in Ops : Unwritten(runs[o])
    BY <2>1 DEF Unwritten
  <2> QED
    BY <2>2 DEF IInv, Kernel
<1> QED
  BY <1>1, Invariance, PTL

\* The parts of DisabledStaysDisabled, as one step.
DisabledStep ==
  /\ disk'.generation >= disk.generation
  /\ disk.active /\ ~disk'.active => disk'.generation > disk.generation
  /\ ~disk.active /\ NoRules /\ ~NoRules' =>
       /\ runs["task"].kind = "apply"
       /\ runs["task"].request.generation > disk.generation

\* A step that keeps the saved state's generation and activity, and writes no rule.
LEMMA QuietStep ==
  ASSUME IInv, disk'.generation = disk.generation, disk'.active = disk.active,
         NoRules => NoRules'
  PROVE  DisabledStep
<1>1. disk.generation \in Nat
  BY DEF IInv, Plain, IsState
<1> QED
  BY <1>1 DEF DisabledStep

\* The steps of an operation that has the turn.
LEMMA OperationStep ==
  ASSUME NetworkRoutingAssumption, IInv, NEW o \in Ops, OpSteps(o)
  PROVE  DisabledStep
<1>1. Turn(o) /\ disk = state
  <2>1. Turn(o)
    BY DEF OpSteps, BeginDrift, BeginRestore, Inspect, ProbeBound, ApplyRules, Reconnect,
           Verify, ProbeUnbound, StepFails, At
  <2> QED
    BY <2>1, AtFacts
<1>2. \A s \in Statuses : RuntimeStatus(s) => /\ disk'.generation = disk.generation
                                              /\ disk'.active = disk.active
  BY <1>1, StatusFacts DEF IInv
<1>3. {"RECOVERING", "ACTIVE", "DEGRADED"} \subseteq Statuses
  BY DEF Statuses
<1>4. CASE BeginDrift(o) \/ BeginRestore(o) \/ Inspect(o) \/ ProbeBound(o) \/ Reconnect(o)
           \/ Verify(o)
  <2>1. rules' = rules /\ (disk' = disk \/ RuntimeStatus("RECOVERING") \/ RuntimeStatus("ACTIVE"))
    BY <1>4 DEF BeginDrift, BeginRestore, Inspect, ProbeBound, Reconnect, Verify
  <2>2. NoRules => NoRules'
    BY <2>1 DEF NoRules
  <2> QED
    BY <1>2, <1>3, <2>1, <2>2, QuietStep
<1>5. \/ runs[o].kind = "apply" /\ o = "task" /\ runs[o].request.generation > disk.generation
      \/ disk.active \/ runs[o].pc # "command"
  <2>1. CASE runs[o].pc = "command"
    <3>1. runs[o].kind \in {"apply", "restore", "drift"}
      BY <1>1, <2>1, OnItsWay DEF StepsOf
    <3>2. runs[o].kind = "apply" => o = "task"
      BY DEF IInv, Lined, KindsOf
    <3> QED
      BY <1>1, <2>1, <3>1, <3>2, OnItsWay
  <2> QED
    BY <2>1
<1>6. disk.generation \in Nat
  BY DEF IInv, Plain, IsState
<1>7. CASE ApplyRules(o)
  <2>1. runs[o].pc = "command" /\ disk' = disk
    BY <1>7 DEF ApplyRules, At
  <2> QED
    BY <1>5, <1>6, <2>1 DEF DisabledStep
<1>8. CASE StepFails(o)
  <2>1. disk' = disk \/ RuntimeStatus("DEGRADED")
    BY <1>8 DEF StepFails, Fails
  <2>2. disk'.generation = disk.generation /\ disk'.active = disk.active
    BY <1>2, <1>3, <2>1
  <2>3. runs[o].pc # "command" => (NoRules => NoRules')
    BY <1>8 DEF StepFails, NoRules
  <2> QED
    BY <1>5, <1>6, <2>2, <2>3 DEF DisabledStep
<1>9. CASE ProbeUnbound(o)
  <2>1. rules' = rules /\ runs[o].pc = "postprobe"
    BY <1>9 DEF ProbeUnbound, At
  <2>2. NoRules => NoRules'
    BY <2>1 DEF NoRules
  <2>3. runs[o].kind \in {"apply", "drift"}
    BY <1>1, <2>1, OnItsWay DEF StepsOf
  <2>4. CASE runs[o].kind = "drift"
    BY <1>2, <1>3, <1>9, <2>2, <2>4, QuietStep DEF ProbeUnbound
  <2>5. CASE runs[o].kind = "apply"
    <3>1. disk'.generation = runs[o].request.generation /\ disk'.active
      BY <1>9, <2>5 DEF ProbeUnbound, Save
    <3>2. /\ runs[o].request.generation > disk.generation
          /\ runs[o].request \in Requests
      BY <1>1, <2>1, <2>5, OnItsWay, AtFacts
    <3>3. runs[o].request.generation \in Nat
      BY <3>2, RequestFacts
    <3> QED
      BY <1>6, <2>2, <3>1, <3>2, <3>3 DEF DisabledStep
  <2> QED
    BY <2>3, <2>4, <2>5
<1> QED
  BY <1>4, <1>7, <1>8, <1>9 DEF OpSteps

\* The steps of a request that is applied, rolled back or disabled.
LEMMA TaskStep ==
  ASSUME NetworkRoutingAssumption, IInv, TaskSteps
  PROVE  DisabledStep
<1>1. PICK run : run = runs["task"]
  OBVIOUS
<1>2. "task" \in Ops /\ Turn("task")
  BY DEF Ops, TaskSteps, BeginApply, BeginDisable, RestorePrevious, RolledBack, RollbackFails,
         RemoveRules, DisableDone, DisableFails, At
<1>3. disk = state /\ disk.generation \in Nat
  BY <1>2, AtFacts DEF IInv, Plain, IsState
<1>4. run.pc \in {"rollback", "rollbackReconnect"} =>
        run.kind = "apply" /\ run.request.generation > disk.generation
  BY <1>1, <1>2, <1>3, OnItsWay DEF StepsOf
<1>5. run.pc \in {"rollback", "rollbackReconnect", "removed"} =>
        run.request.generation > disk.generation /\ run.request.generation \in Nat
  <2> SUFFICES ASSUME run.pc \in {"rollback", "rollbackReconnect", "removed"}
               PROVE  run.request.generation > disk.generation
                      /\ run.request.generation \in Nat
    OBVIOUS
  <2>1. run.kind \in {"apply", "disable"} /\ run.request.generation > disk.generation
    BY <1>1, <1>2, <1>3, OnItsWay DEF StepsOf
  <2>2. run.request \in Requests
    BY <1>1, <1>2, <2>1, AtFacts
  <2> QED
    BY <2>1, <2>2, RequestFacts
<1>6. CASE BeginApply \/ BeginDisable \/ RolledBack
  <2>1. rules' = rules /\ disk' = disk
    BY <1>6 DEF BeginApply, BeginDisable, RolledBack
  <2>2. NoRules => NoRules'
    BY <2>1 DEF NoRules
  <2> QED
    BY <2>1, <2>2, QuietStep
<1>7. CASE RestorePrevious
  <2>1. run.pc = "rollback" /\ disk' = disk
    BY <1>1, <1>7 DEF RestorePrevious, At
  <2> QED
    BY <1>1, <1>3, <1>4, <2>1 DEF DisabledStep
<1>8. CASE RollbackFails
  <2>1. run.pc \in {"rollback", "rollbackReconnect"}
    BY <1>1, <1>8 DEF RollbackFails
  <2>2. disk'.generation = run.request.generation /\ disk'.active
    BY <1>1, <1>8 DEF RollbackFails
  <2> QED
    BY <1>1, <1>3, <1>4, <1>5, <2>1, <2>2 DEF DisabledStep
<1>9. CASE RemoveRules
  <2>1. disk' = disk /\ \E id : rules' = Cleared(id)
    BY <1>9 DEF RemoveRules
  <2>2. NoRules'
    BY <2>1, ClearedFacts DEF NoRules
  <2> QED
    BY <2>1, <2>2, QuietStep
<1>10. CASE DisableDone
  <2>1. run.pc = "removed" /\ rules' = rules /\ disk' = Disabled(run.request.generation)
    BY <1>1, <1>10 DEF DisableDone, At
  <2>2. disk'.generation = run.request.generation /\ (NoRules => NoRules')
    BY <2>1 DEF Disabled, NoRules
  <2> QED
    BY <1>3, <1>5, <2>1, <2>2 DEF DisabledStep
<1>11. CASE DisableFails
  <2>1. disk' = disk /\ \E k : rules' = Written(Clear, k) \/ rules' = rules
    BY <1>11 DEF DisableFails
  <2>2. NoRules => NoRules'
    BY <2>1, WrittenClear DEF NoRules
  <2> QED
    BY <2>1, <2>2, QuietStep
<1> QED
  BY <1>6, <1>7, <1>8, <1>9, <1>10, <1>11 DEF TaskSteps

\* Everything else: what comes in, and what happens around the manager.
LEMMA OtherStep ==
  ASSUME IInv, \/ PeriodicCheck \/ ReconcileChange \/ MonitorStarts \/ Connected
               \/ Environment \/ UNCHANGED vars
  PROVE  DisabledStep
<1>1. disk' = disk
  BY DEF PeriodicCheck, ReconcileChange, MonitorStarts, Connected, Environment, Request,
         NetworkChanges, RuleLost, MonitorExits, ConnectionLost, Restart, vars
<1>2. NoRules => NoRules'
  <2>1. CASE RuleLost
    <3>1. PICK g \in GroupNames : rules' = [rules EXCEPT ![g] = None]
      BY <2>1 DEF RuleLost
    <3>2. rules = [h \in GroupNames |-> rules[h]]
      BY DEF IInv, Plain
    <3> QED
      BY <3>1, <3>2 DEF NoRules
  <2>2. CASE Restart
    <3>1. rules' \in {rules, Clear}
      BY <2>2 DEF Restart
    <3> QED
      BY <3>1 DEF NoRules, Clear
  <2>3. CASE ~RuleLost /\ ~Restart
    <3>1. rules' = rules
      BY <2>3 DEF PeriodicCheck, ReconcileChange, MonitorStarts, Connected, Environment,
             Request, NetworkChanges, MonitorExits, ConnectionLost, vars
    <3> QED
      BY <3>1 DEF NoRules
  <2> QED
    BY <2>1, <2>2, <2>3
<1> QED
  BY <1>1, <1>2, QuietStep

\* The generation on disk never goes back, routing is switched off only by a later
\* one, and rules come to a phone that has none only by a request to apply a policy
\* of a generation later than the one it was disabled with.
THEOREM StaysDisabled == Spec => DisabledStaysDisabled
<1>1. IInv /\ [Next]_vars => DisabledStep
  BY OperationStep, TaskStep, OtherStep, NetworkRoutingAssumption DEF Next
<1>2. IInv /\ [Next]_vars =>
        [/\ disk'.generation >= disk.generation
         /\ disk.active /\ ~disk'.active => disk'.generation > disk.generation
         /\ ~disk.active /\ NoRules /\ ~NoRules' =>
              /\ runs["task"].kind = "apply"
              /\ runs["task"].request.generation > disk.generation]_vars
  BY <1>1 DEF DisabledStep
<1> QED
  BY <1>2, Invariance, PTL DEF Spec, DisabledStaysDisabled
=============================================================================
