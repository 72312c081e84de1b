-------------------------- MODULE TaskDeliveryProofs --------------------------
(***************************************************************************)
(* Safety of dispatch and result delivery for any set of tasks and any     *)
(* number of answers, lost connections, repetitions and restarts.          *)
(***************************************************************************)
EXTENDS TaskDelivery, TLAPS

\* Whatever is known of a task, it has been dispatched.
OnlyDispatched ==
  /\ sending \cup outgoing \cup accepted \cup commands \cup tracked
       \cup callback \subseteq dispatched
  /\ \A t \in Tasks :
       \/ record[t].status # "MISSING"
       \/ answers[t] # 0 \/ delivering[t] # 0 \/ outbox[t] # 0
       => t \in dispatched
  /\ \A x \in taken : x[1].task \in dispatched

\* The server keeps no record of the tasks of the Node Server.
CallbackElsewhere == \A t \in callback : ~Open(t)

InInbox(t) == \E m \in inbox : m.task = t

\* A result the broker has taken is in the inbox, or has closed the record.
TakenIsHeard ==
  \A x \in taken : x[2] = "mqtt" /\ Open(x[1].task) => InInbox(x[1].task)

\* Where an open task is once the broker has taken its command.
Underway(t) ==
  \/ t \in commands \cup tracked
  \/ outbox[t] # 0
  \/ InInbox(t)
  \/ t \in dropped \cup lapsed

OnItsWay ==
  \A t \in Tasks : Open(t) => t \in outgoing \ accepted \/ Underway(t)

IInv ==
  /\ TypeOK /\ OnlyDispatched /\ CallbackElsewhere /\ TakenIsHeard
  /\ OnItsWay /\ ResultKept

LEMMA InitIInv == Init => IInv
<1> SUFFICES ASSUME Init PROVE IInv
  OBVIOUS
<1> USE TaskDeliveryAssumption DEF Init, Is, None
<1>1. TypeOK
  BY DEF TypeOK, Statuses, AnswerNumbers
<1>2. \A t \in Tasks : ~Open(t) /\ answers[t] = 0
  BY DEF Open
<1>3. OnlyDispatched /\ CallbackElsewhere /\ TakenIsHeard
  BY <1>2 DEF OnlyDispatched, CallbackElsewhere, TakenIsHeard
<1>4. OnItsWay /\ ResultKept
  BY <1>2 DEF OnItsWay, ResultKept
<1> QED
  BY <1>1, <1>3, <1>4 DEF IInv

-----------------------------------------------------------------------------
(* Types.                                                                  *)

LEMMA SpendType ==
  ASSUME TypeOK, NEW k \in {"drop", "repeat", "crash", "restart"}, Spend(k)
  PROVE  budget' \in [{"drop", "repeat", "crash", "restart"} -> Nat]
  BY DEF TypeOK, Spend

RecordOK(r) ==
  /\ r \in [status : Statuses, answer : AnswerNumbers]
  /\ r.answer # 0 => r.status \in {"ANSWERED", "PUBLISH_FAILED"}

LEMMA RecordTypes ==
  ASSUME TypeOK, NEW t \in Tasks
  PROVE  /\ RecordOK(record[t])
         /\ RecordOK(Is("MISSING")) /\ RecordOK(Is("EXECUTING"))
         /\ RecordOK([record[t] EXCEPT !.status = "PUBLISH_FAILED"])
         /\ RecordOK(Refreshed(t))
         /\ \A n \in AnswerNumbers : RecordOK(Answered(n))
<1> USE TaskDeliveryAssumption
<1>1. RecordOK(record[t])
  BY DEF TypeOK, RecordOK
<1>2. RecordOK(Is("MISSING")) /\ RecordOK(Is("EXECUTING"))
  BY DEF Is, RecordOK, Statuses, AnswerNumbers
<1>3. RecordOK([record[t] EXCEPT !.status = "PUBLISH_FAILED"])
  BY <1>1 DEF RecordOK, Statuses
<1>4. RecordOK(Refreshed(t))
  BY <1>1 DEF RecordOK, Refreshed, Open, Statuses
<1>5. \A n \in AnswerNumbers : RecordOK(Answered(n))
  BY DEF Answered, RecordOK, Statuses
<1> QED
  BY <1>1, <1>2, <1>3, <1>4, <1>5

\* One record is replaced by a good one.
LEMMA RecordUpdate ==
  ASSUME TypeOK, NEW t \in Tasks, NEW r, RecordOK(r),
         record' = [record EXCEPT ![t] = r]
  PROVE  /\ record' \in [Tasks -> [status : Statuses, answer : AnswerNumbers]]
         /\ \A u \in Tasks : RecordOK(record'[u])
         /\ \A u \in Tasks : record'[u] = IF u = t THEN r ELSE record[u]
  BY RecordTypes DEF TypeOK, RecordOK

LEMMA AfterResultType ==
  ASSUME TypeOK, NEW m \in inbox
  PROVE  m.task \in Tasks /\ RecordOK(AfterResult(m))
  BY RecordTypes DEF TypeOK, Message, AfterResult

LEMMA BeingDeliveredType ==
  ASSUME TypeOK, NEW t \in Tasks
  PROVE  BeingDelivered(t) \in Message /\ BeingDelivered(t).task = t
  BY DEF TypeOK, BeingDelivered, Message

LEMMA PublishType ==
  ASSUME TypeOK, NEW t \in Tasks, PublishTaskResult(t)
  PROVE  /\ answers' \in [Tasks -> AnswerNumbers]
         /\ outbox' \in [Tasks -> AnswerNumbers]
         /\ delivering' \in [Tasks -> AnswerNumbers]
         /\ outbox'[t] # 0
         /\ \A u \in Tasks \ {t} : /\ answers'[u] = answers[u]
                                   /\ outbox'[u] = outbox[u]
                                   /\ delivering'[u] = delivering[u]
<1>1. answers[t] + 1 \in AnswerNumbers /\ answers[t] + 1 # 0
  BY TaskDeliveryAssumption DEF TypeOK, PublishTaskResult, AnswerNumbers
<1> QED
  BY <1>1 DEF TypeOK, PublishTaskResult

LEMMA EnqueueType ==
  ASSUME TypeOK, NEW t \in Tasks, Enqueue(t)
  PROVE  /\ answers' \in [Tasks -> AnswerNumbers]
         /\ outbox' \in [Tasks -> AnswerNumbers]
         /\ delivering' \in [Tasks -> AnswerNumbers]
         /\ tracked \subseteq tracked' /\ tracked' \subseteq tracked \cup {t}
         /\ t \in tracked' \/ outbox'[t] # 0
         /\ \A u \in Tasks : outbox'[u] = outbox[u] \/ outbox'[u] # 0
         /\ \A u \in Tasks \ {t} : /\ answers'[u] = answers[u]
                                   /\ outbox'[u] = outbox[u]
                                   /\ delivering'[u] = delivering[u]
         /\ answers'[t] # 0 => outbox'[t] # 0 \/ answers'[t] = answers[t]
<1>1. CASE PublishTaskResult(t) /\ UNCHANGED tracked
  BY <1>1, PublishType
<1>2. CASE UNCHANGED outboxState /\ t \in tracked'
           /\ tracked' = tracked \cup {t}
  BY <1>2 DEF outboxState, TypeOK
<1> QED
  BY <1>1, <1>2 DEF Enqueue

LEMMA TypeStep == TypeOK /\ [Next]_vars => TypeOK'
<1> SUFFICES ASSUME TypeOK, [Next]_vars PROVE TypeOK'
  OBVIOUS
<1> USE DEF tasks, server, broker, outboxState, phone, history
<1>1. ASSUME NEW t \in Tasks, ServerStep(t) PROVE TypeOK'
  <2>1. CASE Dispatch(t)
    BY <2>1, RecordTypes, RecordUpdate DEF Dispatch, TypeOK, RecordOK
  <2>2. CASE DispatchByNodeServer(t) \/ DispatchAcknowledged(t) \/ Expire(t)
    BY <2>2 DEF DispatchByNodeServer, DispatchAcknowledged, Expire, TypeOK
  <2>3. CASE DispatchFails(t)
    <3>1. record' = [record EXCEPT ![t] =
                       [record[t] EXCEPT !.status = "PUBLISH_FAILED"]]
      BY <2>3 DEF DispatchFails
    <3> QED
      BY <2>3, <3>1, RecordTypes, RecordUpdate
      DEF DispatchFails, TypeOK, RecordOK
  <2>4. CASE RefreshLocalTask(t)
    BY <2>4, RecordTypes, RecordUpdate DEF RefreshLocalTask, TypeOK, RecordOK
  <2>5. CASE Forget(t)
    BY <2>5, RecordTypes, RecordUpdate DEF Forget, TypeOK, RecordOK
  <2> QED
    BY <1>1, <2>1, <2>2, <2>3, <2>4, <2>5 DEF ServerStep
<1>2. ASSUME NEW t \in Tasks, BrokerStep(t) PROVE TypeOK'
  <2>1. CASE BrokerTakesCommand(t)
    <3>1. budget' \in [{"drop", "repeat", "crash", "restart"} -> Nat]
      BY <2>1, SpendType DEF BrokerTakesCommand, TypeOK
    <3> QED
      BY <2>1, <3>1 DEF BrokerTakesCommand, TypeOK
  <2>2. CASE BrokerTakesResult(t)
    <3>1. budget' \in [{"drop", "repeat", "crash", "restart"} -> Nat]
      BY <2>2, SpendType DEF BrokerTakesResult, TypeOK
    <3> QED
      BY <2>2, <3>1, BeingDeliveredType DEF BrokerTakesResult, TypeOK
  <2>3. CASE CallbackTakesResult(t)
    BY <2>3, BeingDeliveredType DEF CallbackTakesResult, TypeOK
  <2> QED
    BY <1>2, <2>1, <2>2, <2>3 DEF BrokerStep
<1>3. ASSUME NEW t \in Tasks, PhoneStep(t) PROVE TypeOK'
  <2>1. CASE ReceiveTask(t)
    <3>1. budget' \in [{"drop", "repeat", "crash", "restart"} -> Nat]
      BY <2>1, SpendType DEF ReceiveTask, TypeOK
    <3>2. commands' \subseteq Tasks /\ connected' \in BOOLEAN
      BY <2>1 DEF ReceiveTask, TypeOK
    <3>3. tracked' \subseteq Tasks
      BY <2>1, EnqueueType DEF ReceiveTask, TypeOK
    <3> QED
      BY <2>1, <3>1, <3>2, <3>3, EnqueueType DEF ReceiveTask, TypeOK
  <2>2. CASE FinishTask(t)
    BY <2>2, PublishType DEF FinishTask, TypeOK
  <2>3. CASE DeliveryConfirmed(t) \/ DeliveryFails(t) \/ Lapse(t)
    BY <2>3, TaskDeliveryAssumption
    DEF DeliveryConfirmed, DeliveryFails, Lapse, TypeOK, AnswerNumbers
  <2>4. CASE Replay(t)
    BY <2>4 DEF Replay, TypeOK
  <2> QED
    BY <1>3, <2>1, <2>2, <2>3, <2>4 DEF PhoneStep
<1>4. ASSUME NEW m \in inbox, HandleTaskResult(m) PROVE TypeOK'
  BY <1>4, AfterResultType, RecordUpdate DEF HandleTaskResult, TypeOK, RecordOK
<1>5. CASE ServerRestart
  <2>1. budget' \in [{"drop", "repeat", "crash", "restart"} -> Nat]
    BY <1>5, SpendType DEF ServerRestart
  <2> QED
    BY <1>5, <2>1, RecordTypes DEF ServerRestart, TypeOK, RecordOK
<1>6. CASE Disconnect
  BY <1>6, SpendType DEF Disconnect, TypeOK
<1>7. CASE Connect
  BY <1>7 DEF Connect, TypeOK
<1>8. CASE PhoneRestart
  <2>1. budget' \in [{"drop", "repeat", "crash", "restart"} -> Nat]
    BY <1>8, SpendType DEF PhoneRestart
  <2>2. delivering' \in [Tasks -> AnswerNumbers]
    BY <1>8, TaskDeliveryAssumption DEF PhoneRestart, None, AnswerNumbers
  <2> QED
    BY <1>8, <2>1, <2>2 DEF PhoneRestart, TypeOK
<1>9. CASE UNCHANGED vars
  BY <1>9 DEF vars, TypeOK
<1> QED
  BY <1>1, <1>2, <1>3, <1>4, <1>5, <1>6, <1>7, <1>8, <1>9 DEF Next

-----------------------------------------------------------------------------
(* What a step may do to the records and the channels.                     *)

\* Only dispatch makes a record (its failure may touch it once more), and only
\* dispatch opens one.
RecordMade(u) ==
  /\ Open(u)' => Open(u) \/ Dispatch(u)
  /\ record'[u].status # "MISSING" =>
       record[u].status # "MISSING" \/ u \in sending \/ Dispatch(u)

LEMMA OpenedByDispatch ==
  ASSUME TypeOK, [Next]_vars, NEW u \in Tasks
  PROVE  RecordMade(u)
<1> USE DEF Open, RecordMade
<1>1. ASSUME NEW t \in Tasks, ServerStep(t) PROVE RecordMade(u)
  <2>1. CASE Dispatch(t)
    BY <2>1 DEF Dispatch, TypeOK
  <2>2. CASE DispatchByNodeServer(t) \/ DispatchAcknowledged(t) \/ Expire(t)
    BY <2>2 DEF DispatchByNodeServer, DispatchAcknowledged, Expire
  <2>3. CASE DispatchFails(t) \/ Forget(t)
    BY <2>3 DEF DispatchFails, Forget, TypeOK, Is
  <2>4. CASE RefreshLocalTask(t)
    BY <2>4 DEF RefreshLocalTask, Refreshed, TypeOK
  <2> QED
    BY <1>1, <2>1, <2>2, <2>3, <2>4 DEF ServerStep
<1>2. ASSUME NEW m \in inbox, HandleTaskResult(m) PROVE RecordMade(u)
  <2>1. m.task \in Tasks
    BY DEF TypeOK, Message
  <2> QED
    BY <1>2, <2>1 DEF HandleTaskResult, AfterResult, Refreshed, Answered, TypeOK
<1>3. CASE ServerRestart
  BY <1>3 DEF ServerRestart, Is
<1>4. CASE record' = record
  BY <1>4
<1>5. ASSUME NEW t \in Tasks, BrokerStep(t) \/ PhoneStep(t)
      PROVE  record' = record
  BY <1>5 DEF BrokerStep, BrokerTakesCommand, BrokerTakesResult,
              CallbackTakesResult, PhoneStep, ReceiveTask, FinishTask,
              DeliveryConfirmed, DeliveryFails, Replay, Lapse, server
<1>6. CASE Disconnect \/ Connect \/ PhoneRestart \/ UNCHANGED vars
  BY <1>6 DEF Disconnect, Connect, PhoneRestart, vars, server
<1> QED
  BY <1>1, <1>2, <1>3, <1>4, <1>5, <1>6 DEF Next

\* A result leaves the inbox only when its record is closed.
LEMMA InboxStep ==
  ASSUME TypeOK, [Next]_vars, NEW u \in Tasks, InInbox(u), Open(u)'
  PROVE  InInbox(u)'
<1> USE DEF InInbox
<1>1. ASSUME NEW m \in inbox, HandleTaskResult(m) PROVE InInbox(u)'
  <2>1. m.task \in Tasks
    BY DEF TypeOK, Message
  <2>2. ~Open(m.task)'
    BY <1>1, <2>1 DEF HandleTaskResult, AfterResult, Refreshed, Answered,
                      Open, TypeOK
  <2> QED
    BY <1>1, <2>2 DEF HandleTaskResult
<1>2. ASSUME NEW t \in Tasks, ServerStep(t) \/ BrokerStep(t) \/ PhoneStep(t)
      PROVE  inbox \subseteq inbox'
  <2>1. CASE ServerStep(t)
    BY <2>1 DEF ServerStep, Dispatch, DispatchByNodeServer,
                DispatchAcknowledged, DispatchFails, Expire,
                RefreshLocalTask, Forget, broker
  <2>2. CASE BrokerStep(t)
    BY <2>2 DEF BrokerStep, BrokerTakesCommand, BrokerTakesResult,
                CallbackTakesResult, broker
  <2>3. CASE PhoneStep(t)
    BY <2>3 DEF PhoneStep, ReceiveTask, FinishTask, DeliveryConfirmed,
                DeliveryFails, Replay, Lapse, broker
  <2> QED
    BY <1>2, <2>1, <2>2, <2>3
<1>3. CASE ServerRestart \/ Disconnect \/ Connect \/ PhoneRestart
           \/ UNCHANGED vars
  BY <1>3 DEF ServerRestart, Disconnect, Connect, PhoneRestart, vars, broker
<1> QED
  BY <1>1, <1>2, <1>3 DEF Next

-----------------------------------------------------------------------------
(* The strengthening is inductive.                                         *)

LEMMA DispatchedStep ==
  ASSUME TypeOK, OnlyDispatched, [Next]_vars
  PROVE  OnlyDispatched'
<1> USE DEF OnlyDispatched, tasks, server, broker, outboxState, phone, history
<1>1. \A u \in Tasks : record'[u].status # "MISSING" => u \in dispatched'
  <2>1. dispatched \subseteq dispatched'
    BY DEF Next, ServerStep, BrokerStep, PhoneStep, Dispatch,
           DispatchByNodeServer, DispatchAcknowledged, DispatchFails, Expire,
           RefreshLocalTask, Forget, HandleTaskResult, ServerRestart,
           BrokerTakesCommand, BrokerTakesResult, CallbackTakesResult,
           ReceiveTask, FinishTask, DeliveryConfirmed, DeliveryFails, Replay,
           Lapse, Disconnect, Connect, PhoneRestart, vars
  <2> QED
    BY <2>1, OpenedByDispatch DEF Dispatch, RecordMade
<1>2. ASSUME NEW t \in Tasks, ServerStep(t) PROVE OnlyDispatched'
  <2>1. CASE Dispatch(t) \/ DispatchByNodeServer(t)
    BY <1>1, <2>1 DEF Dispatch, DispatchByNodeServer
  <2>2. CASE DispatchAcknowledged(t) \/ DispatchFails(t) \/ Expire(t)
             \/ RefreshLocalTask(t) \/ Forget(t)
    BY <1>1, <2>2 DEF DispatchAcknowledged, DispatchFails, Expire,
                      RefreshLocalTask, Forget
  <2> QED
    BY <1>2, <2>1, <2>2 DEF ServerStep
<1>3. ASSUME NEW t \in Tasks, BrokerStep(t) PROVE OnlyDispatched'
  <2>1. CASE BrokerTakesCommand(t)
    BY <1>1, <2>1 DEF BrokerTakesCommand
  <2>2. CASE BrokerTakesResult(t)
    BY <1>1, <2>2 DEF BrokerTakesResult, BeingDelivered
  <2>3. CASE CallbackTakesResult(t)
    BY <1>1, <2>3 DEF CallbackTakesResult, BeingDelivered
  <2> QED
    BY <1>3, <2>1, <2>2, <2>3 DEF BrokerStep
<1>4. ASSUME NEW t \in Tasks, PhoneStep(t) PROVE OnlyDispatched'
  <2>1. CASE ReceiveTask(t)
    <3>1. t \in dispatched /\ tracked' \subseteq dispatched
          /\ commands' \subseteq commands /\ UNCHANGED <<dispatched, taken>>
      BY <2>1, EnqueueType DEF ReceiveTask
    <3>2. \A u \in Tasks \ {t} : /\ answers'[u] = answers[u]
                                 /\ outbox'[u] = outbox[u]
                                 /\ delivering'[u] = delivering[u]
      BY <2>1, EnqueueType DEF ReceiveTask
    <3> QED
      BY <1>1, <2>1, <3>1, <3>2 DEF ReceiveTask
  <2>2. CASE FinishTask(t)
    <3>1. \A u \in Tasks \ {t} : /\ answers'[u] = answers[u]
                                 /\ outbox'[u] = outbox[u]
                                 /\ delivering'[u] = delivering[u]
      BY <2>2, PublishType DEF FinishTask
    <3> QED
      BY <1>1, <2>2, <3>1 DEF FinishTask
  <2>3. CASE DeliveryConfirmed(t) \/ DeliveryFails(t) \/ Replay(t) \/ Lapse(t)
    BY <1>1, <2>3
    DEF DeliveryConfirmed, DeliveryFails, Replay, Lapse, TypeOK
  <2> QED
    BY <1>4, <2>1, <2>2, <2>3 DEF PhoneStep
<1>5. CASE \/ \E m \in inbox : HandleTaskResult(m)
           \/ ServerRestart \/ Disconnect \/ Connect \/ UNCHANGED vars
  BY <1>1, <1>5 DEF HandleTaskResult, ServerRestart, Disconnect, Connect, vars
<1>6. CASE PhoneRestart
  BY <1>1, <1>6 DEF PhoneRestart, None
<1> QED
  BY <1>2, <1>3, <1>4, <1>5, <1>6 DEF Next

LEMMA CallbackStep ==
  ASSUME TypeOK, OnlyDispatched, CallbackElsewhere, [Next]_vars
  PROVE  CallbackElsewhere'
<1> SUFFICES ASSUME NEW u \in callback', Open(u)' PROVE FALSE
  BY DEF CallbackElsewhere
<1>1. u \in callback \/ DispatchByNodeServer(u)
  <2>1. ASSUME NEW t \in Tasks, ServerStep(t)
        PROVE  callback' = callback
                 \/ (DispatchByNodeServer(t) /\ callback' = callback \cup {t})
    BY <2>1 DEF ServerStep, Dispatch, DispatchByNodeServer,
       DispatchAcknowledged, DispatchFails, Expire, RefreshLocalTask, Forget,
       tasks
  <2>2. ASSUME NEW t \in Tasks, BrokerStep(t) PROVE callback' = callback
    BY <2>2 DEF BrokerStep, BrokerTakesCommand, BrokerTakesResult,
       CallbackTakesResult, server, tasks
  <2>3. ASSUME NEW t \in Tasks, PhoneStep(t) PROVE callback' = callback
    BY <2>3 DEF PhoneStep, ReceiveTask, FinishTask, DeliveryConfirmed,
       DeliveryFails, Replay, Lapse, server, tasks
  <2>4. ASSUME NEW m \in inbox, HandleTaskResult(m) PROVE callback' = callback
    BY <2>4 DEF HandleTaskResult, tasks
  <2>5. ASSUME ServerRestart \/ Disconnect \/ Connect \/ PhoneRestart
        PROVE  callback' = callback
    BY <2>5 DEF ServerRestart, Disconnect, Connect, PhoneRestart, server, tasks
  <2>6. ASSUME UNCHANGED vars PROVE callback' = callback
    BY <2>6 DEF vars, server, tasks
  <2> QED
    BY <2>1, <2>2, <2>3, <2>4, <2>5, <2>6 DEF Next
<1>2. u \in Tasks
  BY TypeStep DEF TypeOK
<1>3. Open(u) \/ Dispatch(u)
  BY <1>2, OpenedByDispatch DEF RecordMade
<1>4. CASE u \in callback
  BY <1>3, <1>4 DEF OnlyDispatched, CallbackElsewhere, Dispatch
<1>5. CASE DispatchByNodeServer(u)
  BY <1>2, <1>5 DEF OnlyDispatched, DispatchByNodeServer, Open
<1> QED
  BY <1>1, <1>4, <1>5

LEMMA HeardStep ==
  ASSUME TypeOK, OnlyDispatched, TakenIsHeard, [Next]_vars
  PROVE  TakenIsHeard'
<1> SUFFICES ASSUME NEW x \in taken', x[2] = "mqtt", Open(x[1].task)'
             PROVE  InInbox(x[1].task)'
  BY DEF TakenIsHeard
<1>1. x[1].task \in Tasks
  BY TypeStep DEF TypeOK, Message
<1>2. CASE x \in taken
  <2>1. Open(x[1].task)
    BY <1>1, <1>2, OpenedByDispatch
    DEF OnlyDispatched, Dispatch, RecordMade
  <2> QED
    BY <1>1, <1>2, <2>1, InboxStep DEF TakenIsHeard
<1>3. CASE x \notin taken
  <2>1. PICK t \in Tasks : BrokerTakesResult(t) \/ CallbackTakesResult(t)
    BY <1>3
    DEF Next, ServerStep, BrokerStep, PhoneStep, Dispatch,
        DispatchByNodeServer, DispatchAcknowledged, DispatchFails, Expire,
        RefreshLocalTask, Forget, HandleTaskResult, ServerRestart,
        BrokerTakesCommand, ReceiveTask, FinishTask, DeliveryConfirmed,
        DeliveryFails, Replay, Lapse, Disconnect, Connect, PhoneRestart,
        vars, history
  <2>2. x[1] \in inbox'
    BY <1>3, <2>1 DEF BrokerTakesResult, CallbackTakesResult
  <2> QED
    BY <2>2 DEF InInbox
<1> QED
  BY <1>2, <1>3

LEMMA WayStep ==
  ASSUME IInv, [Next]_vars
  PROVE  OnItsWay'
<1> USE DEF tasks, server, broker, outboxState, phone, history
<1>0. /\ TypeOK /\ OnlyDispatched /\ CallbackElsewhere /\ TakenIsHeard
      /\ OnItsWay
  BY DEF IInv
<1> SUFFICES ASSUME NEW u \in Tasks, Open(u)'
             PROVE  u \in outgoing' \ accepted' \/ Underway(u)'
  BY DEF OnItsWay
<1>1. CASE Dispatch(u)
  BY <1>0, <1>1 DEF Dispatch, OnlyDispatched
<1>2. CASE Open(u)
  <2>1. u \in outgoing \ accepted \/ Underway(u)
    BY <1>0, <1>2 DEF OnItsWay
  <2>2. InInbox(u) => InInbox(u)'
    BY <1>0, InboxStep
  <2>3. ASSUME NEW t \in Tasks, ServerStep(t) \/ BrokerStep(t)
        PROVE  u \in outgoing' \ accepted' \/ Underway(u)'
    BY <2>1, <2>2, <2>3
    DEF Underway, ServerStep, BrokerStep, Dispatch, DispatchByNodeServer,
        DispatchAcknowledged, DispatchFails, Expire, RefreshLocalTask, Forget,
        BrokerTakesCommand, BrokerTakesResult, CallbackTakesResult
  <2>4. ASSUME NEW t \in Tasks, PhoneStep(t)
        PROVE  u \in outgoing' \ accepted' \/ Underway(u)'
    <3>1. CASE ReceiveTask(t)
      BY <1>0, <2>1, <2>2, <3>1, EnqueueType DEF ReceiveTask, Underway
    <3>2. CASE FinishTask(t)
      BY <1>0, <2>1, <2>2, <3>2, PublishType DEF FinishTask, Underway
    <3>3. CASE DeliveryConfirmed(t)
      <4>1. CASE t # u
        BY <1>0, <2>1, <2>2, <3>3, <4>1 DEF DeliveryConfirmed, Underway, TypeOK
      <4>2. CASE t = u
        <5>1. <<BeingDelivered(u), "mqtt">> \in taken
          BY <1>0, <1>2, <3>3, <4>2
          DEF DeliveryConfirmed, Confirmed, Authority, CallbackElsewhere
        <5>2. InInbox(u)
          BY <1>0, <1>2, <5>1, BeingDeliveredType DEF TakenIsHeard
        <5> QED
          BY <2>2, <5>2 DEF Underway
      <4> QED
        BY <4>1, <4>2
    <3>4. CASE DeliveryFails(t) \/ Replay(t)
      BY <2>1, <2>2, <3>4 DEF DeliveryFails, Replay, Underway
    <3>5. CASE Lapse(t)
      BY <1>0, <2>1, <2>2, <3>5 DEF Lapse, Underway, TypeOK
    <3> QED
      BY <2>4, <3>1, <3>2, <3>3, <3>4, <3>5 DEF PhoneStep
  <2>5. CASE \/ \E m \in inbox : HandleTaskResult(m)
             \/ Disconnect \/ Connect \/ PhoneRestart \/ UNCHANGED vars
    BY <2>1, <2>2, <2>5
    DEF HandleTaskResult, Disconnect, Connect, PhoneRestart, Underway, vars
  <2>6. CASE ServerRestart
    BY <2>6 DEF ServerRestart, Open, Is
  <2> QED
    BY <2>3, <2>4, <2>5, <2>6 DEF Next
<1> QED
  BY <1>0, <1>1, <1>2, OpenedByDispatch DEF RecordMade

LEMMA KeptStep ==
  ASSUME IInv, [Next]_vars
  PROVE  ResultKept'
<1> USE DEF tasks, server, broker, outboxState, phone, history
<1>0. TypeOK /\ OnlyDispatched /\ ResultKept
  BY DEF IInv
<1> SUFFICES ASSUME NEW u \in Tasks, answers'[u] # 0, u \notin lapsed'
             PROVE  outbox'[u] # 0 \/ Arrived(u)'
  BY DEF ResultKept
<1>1. ASSUME answers[u] # 0 PROVE Arrived(u) => Arrived(u)'
  <2>1. taken \subseteq taken'
    BY DEF Next, ServerStep, BrokerStep, PhoneStep, Dispatch,
           DispatchByNodeServer, DispatchAcknowledged, DispatchFails, Expire,
           RefreshLocalTask, Forget, HandleTaskResult, ServerRestart,
           BrokerTakesCommand, BrokerTakesResult, CallbackTakesResult,
           ReceiveTask, FinishTask, DeliveryConfirmed, DeliveryFails, Replay,
           Lapse, Disconnect, Connect, PhoneRestart, vars
  <2>2. u \in callback' <=> u \in callback
    BY <1>0, <1>1
    DEF Next, ServerStep, BrokerStep, PhoneStep, Dispatch,
        DispatchByNodeServer, DispatchAcknowledged, DispatchFails, Expire,
        RefreshLocalTask, Forget, HandleTaskResult, ServerRestart,
        BrokerTakesCommand, BrokerTakesResult, CallbackTakesResult,
        ReceiveTask, FinishTask, DeliveryConfirmed, DeliveryFails, Replay,
        Lapse, Disconnect, Connect, PhoneRestart, vars, OnlyDispatched
  <2> QED
    BY <2>1, <2>2 DEF Arrived, Authority
<1>2. CASE UNCHANGED <<answers, outbox>> /\ lapsed \subseteq lapsed'
  BY <1>0, <1>1, <1>2 DEF ResultKept
<1>3. ASSUME NEW t \in Tasks, PhoneStep(t)
      PROVE  outbox'[u] # 0 \/ Arrived(u)'
  <2>1. CASE ReceiveTask(t)
    BY <1>0, <1>1, <2>1, EnqueueType DEF ReceiveTask, ResultKept
  <2>2. CASE FinishTask(t)
    BY <1>0, <1>1, <2>2, PublishType DEF FinishTask, ResultKept
  <2>3. CASE DeliveryConfirmed(t)
    <3>1. CASE t = u
      BY <1>0, <2>3, <3>1
      DEF DeliveryConfirmed, Confirmed, BeingDelivered, Arrived, Authority,
          TypeOK
    <3>2. CASE t # u
      BY <1>0, <1>1, <2>3, <3>2 DEF DeliveryConfirmed, ResultKept, TypeOK
    <3> QED
      BY <3>1, <3>2
  <2>4. CASE DeliveryFails(t) \/ Replay(t)
    BY <1>2, <2>4 DEF DeliveryFails, Replay
  <2>5. CASE Lapse(t)
    BY <1>0, <1>1, <2>5 DEF Lapse, ResultKept, TypeOK
  <2> QED
    BY <1>3, <2>1, <2>2, <2>3, <2>4, <2>5 DEF PhoneStep
<1>4. ASSUME NEW t \in Tasks, ServerStep(t) \/ BrokerStep(t)
      PROVE  UNCHANGED <<answers, outbox, lapsed>>
  BY <1>4
  DEF ServerStep, BrokerStep, Dispatch, DispatchByNodeServer,
      DispatchAcknowledged, DispatchFails, Expire, RefreshLocalTask, Forget,
      BrokerTakesCommand, BrokerTakesResult, CallbackTakesResult
<1>5. CASE \/ \E m \in inbox : HandleTaskResult(m)
           \/ ServerRestart \/ Disconnect \/ Connect \/ PhoneRestart
           \/ UNCHANGED vars
  BY <1>2, <1>5
  DEF HandleTaskResult, ServerRestart, Disconnect, Connect, PhoneRestart, vars
<1> QED
  BY <1>2, <1>3, <1>4, <1>5 DEF Next

LEMMA IInvStep == IInv /\ [Next]_vars => IInv'
  BY TypeStep, DispatchedStep, CallbackStep, HeardStep, WayStep, KeptStep
  DEF IInv

LEMMA Invariance == Spec => []IInv
  BY InitIInv, IInvStep, PTL DEF Spec

-----------------------------------------------------------------------------
\* The records, queues and outbox are well formed, whatever is lost, repeated
\* or restarted: localTasks, the channels and deliveringResultIds.
THEOREM TypeCorrect == Spec => []TypeOK
  BY Invariance, PTL DEF IInv

\* A task the phone has answered keeps a result in the outbox until the
\* channel that counts has taken one (persistTaskResult, deliverTaskResult).
THEOREM ResultIsKept == Spec => []ResultKept
  BY Invariance, PTL DEF IInv

\* A task the server shows as executing is on its way, with the phone, or on
\* its way back, unless the client was restarted or its result grew too old.
THEOREM TaskIsNotLost == Spec => []TaskNotLost
<1>1. IInv => TaskNotLost
  BY DEF IInv, OnItsWay, Underway, InInbox, TaskNotLost
<1> QED
  BY <1>1, Invariance, PTL

\* Only an unacknowledged publication may overwrite a verdict in the server's
\* table (isMatchingTaskResult, refreshLocalTask).
THEOREM VerdictIsFinal == Spec => VerdictFinal
<1> DEFINE Ended(t) ==
      record[t].status \in {"ANSWERED", "TIMEOUT", "PUBLISH_FAILED"}
<1> DEFINE Stays(t) ==
      \/ record'[t] \in {record[t], Is("MISSING")}
      \/ t \in sending /\ record'[t].status = "PUBLISH_FAILED"
<1>1. ASSUME TypeOK, OnlyDispatched, [Next]_vars, NEW u \in Tasks, Ended(u)
      PROVE  Stays(u)
  <2>0. ~Open(u)
    BY <1>1 DEF Open
  <2>1. CASE record' = record
    BY <2>1
  <2>2. ASSUME NEW t \in Tasks, ServerStep(t) PROVE Stays(u)
    <3>1. CASE Dispatch(t)
      BY <1>1, <3>1 DEF Dispatch, OnlyDispatched, TypeOK
    <3>2. CASE DispatchFails(t) \/ Forget(t)
      BY <1>1, <3>2 DEF DispatchFails, Forget, TypeOK
    <3>3. CASE RefreshLocalTask(t)
      BY <1>1, <2>0, <3>3 DEF RefreshLocalTask, Refreshed, TypeOK
    <3> QED
      BY <2>1, <2>2, <3>1, <3>2, <3>3
      DEF ServerStep, DispatchByNodeServer, DispatchAcknowledged, Expire
  <2>3. ASSUME NEW m \in inbox, HandleTaskResult(m) PROVE Stays(u)
    BY <1>1, <2>0, <2>3
    DEF HandleTaskResult, AfterResult, Refreshed, TypeOK
  <2>4. CASE ServerRestart
    BY <2>4 DEF ServerRestart
  <2>5. ASSUME NEW t \in Tasks, BrokerStep(t) \/ PhoneStep(t)
        PROVE  record' = record
    BY <2>5 DEF BrokerStep, BrokerTakesCommand, BrokerTakesResult,
                CallbackTakesResult, PhoneStep, ReceiveTask, FinishTask,
                DeliveryConfirmed, DeliveryFails, Replay, Lapse, server
  <2>6. CASE Disconnect \/ Connect \/ PhoneRestart \/ UNCHANGED vars
    BY <2>1, <2>6 DEF Disconnect, Connect, PhoneRestart, vars, server
  <2> QED
    BY <1>1, <2>1, <2>2, <2>3, <2>4, <2>5, <2>6 DEF Next
<1>2. IInv /\ [Next]_vars => [\A t \in Tasks : Ended(t) => Stays(t)]_vars
  BY <1>1 DEF IInv
<1> QED
  BY <1>2, Invariance, PTL DEF Spec, VerdictFinal
=============================================================================
