----------------------------- MODULE TaskDelivery -----------------------------
(***************************************************************************)
(* A task on its way from the server to the phone, and its result on the   *)
(* way back: the task table of the server (node-server.service.ts), the    *)
(* broker with its persistent sessions, and the result outbox of the phone *)
(* (client.ts, task-result-delivery.ts).  The phone's executor is reduced  *)
(* to what TaskExecutor shows of it: a tracked task is answered, unless    *)
(* the client restarts.  Results of one task are numbered, because a task  *)
(* command that is delivered again may be executed, and answered, again.   *)
(***************************************************************************)
EXTENDS Naturals, FiniteSets

CONSTANTS
  Tasks,
  UsesMqtt,     \* usesMqttReporting
  MaxAnswers, MaxDrops, MaxRepeats, MaxCrashes, MaxRestarts

ASSUME TaskDeliveryAssumption ==
  /\ UsesMqtt \in BOOLEAN
  /\ MaxAnswers \in Nat /\ MaxDrops \in Nat /\ MaxRepeats \in Nat
  /\ MaxCrashes \in Nat /\ MaxRestarts \in Nat

VARIABLES
  record,      \* server: localTasks
  dispatched,  \* history: tasks dispatched
  callback,    \* those the Node Server has dispatched, with a callbackUrl
  sending,     \* server: dispatch awaits publishExternal
  outgoing,    \* server: the MQTT library has no PUBACK for the command
  expired,     \* tasks whose expiresAtUtc has passed on the server's clock
  accepted,    \* broker, history: commands it has acknowledged
  commands,    \* broker: commands the phone has not acknowledged
  inbox,       \* broker: results the server has not acknowledged
  connected,   \* phone: mqttClient.connected
  tracked,     \* phone: queuedTaskIds
  answers,     \* phone, history: how many results a task has had
  outbox,      \* phone: the result in the outbox file, 0 if there is none
  delivering,  \* phone: the result deliverTaskResult is at work on, 0 if none
  taken,       \* history: results that have reached the end of a channel
  dropped,     \* history: tasks a restart of the client has forgotten
  lapsed,      \* history: tasks whose result grew too old in the outbox
  budget       \* external events left

tasks == <<dispatched, callback, expired>>
server == <<record, sending, outgoing, tasks>>
broker == <<accepted, commands, inbox>>
outboxState == <<answers, outbox, delivering>>
phone == <<connected, tracked, outboxState>>
history == <<taken, dropped, lapsed>>
vars == <<server, broker, phone, history, budget>>

AnswerNumbers == 0..MaxAnswers
Message == [task : Tasks, answer : AnswerNumbers]
Statuses == {"MISSING", "EXECUTING", "ANSWERED", "TIMEOUT", "PUBLISH_FAILED"}

TypeOK ==
  /\ record \in [Tasks -> [status : Statuses, answer : AnswerNumbers]]
  /\ \A t \in Tasks : record[t].answer # 0 =>
       record[t].status \in {"ANSWERED", "PUBLISH_FAILED"}
  /\ dispatched \subseteq Tasks /\ callback \subseteq Tasks
  /\ sending \subseteq Tasks
  /\ outgoing \subseteq Tasks /\ expired \subseteq Tasks
  /\ accepted \subseteq Tasks /\ commands \subseteq Tasks
  /\ inbox \subseteq Message
  /\ connected \in BOOLEAN
  /\ tracked \subseteq Tasks
  /\ answers \in [Tasks -> AnswerNumbers]
  /\ outbox \in [Tasks -> AnswerNumbers]
  /\ delivering \in [Tasks -> AnswerNumbers]
  /\ taken \subseteq Message \X {"mqtt", "http"}
  /\ dropped \subseteq Tasks /\ lapsed \subseteq Tasks
  /\ budget \in [{"drop", "repeat", "crash", "restart"} -> Nat]

Is(status) == [status |-> status, answer |-> 0]
Answered(n) == [status |-> "ANSWERED", answer |-> n]
None == [t \in Tasks |-> 0]

Init ==
  /\ record = [t \in Tasks |-> Is("MISSING")]
  /\ dispatched = {} /\ callback = {} /\ expired = {}
  /\ sending = {} /\ outgoing = {}
  /\ accepted = {} /\ commands = {} /\ inbox = {}
  /\ connected = TRUE /\ tracked = {}
  /\ answers = None /\ outbox = None /\ delivering = None
  /\ taken = {} /\ dropped = {} /\ lapsed = {}
  /\ budget = [drop |-> MaxDrops, repeat |-> MaxRepeats,
               crash |-> MaxCrashes, restart |-> MaxRestarts]

Spend(kind) == budget[kind] > 0 /\ budget' = [budget EXCEPT ![kind] = @ - 1]
Open(t) == record[t].status = "EXECUTING"

-----------------------------------------------------------------------------
(* The server.                                                             *)

\* dispatch, up to its await of publishExternal; task identifiers are fresh.
Dispatch(t) ==
  /\ t \notin dispatched
  /\ record' = [record EXCEPT ![t] = Is("EXECUTING")]
  /\ dispatched' = dispatched \cup {t}
  /\ sending' = sending \cup {t}
  /\ outgoing' = outgoing \cup {t}
  /\ UNCHANGED <<callback, expired, broker, phone, history, budget>>

\* The Node Server dispatches a task of its own.
DispatchByNodeServer(t) ==
  /\ t \notin dispatched
  /\ dispatched' = dispatched \cup {t}
  /\ callback' = callback \cup {t}
  /\ commands' = commands \cup {t}
  /\ UNCHANGED <<record, sending, outgoing, expired, accepted, inbox, phone,
                 history, budget>>

\* The PUBACK arrives: publishExternal resolves, if it still waits.
DispatchAcknowledged(t) ==
  /\ t \in outgoing /\ t \in accepted
  /\ outgoing' = outgoing \ {t}
  /\ sending' = sending \ {t}
  /\ UNCHANGED <<record, tasks, broker, phone, history, budget>>

\* It has not come within ten seconds: the record becomes a failure, whatever
\* it was (an answer stays in it), and the MQTT library goes on trying.
DispatchFails(t) ==
  /\ t \in sending
  /\ sending' = sending \ {t}
  /\ record' = [record EXCEPT ![t].status = "PUBLISH_FAILED"]
  /\ UNCHANGED <<outgoing, tasks, broker, phone, history, budget>>

Expire(t) ==
  /\ t \in dispatched \ expired
  /\ expired' = expired \cup {t}
  /\ UNCHANGED <<record, dispatched, callback, sending, outgoing, broker,
                 phone, history, budget>>

\* Seeded defect: a record that has ended is not left alone.
RefreshedAlways(t) ==
  IF record[t] # Is("MISSING") /\ t \in expired
  THEN [record[t] EXCEPT !.status = "TIMEOUT"]
  ELSE record[t]

\* What refreshLocalTask leaves of a record.
Refreshed(t) ==
  IF Open(t) /\ t \in expired THEN [record[t] EXCEPT !.status = "TIMEOUT"]
                              ELSE record[t]

\* refreshLocalTask, from getTask or from the clean-up of every minute.
RefreshLocalTask(t) ==
  /\ Refreshed(t) # record[t]
  /\ record' = [record EXCEPT ![t] = Refreshed(t)]
  /\ UNCHANGED <<sending, outgoing, tasks, broker, phone, history, budget>>

\* cleanupLocalTasks forgets a record that ended long ago (by the clock of the
\* phone, if the phone has answered).
Forget(t) ==
  /\ record[t].status \notin {"MISSING", "EXECUTING"}
  /\ t \notin sending
  /\ record' = [record EXCEPT ![t] = Is("MISSING")]
  /\ UNCHANGED <<sending, outgoing, tasks, broker, phone, history, budget>>

\* The record after handleTaskResult: isMatchingTaskResult accepts a result
\* of a task that is still open once its record has been refreshed.
AfterResult(m) ==
  IF Open(m.task) /\ m.task \notin expired THEN Answered(m.answer)
                                           ELSE Refreshed(m.task)

HandleTaskResult(m) ==
  /\ inbox' = inbox \ {m}
  /\ record' = [record EXCEPT ![m.task] = AfterResult(m)]
  /\ UNCHANGED <<sending, outgoing, tasks, accepted, commands, phone, history,
                 budget>>

\* The server is started anew: its table and its unsent commands were in
\* memory; the session at the broker waits for it.
ServerRestart ==
  /\ Spend("restart")
  /\ record' = [t \in Tasks |-> Is("MISSING")]
  /\ sending' = {} /\ outgoing' = {}
  /\ UNCHANGED <<tasks, broker, phone, history>>

-----------------------------------------------------------------------------
(* The broker.                                                             *)

\* A command is accepted; it is sent again if its PUBACK was lost.
BrokerTakesCommand(t) ==
  /\ t \in outgoing
  /\ IF t \in accepted THEN Spend("repeat") ELSE UNCHANGED budget
  /\ accepted' = accepted \cup {t}
  /\ commands' = commands \cup {t}
  /\ UNCHANGED <<server, inbox, phone, history>>

BeingDelivered(t) == [task |-> t, answer |-> delivering[t]]

\* So with a result the phone is publishing.
BrokerTakesResult(t) ==
  /\ delivering[t] # 0 /\ UsesMqtt /\ connected
  /\ IF <<BeingDelivered(t), "mqtt">> \in taken
     THEN Spend("repeat") ELSE UNCHANGED budget
  /\ taken' = taken \cup {<<BeingDelivered(t), "mqtt">>}
  /\ inbox' = inbox \cup {BeingDelivered(t)}
  /\ UNCHANGED <<server, accepted, commands, phone, dropped, lapsed>>

\* The report endpoint stores a result; its response may still be lost.
CallbackTakesResult(t) ==
  /\ delivering[t] # 0 /\ t \in callback
  /\ taken' = taken \cup {<<BeingDelivered(t), "http">>}
  /\ UNCHANGED <<server, broker, phone, dropped, lapsed, budget>>

-----------------------------------------------------------------------------
(* The phone.                                                              *)

\* Seeded defect: results are delivered through MQTT only.
CanDeliverByMqtt(t) ==
  /\ delivering[t] = 0
  /\ t \notin callback /\ UsesMqtt /\ connected

\* deliverTaskResult goes to work: the result is not being delivered already,
\* and its channel is there.
CanDeliver(t) ==
  /\ delivering[t] = 0
  /\ t \in callback \/ (UsesMqtt /\ connected)

\* Seeded defect: what cannot be sent at once is not persisted.
PublishWithoutOutbox(t) ==
  /\ answers[t] < MaxAnswers
  /\ answers' = [answers EXCEPT ![t] = @ + 1]
  /\ IF CanDeliver(t)
     THEN /\ outbox' = [outbox EXCEPT ![t] = answers[t] + 1]
          /\ delivering' = [delivering EXCEPT ![t] = answers[t] + 1]
     ELSE UNCHANGED <<outbox, delivering>>

\* publishTaskResult: the result replaces the one in the outbox, if any.
PublishTaskResult(t) ==
  /\ answers[t] < MaxAnswers
  /\ answers' = [answers EXCEPT ![t] = @ + 1]
  /\ outbox' = [outbox EXCEPT ![t] = answers[t] + 1]
  /\ delivering' = IF CanDeliver(t)
                   THEN [delivering EXCEPT ![t] = answers[t] + 1]
                   ELSE delivering

\* enqueueTask, as far as tracking and answering go: the task is refused
\* (while a deployment is being prepared even one that is tracked), it is a
\* duplicate, or it is tracked from now on.
Enqueue(t) ==
  \/ PublishTaskResult(t) /\ UNCHANGED tracked
  \/ t \in tracked /\ UNCHANGED <<tracked, outboxState>>
  \/ t \notin tracked /\ tracked' = tracked \cup {t} /\ UNCHANGED outboxState

\* A command is received; it stays with the broker if the connection is lost
\* before its acknowledgement.
ReceiveTask(t) ==
  /\ connected /\ t \in commands
  /\ Enqueue(t)
  /\ \/ commands' = commands \ {t} /\ UNCHANGED <<connected, budget>>
     \/ Spend("drop") /\ connected' = FALSE /\ UNCHANGED commands
  /\ UNCHANGED <<server, accepted, inbox, history>>

\* The executor is done with the task.
FinishTask(t) ==
  /\ t \in tracked
  /\ tracked' = tracked \ {t}
  /\ PublishTaskResult(t)
  /\ UNCHANGED <<server, broker, connected, history, budget>>

\* The channel whose confirmation counts (deliverPersistedTaskResult).
Authority(t) == IF t \in callback THEN "http" ELSE "mqtt"

\* Seeded defect: a delivery is good if either channel has confirmed.
ConfirmedByAny(t) ==
  \E c \in {"mqtt", "http"} : <<BeingDelivered(t), c>> \in taken

Confirmed(t) == <<BeingDelivered(t), Authority(t)>> \in taken

\* The outbox file goes, also if a later result has replaced the delivered one.
DeliveryConfirmed(t) ==
  /\ delivering[t] # 0
  /\ Confirmed(t)
  /\ outbox' = [outbox EXCEPT ![t] = 0]
  /\ delivering' = [delivering EXCEPT ![t] = 0]
  /\ UNCHANGED <<server, broker, connected, tracked, answers, history, budget>>

\* The endpoint does not answer, or the broker refuses the result.
DeliveryFails(t) ==
  /\ delivering[t] # 0
  /\ delivering' = [delivering EXCEPT ![t] = 0]
  /\ UNCHANGED <<server, broker, connected, tracked, answers, outbox, history,
                 budget>>

\* replayTaskResultOutbox, every thirty seconds and on every connection.
Replay(t) ==
  /\ outbox[t] # 0
  /\ CanDeliver(t)
  /\ delivering' = [delivering EXCEPT ![t] = outbox[t]]
  /\ UNCHANGED <<server, broker, connected, tracked, answers, outbox, history,
                 budget>>

\* It removes a result that is older than a day.
Lapse(t) ==
  /\ outbox[t] # 0
  /\ outbox' = [outbox EXCEPT ![t] = 0]
  /\ lapsed' = lapsed \cup {t}
  /\ UNCHANGED <<server, broker, connected, tracked, answers, delivering,
                 taken, dropped, budget>>

Disconnect ==
  /\ connected /\ Spend("drop")
  /\ connected' = FALSE
  /\ UNCHANGED <<server, broker, tracked, outboxState, history>>

Connect ==
  /\ ~connected
  /\ connected' = TRUE
  /\ UNCHANGED <<server, broker, tracked, outboxState, history, budget>>

\* The client is started anew; the outbox is on the disk.
PhoneRestart ==
  /\ Spend("crash")
  /\ connected' = FALSE
  /\ tracked' = {}
  /\ dropped' = dropped \cup tracked
  /\ delivering' = None
  /\ UNCHANGED <<server, broker, answers, outbox, taken, lapsed>>

-----------------------------------------------------------------------------
ServerStep(t) ==
  \/ Dispatch(t) \/ DispatchByNodeServer(t) \/ DispatchAcknowledged(t)
  \/ DispatchFails(t) \/ Expire(t) \/ RefreshLocalTask(t) \/ Forget(t)
BrokerStep(t) ==
  BrokerTakesCommand(t) \/ BrokerTakesResult(t) \/ CallbackTakesResult(t)
PhoneStep(t) ==
  \/ ReceiveTask(t) \/ FinishTask(t) \/ DeliveryConfirmed(t)
  \/ DeliveryFails(t) \/ Replay(t) \/ Lapse(t)

Next ==
  \/ \E t \in Tasks : ServerStep(t) \/ BrokerStep(t) \/ PhoneStep(t)
  \/ \E m \in inbox : HandleTaskResult(m)
  \/ ServerRestart \/ Disconnect \/ Connect \/ PhoneRestart

Spec == Init /\ [][Next]_vars

\* Clocks go on and timers fire; the connection comes back; a channel that is
\* tried again and again takes the result at last, and its confirmation
\* arrives at last.
FairSpec ==
  /\ Spec
  /\ WF_vars(Connect)
  /\ \A t \in Tasks :
       /\ WF_vars(Expire(t)) /\ WF_vars(RefreshLocalTask(t))
       /\ WF_vars(Replay(t))
       /\ SF_vars(BrokerTakesResult(t) /\ t \notin callback)
       /\ SF_vars(CallbackTakesResult(t))
       /\ SF_vars(DeliveryConfirmed(t))

-----------------------------------------------------------------------------
(* Properties.                                                             *)

Arrived(t) == \E n \in AnswerNumbers :
  <<[task |-> t, answer |-> n], Authority(t)>> \in taken

\* A task the phone has answered never loses all its results on the way: until
\* the channel that counts has taken one, the latest is in the outbox, whatever
\* restarts, lost connections and lost confirmations come between.  (A later
\* result may be removed unsent when an earlier one of its task is confirmed.)
ResultKept ==
  \A t \in Tasks : answers[t] # 0 /\ t \notin lapsed =>
    outbox[t] # 0 \/ Arrived(t)

\* A task the server shows as executing is somewhere: on its way to the phone,
\* tracked by it, in its outbox, or answered and on its way back.  Only a
\* restart of the client, or a result that grew too old, leaves the server
\* waiting for nothing.
TaskNotLost ==
  \A t \in Tasks : Open(t) =>
    \/ t \in outgoing \cup commands \cup tracked
    \/ outbox[t] # 0
    \/ \E m \in inbox : m.task = t
    \/ t \in dropped \cup lapsed

\* A verdict in the server's table is final: no late, repeated or contradicting
\* result, and no expiry, replaces it.  Only dispatch itself, whose publication
\* was not acknowledged in time, may still overwrite it.
VerdictFinal ==
  [][\A t \in Tasks :
       record[t].status \in {"ANSWERED", "TIMEOUT", "PUBLISH_FAILED"} =>
         \/ record'[t] \in {record[t], Is("MISSING")}
         \/ t \in sending /\ record'[t].status = "PUBLISH_FAILED"]_vars

DispatchSettles == \A t \in Tasks : Open(t) ~> ~Open(t)

ResultArrives == \A t \in Tasks : answers[t] # 0 ~> Arrived(t) \/ t \in lapsed

\* No task stays open at the server for ever, whatever the phone does; and what
\* the phone has answered arrives at the end of its channel, across lost
\* connections and confirmations and restarts, unless it grows too old before.
BothSidesLearn == DispatchSettles /\ ResultArrives
=============================================================================
