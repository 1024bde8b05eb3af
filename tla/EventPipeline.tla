--------------------------- MODULE EventPipeline ---------------------------
(***************************************************************************)
(* The path of one uploaded event through the application: the REST        *)
(* endpoint puts it on incomingEventQueue, a consumer of that queue runs   *)
(* INSERT, UPDATE and DELETE on the events table, each inside a            *)
(* transaction of its own and each announced on processedEventQueue, and   *)
(* the consumers of processedEventQueue broadcast the announcements on the *)
(* topic /server/list.                                                     *)
(*                                                                         *)
(* Sources: ManagementEndpoint, EventServiceImpl, IncomingEventListener,   *)
(* ActiveMQErrorHandler, ProcessedEventListener, EventDaoImpl and the      *)
(* wiring of ActiveMQConfiguration.                                        *)
(*                                                                         *)
(* What a row holds is abstracted to the request that wrote it: the        *)
(* columns of two requests differ (updatedBy is drawn at random), those of *)
(* one request never change after its INSERT.                              *)
(***************************************************************************)
EXTENDS Integers, Sequences, FiniteSets, Functions

CONSTANTS
    Events,        \* the upload requests
    ClientIds,     \* event ids a request may carry; it may always carry none
    Notifiers,     \* consumers of processedEventQueue
    MaxConsumers,  \* activemq.queue.consumers.maxCount, for incomingEventQueue
    MaxFaults      \* bound on the failures injected into one behaviour

ASSUME ClientIdsAssumption == ClientIds \subseteq Nat \ {0}
ASSUME MaxConsumersAssumption == MaxConsumers \in Nat \ {0}
ASSUME MaxFaultsAssumption == MaxFaults \in Nat

NoId == 0   \* a null Integer id; generated ids start at 1

VARIABLES
    response,             \* answer to each PUT /rest
    incomingEventQueue,   \* events queued for the IncomingEventListener
    eventDto,             \* id in the dto the listener is holding
    action,               \* action of the processEvent call it is in
    stage,                \* how far that call has got
    tx,                   \* uncommitted work of that call's transaction
    table,                \* committed rows of the events table
    nextId,               \* next value of its identity column
    processedEventQueue,  \* announcements dispatched to each notifier
    topic,                \* lines broadcast on /server/list so far
    faults                \* failures injected so far

restVars == <<response, incomingEventQueue>>
chainVars == <<eventDto, action, stage, tx>>
dbVars == <<table, nextId>>
vars == <<restVars, chainVars, dbVars, processedEventQueue, topic, faults>>

-----------------------------------------------------------------------------
Action == {"INSERT", "UPDATE", "DELETE"}

\* Where a processEvent call stands.  INSERT and UPDATE go called, written,
\* ready; DELETE goes called, notified, ready.
InCall == {"called", "written", "notified", "ready"}
Stage == InCall \cup {"idle", "done", "failing", "failed"}

EventStatusChange == [event : Events, action : Action, id : Nat]
ErrorLine == [event : Events, action : {"ERROR"}, source : {"rest", "jms"}]

Row == [id : Nat, writer : Events]

\* Work of a transaction that its commit will make visible.
Work == [op : {"none", "insert", "update", "clean", "delete", "discard"},
         id : Nat]
NoWork == [op |-> "none", id |-> NoId]

TypeOK ==
    /\ response \in [Events -> {"none", "pending", "OK", "ERROR"}]
    /\ incomingEventQueue \subseteq Events
    /\ eventDto \in [Events -> Nat]
    /\ action \in [Events -> Action]
    /\ stage \in [Events -> Stage]
    /\ tx \in [Events -> Work]
    /\ table \subseteq Row
    /\ nextId \in Nat \ {0}
    /\ processedEventQueue \in [Notifiers -> Seq(EventStatusChange)]
    /\ topic \in Seq(EventStatusChange \cup ErrorLine)
    /\ faults \in 0 .. MaxFaults

Init ==
    /\ response = [e \in Events |-> "none"]
    /\ incomingEventQueue = {}
    /\ eventDto = [e \in Events |-> NoId]
    /\ action = [e \in Events |-> "INSERT"]
    /\ stage = [e \in Events |-> "idle"]
    /\ tx = [e \in Events |-> NoWork]
    /\ table = {}
    /\ nextId = 1
    /\ processedEventQueue = [n \in Notifiers |-> <<>>]
    /\ topic = <<>>
    /\ faults = 0

-----------------------------------------------------------------------------
(* The upload request *)

\* convertAndSend("/server/list", ...) of an ERROR line.
BroadcastError(e, source) ==
    topic' = Append(topic, [event |-> e, action |-> "ERROR", source |-> source])

Fault ==
    /\ faults < MaxFaults
    /\ faults' = faults + 1

\* The JMS send does not take part in the transaction around
\* saveIncomingEvent: the message is on the queue before the call returns.
SaveIncomingEvent(e, id) ==
    /\ response[e] = "none"
    /\ response' = [response EXCEPT ![e] = "pending"]
    /\ incomingEventQueue' = incomingEventQueue \cup {e}
    /\ eventDto' = [eventDto EXCEPT ![e] = id]
    /\ UNCHANGED <<action, stage, tx, dbVars, processedEventQueue, topic, faults>>

UploadReturns(e) ==
    /\ response[e] = "pending"
    /\ response' = [response EXCEPT ![e] = "OK"]
    /\ UNCHANGED <<incomingEventQueue, chainVars, dbVars,
                   processedEventQueue, topic, faults>>

\* The exception handler answers a send that failed and, the event being
\* queued already, a transaction that failed to commit after the send.
UploadFails(e) ==
    /\ response[e] \in {"none", "pending"}
    /\ Fault
    /\ BroadcastError(e, "rest")
    /\ response' = [response EXCEPT ![e] = "ERROR"]
    /\ UNCHANGED <<incomingEventQueue, chainVars, dbVars, processedEventQueue>>

\* The broadcast in the exception handler throws as well: the client is
\* answered with an error all the same.
UploadFailsUntold(e) ==
    /\ response[e] \in {"none", "pending"}
    /\ faults + 2 <= MaxFaults
    /\ faults' = faults + 2
    /\ response' = [response EXCEPT ![e] = "ERROR"]
    /\ UNCHANGED <<incomingEventQueue, chainVars, dbVars,
                   processedEventQueue, topic>>

-----------------------------------------------------------------------------
(* The incoming listener: onMessage *)

\* Consumer threads that are inside onMessage or in its error handler.
BusyConsumers == {e \in Events : stage[e] \in InCall \cup {"failing"}}

\* The session acknowledges automatically: the message leaves the queue when
\* the listener gets it, and no failure puts it back.
Receive(e) ==
    /\ e \in incomingEventQueue
    /\ Cardinality(BusyConsumers) < MaxConsumers
    /\ incomingEventQueue' = incomingEventQueue \ {e}
    /\ stage' = [stage EXCEPT ![e] = "called"]
    /\ UNCHANGED <<response, eventDto, action, tx, dbVars,
                   processedEventQueue, topic, faults>>

Found(id) == \E r \in table : r.id = id

\* Mutants: an assigned id is kept; the id is taken from the committed rows.
Persist_KeepsId(e, op) ==
    LET id == IF eventDto[e] = NoId THEN nextId ELSE eventDto[e]
    IN  /\ tx' = [tx EXCEPT ![e] = [op |-> op, id |-> id]]
        /\ nextId' = nextId + 1

Persist_CountsRows(e, op) ==
    /\ tx' = [tx EXCEPT ![e] = [op |-> op, id |-> Cardinality(table) + 1]]
    /\ UNCHANGED nextId

\* An entity without a committed row is persisted: the identity column hands
\* out its id at once, whatever id the dto carried.
Persist(e, op) ==
    /\ tx' = [tx EXCEPT ![e] = [op |-> op, id |-> nextId]]
    /\ nextId' = nextId + 1

\* An entity with a committed row is copied onto it; the flush at commit
\* updates the row only if this changed a column.
Merge(e) ==
    LET id == eventDto[e]
        op == IF [id |-> id, writer |-> e] \in table THEN "clean" ELSE "update"
    IN  tx' = [tx EXCEPT ![e] = [op |-> op, id |-> id]]

\* eventDao.save of INSERT and, after the delay, of updateEvent.
Save(e) ==
    /\ stage[e] = "called"
    /\ action[e] \in {"INSERT", "UPDATE"}
    /\ \/ ~Found(eventDto[e]) /\ Persist(e, "insert")
       \/ Found(eventDto[e]) /\ Merge(e) /\ UNCHANGED nextId
    /\ stage' = [stage EXCEPT ![e] = "written"]
    /\ UNCHANGED <<restVars, eventDto, action, table,
                   processedEventQueue, topic, faults>>

\* INSERT announces the saved entity, UPDATE and DELETE the dto they were
\* called with.
AnnouncedId(e) == IF action[e] = "INSERT" THEN tx[e].id ELSE eventDto[e]

\* Mutant: the switch falls into its default branch.
SaveProcessedEvent_Default(e, n) ==
    /\ stage[e] = "written"
    /\ stage' = [stage EXCEPT ![e] = "ready"]
    /\ processedEventQueue' = [processedEventQueue EXCEPT ![n] = Append(@,
           [event |-> e, action |-> "ERROR", id |-> AnnouncedId(e)])]
    /\ UNCHANGED <<restVars, eventDto, action, tx, dbVars, topic, faults>>

\* saveProcessedEvent: sent at once, before the transaction commits, and
\* dispatched to one of the notifiers.
SaveProcessedEvent(e, n) ==
    /\ \/ /\ action[e] \in {"INSERT", "UPDATE"} /\ stage[e] = "written"
          /\ stage' = [stage EXCEPT ![e] = "ready"]
       \/ /\ action[e] = "DELETE" /\ stage[e] = "called"
          /\ stage' = [stage EXCEPT ![e] = "notified"]
    /\ processedEventQueue' = [processedEventQueue EXCEPT ![n] = Append(@,
           [event |-> e, action |-> action[e], id |-> AnnouncedId(e)])]
    /\ UNCHANGED <<restVars, eventDto, action, tx, dbVars, topic, faults>>

\* eventDao.delete: a row that is not there is persisted and removed again.
Delete(e) ==
    /\ stage[e] = "notified"
    /\ \/ ~Found(eventDto[e]) /\ Persist(e, "discard")
       \/ /\ Found(eventDto[e])
          /\ tx' = [tx EXCEPT ![e] = [op |-> "delete", id |-> eventDto[e]]]
          /\ UNCHANGED nextId
    /\ stage' = [stage EXCEPT ![e] = "ready"]
    /\ UNCHANGED <<restVars, eventDto, action, table,
                   processedEventQueue, topic, faults>>

\* The flush expects each UPDATE and DELETE statement to hit its row.
CanFlush(e) == tx[e].op \in {"update", "delete"} => Found(tx[e].id)

Others(id) == {r \in table : r.id # id}

Flushed(e) ==
    CASE tx[e].op \in {"insert", "update"} ->
             Others(tx[e].id) \cup {[id |-> tx[e].id, writer |-> e]}
      [] tx[e].op = "delete" -> Others(tx[e].id)
      [] OTHER -> table

\* Mutants: the listener keeps the dto it has; UPDATE is left out.
Return_IgnoresResult(e) ==
    /\ action' = [action EXCEPT ![e] = IF @ = "INSERT" THEN "UPDATE" ELSE "DELETE"]
    /\ stage' = [stage EXCEPT ![e] = IF action[e] = "DELETE" THEN "done" ELSE "called"]
    /\ UNCHANGED eventDto

Return_SkipsUpdate(e) ==
    /\ action' = [action EXCEPT ![e] = "DELETE"]
    /\ stage' = [stage EXCEPT ![e] = IF action[e] = "DELETE" THEN "done" ELSE "called"]
    /\ eventDto' = [eventDto EXCEPT ![e] = IF action[e] = "DELETE" THEN @ ELSE tx[e].id]

\* What processEvent's return hands to the listener's next call.
Return(e) ==
    \/ /\ action[e] = "INSERT"
       /\ action' = [action EXCEPT ![e] = "UPDATE"]
       /\ stage' = [stage EXCEPT ![e] = "called"]
       /\ eventDto' = [eventDto EXCEPT ![e] = tx[e].id]
    \/ /\ action[e] = "UPDATE"
       /\ action' = [action EXCEPT ![e] = "DELETE"]
       /\ stage' = [stage EXCEPT ![e] = "called"]
       /\ eventDto' = [eventDto EXCEPT ![e] = tx[e].id]
    \/ /\ action[e] = "DELETE"
       /\ stage' = [stage EXCEPT ![e] = "done"]
       /\ UNCHANGED <<action, eventDto>>

\* The @Transactional proxy commits after processEvent has run.
Commit(e) ==
    /\ stage[e] = "ready"
    /\ CanFlush(e)
    /\ table' = Flushed(e)
    /\ tx' = [tx EXCEPT ![e] = NoWork]
    /\ Return(e)
    /\ UNCHANGED <<restVars, nextId, processedEventQueue, topic, faults>>

Rollback(e) ==
    /\ stage' = [stage EXCEPT ![e] = "failing"]
    /\ tx' = [tx EXCEPT ![e] = NoWork]
    /\ UNCHANGED <<restVars, eventDto, action, dbVars, processedEventQueue, topic>>

\* Mutant: the flush is retried until it succeeds.
FlushFails_Retries(e) == stage[e] = "ready" /\ ~CanFlush(e) /\ UNCHANGED vars

\* The row went away between this transaction's read and its flush.
FlushFails(e) ==
    /\ stage[e] = "ready"
    /\ ~CanFlush(e)
    /\ Rollback(e)
    /\ UNCHANGED faults

\* The DAO, the JMS send, the delay or the commit throws.
CallFails(e) ==
    /\ stage[e] \in InCall
    /\ Fault
    /\ Rollback(e)

\* Mutant: the container has no error handler.
HandleError_LogsOnly(e) ==
    /\ stage[e] = "failing"
    /\ stage' = [stage EXCEPT ![e] = "failed"]
    /\ UNCHANGED <<restVars, eventDto, action, tx, dbVars,
                   processedEventQueue, topic, faults>>

\* onMessage rethrows; the container's error handler broadcasts it.
HandleError(e) ==
    /\ stage[e] = "failing"
    /\ BroadcastError(e, "jms")
    /\ stage' = [stage EXCEPT ![e] = "failed"]
    /\ UNCHANGED <<restVars, eventDto, action, tx, dbVars,
                   processedEventQueue, faults>>

\* The broadcast throws: the container recovers, the message is gone.
HandleErrorFails(e) ==
    /\ stage[e] = "failing"
    /\ Fault
    /\ stage' = [stage EXCEPT ![e] = "failed"]
    /\ UNCHANGED <<restVars, eventDto, action, tx, dbVars,
                   processedEventQueue, topic>>

-----------------------------------------------------------------------------
(* The processed listener: onMessage *)

\* Mutant: the message stays on the queue.
Acknowledge_Never(n) == processedEventQueue[n] # <<>> /\ UNCHANGED processedEventQueue

Acknowledge(n) ==
    /\ processedEventQueue[n] # <<>>
    /\ processedEventQueue' = [processedEventQueue EXCEPT ![n] = Tail(@)]

InformUser(n) ==
    /\ Acknowledge(n)
    /\ topic' = Append(topic, Head(processedEventQueue[n]))
    /\ UNCHANGED <<restVars, chainVars, dbVars, faults>>

\* onMessage rethrows, but this container has no error handler.
InformUserFails(n) ==
    /\ Acknowledge(n)
    /\ Fault
    /\ UNCHANGED <<restVars, chainVars, dbVars, topic>>

-----------------------------------------------------------------------------
Settled(e) ==
    \/ stage[e] \in {"done", "failed"}
    \/ stage[e] = "idle" /\ response[e] = "ERROR" /\ e \notin incomingEventQueue

\* Every request has been answered and dealt with: the one way to stop.
Quiescent ==
    /\ \A e \in Events : response[e] \in {"OK", "ERROR"} /\ Settled(e)
    /\ \A n \in Notifiers : processedEventQueue[n] = <<>>

Idle == Quiescent /\ UNCHANGED vars

UploadStep(e) ==
    \/ \E id \in ClientIds \cup {NoId} : SaveIncomingEvent(e, id)
    \/ UploadReturns(e)
    \/ UploadFails(e)
    \/ UploadFailsUntold(e)

CallStep(e) ==
    \/ Save(e)
    \/ \E n \in Notifiers : SaveProcessedEvent(e, n)
    \/ Delete(e)
    \/ Commit(e)
    \/ FlushFails(e)

ListenerStep(e) ==
    \/ Receive(e)
    \/ CallStep(e)
    \/ CallFails(e)
    \/ HandleError(e)
    \/ HandleErrorFails(e)

NotifierStep(n) == InformUser(n) \/ InformUserFails(n)

Next ==
    \/ \E e \in Events : UploadStep(e) \/ ListenerStep(e)
    \/ \E n \in Notifiers : NotifierStep(n)
    \/ Idle

\* Every thread keeps running: the one answering the request, the container's
\* consumers and the thread inside a call.  Nothing makes a client upload and
\* nothing makes a call fail.
Fairness ==
    /\ \A e \in Events : WF_vars(UploadReturns(e))
    /\ \A e \in Events : WF_vars(Receive(e))
    /\ \A e \in Events : WF_vars(CallStep(e))
    /\ \A e \in Events : WF_vars(HandleError(e))
    /\ \A n \in Notifiers : WF_vars(InformUser(n))

Spec == Init /\ [][Next]_vars
FairSpec == Spec /\ Fairness

-----------------------------------------------------------------------------
(* Properties *)

Held(e) == action[e] # "INSERT"   \* the listener holds an id of the table

Announced == (UNION {Range(processedEventQueue[n]) : n \in Notifiers})
                 \cup {line \in Range(topic) : line.action \in Action}

\* Every committed row has a listener that has its id and has not yet
\* completed the DELETE (IncomingEventListener, the three calls of onMessage):
\* a row outlives its chain only when the chain failed, never because another
\* chain updated, deleted or re-created it meanwhile.
RowsAccountedFor ==
    \A r \in table : \E e \in Events :
        Held(e) /\ eventDto[e] = r.id /\ stage[e] # "done"

\* Once a chain has completed its DELETE, the row it deleted stays gone: a
\* chain still holding the same id cannot write it back (EventDaoImpl.save of
\* an entity whose row has vanished).
CompletedLeavesNoRow ==
    \A e \in Events : stage[e] = "done" => ~Found(eventDto[e])

\* A listener works on an id the table handed out, never on one a client made
\* up: processEvent returns the saved entity, and the later calls use it.
HeldIdsWereGenerated == \A e \in Events : Held(e) => eventDto[e] \in 1 .. nextId - 1

\* When no request carries an id, all announcements of one event name one id
\* and those of two events different ids, rolled back INSERTs and lost
\* announcements included: users can follow an event by its id.
AnnouncementsIdentifyEvents ==
    \A a, b \in Announced : a.event = b.event <=> a.id = b.id

\* When no request carries an id, no chain fails unless a call of its own
\* failed: concurrent chains do not make each other's flush fail.
FailuresHaveACause ==
    Cardinality({e \in Events : stage[e] \in {"failing", "failed"}}) <= faults

\* While one consumer of processedEventQueue runs, users see each event's lines
\* at most once and in the order of the listener's calls
\* (ProcessedEventListener; every profile lets the container start more).
Rank == [INSERT |-> 1, UPDATE |-> 2, DELETE |-> 3]

BroadcastInOrder ==
    \A i, j \in DOMAIN topic :
        /\ i < j
        /\ topic[i].event = topic[j].event
        /\ {topic[i].action, topic[j].action} \subseteq Action
        => Rank[topic[i].action] < Rank[topic[j].action]

\* Every queued event is dealt with, failures and conflicts included: no chain
\* stops between two of its steps and no message stays on the queue.
QueuedEventsSettle ==
    \A e \in Events :
        e \in incomingEventQueue ~> stage[e] \in {"done", "failed"}

\* If no announcement gets lost, an accepted event is shown to the users: with
\* the lines of all three actions or, when another chain's DELETE made its
\* flush fail, with an ERROR line (onMessage of both listeners).
AcceptedEventsAreShown ==
    \A e \in Events :
        response[e] = "OK" ~>
            \/ \A a \in Action : \E l \in Range(topic) : l.event = e /\ l.action = a
            \/ \E l \in Range(topic) : l.event = e /\ l.action = "ERROR"

-----------------------------------------------------------------------------
(* The inductive invariant behind the safety properties *)

\* A listener has a message only after the request queued it.
RequestsComeFirst ==
    \A e \in Events :
        /\ response[e] = "none" => stage[e] = "idle" /\ e \notin incomingEventQueue
        /\ e \in incomingEventQueue => stage[e] = "idle"
        /\ stage[e] = "idle" => ~Held(e)
        /\ stage[e] = "done" => Held(e)

\* Which work a transaction can hold at which point of the call.
WorkFitsCall ==
    \A e \in Events :
        /\ stage[e] = "notified" => action[e] = "DELETE"
        /\ tx[e].op = "none" <=> stage[e] \notin {"written", "ready"}
        /\ tx[e].op \in {"insert", "update", "clean"} => action[e] # "DELETE"
        /\ tx[e].op \in {"delete", "discard"} => action[e] = "DELETE"
        /\ tx[e].op \in {"update", "clean", "delete"} => tx[e].id = eventDto[e]

\* The id of the listener's dto has been the id of a row.
Knows(e) == Held(e) \/ tx[e].op \in {"update", "clean"}

KnownIdsWereGenerated == \A e \in Events : Knows(e) => eventDto[e] \in 1 .. nextId - 1

\* An uncommitted INSERT has an id of its own: no row, no listener and no
\* other uncommitted INSERT has it.
PendingInsertsAreFresh ==
    \A e \in Events : tx[e].op = "insert" =>
        /\ tx[e].id \in 1 .. nextId - 1
        /\ ~Found(tx[e].id)
        /\ \A f \in Events : Knows(f) => eventDto[f] # tx[e].id
        /\ \A f \in Events \ {e} : tx[f].op = "insert" => tx[f].id # tx[e].id

RowIdsWereGenerated == \A r \in table : r.id \in 1 .. nextId - 1

\* A row that a listener did not find does not turn up before its commit.
AbsentRowsStayAbsent ==
    \A e \in Events :
        Held(e) /\ tx[e].op \in {"insert", "discard"} => ~Found(eventDto[e])

IInv ==
    /\ TypeOK
    /\ RequestsComeFirst
    /\ WorkFitsCall
    /\ RowIdsWereGenerated
    /\ KnownIdsWereGenerated
    /\ PendingInsertsAreFresh
    /\ AbsentRowsStayAbsent
    /\ CompletedLeavesNoRow
    /\ RowsAccountedFor

-----------------------------------------------------------------------------
(* The pipeline implements EventLifecycle *)

Phase(e) ==
    CASE stage[e] = "idle" /\ e \in incomingEventQueue -> "accepted"
      [] stage[e] = "done" -> "completed"
      [] stage[e] \in InCall -> action[e]
      [] stage[e] = "failing" -> "failed"
      [] stage[e] = "failed" -> "over"
      [] OTHER -> "absent"

\* What the users make of a line of the topic.
Told(line) ==
    IF line.action # "ERROR" THEN line.action
    ELSE [rest |-> "rejected", jms |-> "failed"][line.source]

IsAnnounced(e) == stage[e] \in {"notified", "ready"}

Outbox(e) ==
    {a \in Action : \E n \in Notifiers : \E m \in Range(processedEventQueue[n]) :
                        m.event = e /\ m.action = a}

Lifecycle == INSTANCE EventLifecycle WITH
    phase <- [e \in Events |-> Phase(e)],
    announced <- [e \in Events |-> IsAnnounced(e)],
    outbox <- [e \in Events |-> Outbox(e)],
    told <- [i \in DOMAIN topic |->
                [event |-> topic[i].event, says |-> Told(topic[i])]]

\* Queues, transactions and ids hidden, the pipeline does what EventLifecycle
\* promises: the three actions happen in order and are announced, no line is
\* broadcast twice, and each accepted event completes or fails and is reported,
\* if the broadcast of the report succeeds.
ImplementsLifecycle == Lifecycle!FairLifecycleSpec

-----------------------------------------------------------------------------
(* What goes wrong has a cause *)

\* Lines the users should see, now or as soon as a notifier gets to them.
LinesDue(e) ==
    {a \in Action : \/ Rank[a] < Rank[action[e]]
                    \/ a = action[e] /\ (IsAnnounced(e) \/ stage[e] = "done")}
        \cup {says \in {"failed"} : stage[e] = "failed"}
        \cup {says \in {"rejected"} : response[e] = "ERROR"}

Shown(e) == {Told(line) : line \in {l \in Range(topic) : l.event = e}}

\* What has gone wrong with e: its upload, its chain, lines that got lost.
Mishaps(e) ==
    {what \in {"upload"} : response[e] = "ERROR"}
        \cup {what \in {"chain"} : stage[e] \in {"failing", "failed"}}
        \cup (LinesDue(e) \ (Outbox(e) \cup Shown(e)))

\* When no two requests share a row, each rejected upload, each failed chain and
\* each line that is missing, announcement or report, has a failure of its own:
\* a failure does not spread, and a line is missing only because its broadcast
\* failed (onMessage of both listeners, handleError, exceptionHandler).
MishapsHaveACause ==
    Cardinality(UNION {{e} \X Mishaps(e) : e \in Events}) <= faults

-----------------------------------------------------------------------------
(* What the documentation and the tests say, and the code does not do *)

\* README, architecture: "All the errors also are written to /server/list".
Errors == {i \in DOMAIN topic : topic[i].action = "ERROR"}

AllErrorsAreWritten ==
    \A k \in 1 .. MaxFaults : faults >= k ~> Cardinality(Errors) >= k

\* EventServiceImplTest.testProcessEvent_updateEntry: the dto that UPDATE
\* returns has the id of the dto it was called with.
UpdateKeepsId ==
    [][\A e \in Events : action[e] = "UPDATE" /\ action'[e] = "DELETE"
           => eventDto'[e] = eventDto[e]]_vars
=============================================================================
