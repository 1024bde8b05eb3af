# Verification of eventmonitor

TLA+ models of *eventmonitor* (a Spring application that queues uploaded events, works
them off against a database and shows what happened on a web page), model-checked with TLC
and, for the safety properties that matter most, proved with TLAPS.

## 1. The system

Path prefixes: `J` is `src/src/main/java/info/ernestas/eventmonitor`, `W` is
`src/src/main/webapp`.

    client --PUT /rest--> ManagementEndpoint.upload --JMS--> incomingEventQueue
                                 | (exception)                     |
                                 v                                 v
                     /server/list ERROR line        IncomingEventListener.onMessage
                                                     INSERT -> UPDATE -> DELETE on `events`
                             ActiveMQErrorHandler <--throws--|    | one announcement each
                                 |                                 v
                                 v                        processedEventQueue
                     /server/list ERROR line                       |
                                                                   v
                     /server/list line  <---- ProcessedEventListener.onMessage
                                 |
                                 v
               browser: eventMonitor.js on stomp.js on SockJS

| Component | State | Operations | Interacts by |
|---|---|---|---|
| REST upload endpoint (`J/ws/ManagementEndpoint.java`) | none (the answer to each request) | `upload`, `exceptionHandler`, `info`, `getHealthCheck` | calls the event service; broadcasts errors |
| Event service (`J/service/EventServiceImpl.java`) | open transaction | `saveIncomingEvent`, `processEvent` (INSERT, UPDATE, DELETE), `updateEvent`, `saveProcessedEvent` | DAO; JMS sends outside the transaction |
| Incoming listener (`J/service/activemq/IncomingEventListener.java`) | the dto it holds | `onMessage` | three `processEvent` calls; throws to its container |
| Error handler (`J/service/activemq/ActiveMQErrorHandler.java`) | none | `handleError` | broadcasts an ERROR line |
| Processed listener (`J/service/activemq/ProcessedEventListener.java`) | none | `onMessage` | broadcasts on `/server/list` |
| DAO, entity, mapper (`J/dao`, `J/service/mapper`) | rows of `events`, the identity column | `save`, `delete` | Spring Data JPA, Hibernate, H2 |
| Broker and containers (`J/configs/ActiveMQConfiguration.java`) | two queues, consumer threads | receive, acknowledge | threads run the listeners |
| Monitor page (`W/resources/js/eventMonitor.js`) | `stompClient`, timers, the `response` element | `connect`, `reconnect`, `setConnected`, `showResponse` | callbacks of stomp.js |
| STOMP client (`W/resources/js/stomp.js`) | `connected`, subscriptions, heartbeat timers | `connect`, `disconnect`, `send`, `subscribe`, frame dispatch | callbacks of SockJS |
| SockJS client (`W/resources/js/sockjs-0.3.4.js`) | `readyState`, transport, scheduled close event | `send`, `close`, `_didClose`, transport fallback | network, timers |
| WebSocket broker and controller (`J/configs/WebSocketConfiguration.java`, `J/web/WebSocketController.java`) | sessions, subscriptions | SUBSCRIBE, SEND, fan-out | executor threads |
| Version service (`J/service/VersionServiceImpl.java`) | `versionCache` | `getVersionInformation` | DAO |
| Health check (`J/service/HealthCheckServiceImpl.java`) | none | `checkHealth` | reads the broker and the DAO |
| Configuration, pages, tests, build | none of their own | | |

**What is hard in it.** Several consumer threads run chains of three transactions each, on
rows that clients can point at (an uploaded dto may carry an `id`). Announcements leave a
transaction before it commits. Messages are acknowledged before they are handled, and only
one of the two containers has an error handler. In the browser, timers, close events and
ERROR frames of a session that is already replaced arrive when another one is being set up.
`PROJECT.json` lists each hazard at its line.

**What makes each component correct.**

- *Chains*: in order, one transaction each; they end, completed or reported; rows left in the
  table belong to a chain that failed; a completed chain leaves no row, although chains may
  share an id.
- *Announcements*: identify the event they are about; each is shown at most once; with one
  consumer, in order; none is invented; none is missing without a failure of its own.
- *Page*: one live socket, never without a pending reconnect when closed, shows the
  present session only, a bounded number of timers, connected in the end.
- *Socket*: behaves as one channel although transports come and go: late answers and
  timeouts of a transport that was given up do nothing, attempts end, messages reach the
  server in order and without gaps. The receiving side of its Ajax transports hands each frame
  on once, in order and in the end, however the responses are cut up, and keeps polling.
- *STOMP session and the broker of sessions*: frames arrive whole wherever they are cut; a
  session that has got one line misses none that follows, although the server's executors
  handle its frames in any order; each line is shown to it once.
- *Version service, health check*: read-only, see section 6.

## 2. Modules

### `EventPipeline`: from the upload to `/server/list`

| Variable | In the code |
|---|---|
| `response` | what the client of `PUT /rest` has been answered |
| `incomingEventQueue` | messages of that queue. A set: a client's upload can be received in any order when several consumers take part |
| `eventDto` | the id in the dto `onMessage` holds (`NoId` for null) |
| `action`, `stage` | which `processEvent` call the listener is in, and how far it is |
| `tx` | what the persistence context of the call's transaction will flush |
| `table`, `nextId` | committed rows and the identity column |
| `processedEventQueue` | the announcements dispatched to each consumer of that queue |
| `topic` | every line broadcast on `/server/list`, in order |
| `faults` | failures injected, at most `MaxFaults` |

Actions: `SaveIncomingEvent`, `UploadReturns`, `UploadFails`, `UploadFailsUntold` (the endpoint
and `saveIncomingEvent`); `Receive`, `Save`, `SaveProcessedEvent`, `Delete`, `Commit`,
`FlushFails`, `CallFails`, `HandleError`, `HandleErrorFails` (a listener thread and its
container); `InformUser`, `InformUserFails` (a consumer of processed events). Each of the three
broadcasts may throw: that of an announcement, of the error handler and of the exception handler
of the endpoint. A call of `processEvent`
is several actions, because other threads run between the read of a row, the JMS send and
the commit. Everything a step changes, including what the dto becomes for the next call, is
part of the step.

A row's columns are abstracted to the request that wrote them. The second save of
the same request changes no column, so Hibernate issues no UPDATE for it (`clean`); the save
of another request on the same row does (`update`).

*Taken from the libraries* (marked external in the map): a container with automatic
acknowledgement takes a message off the queue before the listener runs and does not put it
back; `JmsTemplate.send` is immediate and not part of the JPA transaction; a consumer of a
queue gets the messages dispatched to it in order; `SimpleJpaRepository.save` of an entity
with an id merges it, which loads the row and inserts the entity under a *generated* id when
there is none, `delete` merges and removes; an identity column hands out an id at the
INSERT, also when the transaction rolls back, and never twice; reads see committed rows; a
flush that updates or deletes a vanished row throws; flush and commit are one step, because
row locks keep two of them on one row apart; a container whose error handler throws keeps its
consumer going, the message being acknowledged already; a request whose exception handler throws
is answered with an error by the servlet container. A lock that times out, like any other exception
of a call, is `CallFails`.

### `EventLifecycle`: what the users are promised

The abstract specification: an accepted event goes through INSERT, UPDATE and DELETE, each
announced before the next begins, or fails; an announcement is told at most once, or lost;
so is the report of a failure. No queues, transactions, ids or threads. `EventPipeline` implements
it under the mapping at its end (`Lifecycle == INSTANCE EventLifecycle WITH ...`): the phase
comes from `stage` and `action`, the outbox from the notifiers' queues, and `told`, one
sequence of the lines of all events, from the topic: each line broadcast is one line told.
`ImplementsLifecycle` includes the abstract fairness: an accepted event gets on, an
announcement leaves the outbox, a failure is told or its report has failed too.

### `MonitorClient`: the page

| Variable | In the code |
|---|---|
| `sockets` | each `new SockJS` of `connect()` with its `Stomp.Client`; the last one is `stompClient`'s |
| `sockets[g].readyState` | SockJS's; `CLOSING` is left within one call and never seen by another |
| `sockets[g].closing` | `_didClose` has scheduled the close event and `ws.onclose` is set |
| `sockets[g].connected` | of the `Stomp.Client` |
| `sockets[g].session` | the server's end |
| `timers` | pending `setTimeout(connect, 10000)` |
| `display` | sessions whose lines the `response` element shows |

Actions: `PageLoads`, `TimerFires` (all of `connect()`, including the one that throws in
`disconnect` because the old socket is still connecting), `Open`, `ConnectFails`,
`ConnectionBreaks`, `ClosedAfterError`, `LinkLost`, `DispatchClose`, `ReceiveConnected`,
`ReceiveMessage`, `ReceiveError`. A browser runs one callback at a time, so each callback is
one action. The ten seconds of a timer are not modelled: a timer may fire at any later
moment, which also covers slow connections. From the server: an ERROR frame is followed by a
close; the simple broker has no heartbeat (`heart-beat:0,0`).

### `SockJsClient`: the socket, and `SocketChannel`: what it promises

One SockJS object on a page of the same origin, in a browser with WebSocket and
XMLHttpRequest. `detectProtocols` then yields WebSocket (unless the server declines it), XHR
streaming and XHR polling, in this order.

| Variable | In the code |
|---|---|
| `info` | the info request (`_ir`) |
| `readyState`, `protocols` | of the SockJS object (`_protocols`) |
| `transport`, `attached` | the transport created last; those whose callbacks are in place. `_transport` is null when `transport` is not among them |
| `timeouts`, `tref` | transports whose timeout is pending; the one `_transport_tref` refers to |
| `closing`, `events` | the close event is scheduled; events dispatched |
| `session`, `wire` | the server's session for each transport; frames and ends of responses on their way to it |
| `sent`, `buffer`, `posts`, `waiting`, `arrived` | messages of the page: handed to `send`, in `send_buffer`, in `xhr_send` requests, the 25 ms of `send_schedule_wait`, and what the server has got |
| `pushed`, `faults` | counters for `MaxMessages`, `MaxFaults` |

Actions: `InfoAnswers`, `InfoFails`, `InfoGarbled`; `TransportTimesOut`; `ReceiveOpen`,
`ReceiveReopen`, `ReceiveMessage`, `ReceiveClose`, `ReceiveEnd`; `Send`, `Disconnect`,
`PostSucceeds`, `PostFails`, `SendScheduled`; `DispatchClose`. `DidClose` is `_didClose` with
`_try_next_protocol`, as each of them calls it. The server and the network act by `Accept`,
`Push`, `EndResponse`, `SessionEnds`, `ServerRestarts` (external). Data is reduced to the
kinds of frames and the numbers of the page's messages; heartbeat frames change nothing.
The page connects from `onload`, when the document is complete, so `need_body` never makes a
transport wait.

`SocketChannel` is the view the STOMP client and `MonitorClient` have: `readyState`, the
scheduled close event and the events dispatched. It opens at most once, delivers only while
open, closes at most once and reports that in a turn of its own. `MonitorClient`'s `Open`,
`ConnectFails`, `ConnectionBreaks` and `DispatchClose` are the channel's steps for one socket.

### `XhrReceiver`: what an Ajax transport receives, and `FrameFeed`: what it promises

The streaming and polling transports of `SockJsClient` in detail, from the `XMLHttpRequest`
to `SockJS._didMessage`: `AbstractXHRObject`, `XhrReceiver` and `Polling`, with the events
between them. `SockJsClient` takes frames one at a time from the wire; here they come in a
response that is one growing text, of which any part may have arrived.

| Variable | In the code |
|---|---|
| `transport` | closed once `_didClose` has cleaned the transport up (`poll_is_closing`, callbacks removed) |
| `xhr.state` | of the present request: to be started by `utils.delay`, sent, answered in full, or left behind by a callback that threw in `onfinish` (`stuck`) |
| `xhr.events` | the `EventEmitter`'s listeners, `nuked` after `abort` |
| `xhr.text`, `xhr.arrived` | the response as written, and how many characters of it have arrived. A line is two characters, its data and its line feed |
| `buf_pos` | of the receiver |
| `written`, `delivered` | frames written by the server and handed to `_didMessage` |
| `throws` | callbacks that have thrown, at most `MaxThrows` |

Actions: `Start`, `Chunk` (`onreadystatechange` with state 3), `Finish` (state 4: `onfinish`,
`_cleanup` and what `Polling` does on the event `close`), `Close`; the server's `Write`,
`EndResponse`, `Refuse`, `Break` are external. `buf_pos` moves before the callback is called, so
that a callback that throws loses no frame and repeats none. A request scheduled when the
transport is closed is started all the same, with its events off.

`FrameFeed` is the receiver without requests and responses: frames are heard once, in order,
some at a time, until the transport is closed, by the close frame at the latest.

### `StompFrames`, `StompSession`: sessions on an open socket, and `TopicFeed`: what they promise

`StompFrames` is the text side of stomp.js as operators: `Marshall`, `Unmarshall` with
`UnmarshallSingle`, and the `Pieces` that `_transmit` cuts. A text is a sequence of tokens: head
lines, the blank line, characters of the body, NUL; a character has the number of its UTF-8
bytes, because `content-length` counts bytes and `unmarshallSingle` uses it as a number of
characters.

`StompSession` has the pages' sessions, one after the other or several at once, and the server
behind `/events`.

| Variable | In the code |
|---|---|
| `link` | the socket: in order and without loss until it is closed (what `SocketChannel` and `MessagesArriveInOrder` say of SockJS); closed first on the page's side, then known to the server |
| `connected`, `counter`, `subscriptions` | of the `Stomp.Client` |
| `response` | lines the page shows of the session |
| `transmitted`, `toServer` | frames given to `_transmit`, and their pieces on the way |
| `decoder`, `received` | the server's incomplete text; frames it has decoded |
| `inbound`, `outbound` | tasks of the two channel executors, which run in any order |
| `registered` | subscriptions of the simple broker |
| `toClient` | texts on their way to the page |
| `topic` | lines broadcast on `/server/list` |

Actions: `Open`, `ReceiveConnected` (the connect callback: clear the display, subscribe, say
hello), `ReceiveMessage` (with `JSON.parse`, which throws on a body that is not whole),
`Disconnect`, `Break` on the page; `ReceivePiece`, `HandleConnect`, `HandleSubscribe`,
`HandleSend` (`websocketEndpoint`), `HandleDisconnect`, `SessionEnds`, `Announce`, `Deliver` on
the server. Spring's decoder, its executors and the simple broker are external; the
configuration names the endpoint, the prefixes and `/server`. `Announce` is what
`EventPipeline` does when it appends to its `topic`.

`Text`, `Cut` and `Reading` tabulate what `Marshall`, `Pieces` and `Unmarshall` make of the frames
of a session, so that the model checker computes each once.

`TopicFeed` hides frames, pieces, subscription ids and executors: a session that has joined is
attached some time; each line published from then on is shown to it once, in any order, and in
the end, unless it leaves; nothing published before is shown.

### How the modules fit together

    EventPipeline.topic  ~  StompSession.topic       (Announce = a line appended)
    StompSession         :  sessions of MonitorClient from Open to their close
    SockJsClient         => SocketChannel = the sockets of MonitorClient, the link of StompSession
    XhrReceiver          => FrameFeed     = how frames come to SockJsClient's Ajax transports

`=>` is checked as a refinement. The other two lines relate modules that share an interface and
are not composed into one state space: nothing of one is read by the other beyond it.

### Proof modules

`EventPipelineProofs`, `MonitorClientProofs`, `SockJsProofs`, `XhrReceiverProofs`,
`StompFramesProofs` and, on top of that, `StompSessionProofs` extend the modules they are named
after. `EventIsolationProofs` (requests without ids) and `LifecycleProofs` (one notifier, and the
refinement of `EventLifecycle`) extend `EventPipelineProofs`.

## 3. Runs

| Run | Instance | Shows |
|---|---|---|
| `rows` | 2 events, client id 1 or none, 1 notifier, 2 consumers, 1 failure | `TypeOK`, `RowsAccountedFor`, `CompletedLeavesNoRow`, `HeldIdsWereGenerated`, `BroadcastInOrder`, and that `IInv` of the proofs is an invariant |
| `isolation` | 2 events, no client ids, 2 notifiers, 2 consumers, 1 failure | `AnnouncementsIdentifyEvents`, `FailuresHaveACause` |
| `lifecycle` | 2 events, client id 1 or none, 1 notifier, 2 consumers, no injected failure; fair | `ImplementsLifecycle`, `QueuedEventsSettle`, `AcceptedEventsAreShown` |
| `losses` | 1 event, 2 notifiers, 3 failures; fair | `MishapsHaveACause`, and `ImplementsLifecycle` with lost and reordered announcements, failing calls, reports that are lost, and uploads that are rejected, told or untold, while their event is processed |
| `page` | 4 failures; fair | `OneLiveSocket`, `NeverStranded`, `DisplayIsCurrent`, `ReconnectsAreBounded`, `StaysConnected`, and that `IInv` of the proofs is an invariant |
| `socket` | 2 messages sent, 1 pushed, 2 failures; fair | all of `SockJsClient`, with `ImplementsChannel` |
| `session` | 2 sessions, 1 announcement, pieces of 2 tokens, 1 session that ends; fair | all of `StompSession`, with `ImplementsFeed` |
| `polling` | 3 frames and a close frame, 2 callbacks that throw; fair | all of `XhrReceiver`, with `ImplementsFeed`, `FramesAreHeard` and `PollingGoesOn` |
| `errors`, `updateid`, `timer`, `loss` | smallest that shows it | a statement of the documentation, a test or a comment that the code does not keep (section 5) |

**Bounds.** `MaxFaults` bounds the failures in one behaviour; `MaxConsumers` is a parameter
of the code. Everything else is bounded by the number of events, because each event causes a
fixed number of steps. Two events are enough for every conflict of the pipeline: conflicts
are between two transactions on one row. Client id 1 is the first id the table generates, so
that a request can hit the row of the other one, before or after it exists; a request
without an id and one with an id that no row has are there too. One notifier shows order
being kept, two show it being lost. In the page, a failure is what makes something happen;
four let a timer of one failure meet the connection after the next in every way, twice.
In the socket, two messages are what it takes to have one under way and one in the buffer;
two failures reach the third transport, or lose a request after the server has restarted. The
transports are the program's own three. Invariants also hold with three messages.
In `session`, three lines (two greetings and an announcement) can be broadcast before, between
and after two subscriptions. The page's frames never reach the 16384 characters at which
`_transmit` cuts; the instance has a small limit, to check the loop and the server's decoder as
they are written, for any frame. Pieces of two tokens cut every frame of the client, leave CONNECT
and DISCONNECT a last piece that is only the NUL, and make the greeting come out even; one
closing meets every state of a session while the other one lives. In `polling`, three frames
and the close frame let a response hold frames already read, a frame half arrived and frames
not read yet, over one to four responses; two throws hit two frames of one response or two
responses.
Requests and notifiers are interchangeable, so that the invariants are checked with symmetry;
temporal properties are checked without. Deadlock is checked in the runs of the pipeline and
the page: the only ways to stop are `Idle` (all requests answered and settled, all queues
empty) and `Sits` (a page whose link is lost). It is off in `socket`, `session`
and `polling`, where what is closed stops; that nothing stops before is `AttemptsEnd` and
`SendsArrive`, the fairness in `TopicFeed`, and `FramesAreHeard` and `PollingGoesOn`.

**Why one notifier in `rows`.** With two, `BroadcastInOrder` does not hold: that is what
several consumers of one queue do, and `EventLifecycle` promises no order. No profile keeps the
consumers at one: prod starts five, dev one, and in both they may grow to ten
(`activemq.queue.consumers.maxCount`). The property holds while one consumer runs, as dev's does
at the start.

**Why no client ids in `isolation`.** With a client's id two chains share a row; then one's
DELETE makes the other one's flush fail, and its announcements can carry the other one's id.
The load test (`etc/jmeter/LoadTest.jmx`) uploads events without an id, as a client has no reason
to send one; the integration test uploads one with id 1 (`AbstractTest.java:29`,
`ProcessEventIT.java:75`), a single one on an empty table, which disturbs nobody. The two
properties say what clients that send no id can rely on. `MishapsHaveACause` of `losses` has a
client's id, but one request only.

**Fairness.** In `EventPipeline`: weak fairness of what threads do that nothing blocks (the
request thread returns; a container's free consumer receives; a thread in a call goes on; the
error handler runs; a notifier handles its queue). `Receive` is weakly fair for each event: a
message stays on the queue and a consumer becomes free again and again, as chains end; with
the instances' two consumers it is never disabled for long. None for uploads (clients decide)
and none for failures. In `MonitorClient`: the page loads, timers fire, scheduled events are
dispatched, a connection attempt ends (SockJS has a timeout for the info request and for each
transport), a server that has not failed answers CONNECT and closes after an ERROR. None for
failures, none for a lost link to be noticed.

That a connection attempt ends is `AttemptsEnd` of `SockJsClient`, with one exception: when
the info request is answered with status 200 and no JSON, `JSON.parse` throws after the
timeout was cleared, the socket stays CONNECTING for ever and the page sets no timer.
`MonitorClient` assumes that the info answer is JSON. In `SockJsClient`, weak fairness of
timers, scheduled events, callbacks of items that have arrived, and of requests, which are
answered or fail. None for the server to accept a transport: the timeout is what ends an
attempt.

In `StompSession`, weak fairness for each session of what its threads and callbacks do: pieces
arrive, tasks of the executors are run, texts are received. Only finitely many such steps
are possible without a new announcement, so that one condition for all of a session's steps is
enough. Nothing makes a page open or close or a line be written. In `XhrReceiver`, weak
fairness of the browser's steps, and of the end of a response that contains a frame: a polling
response ends after one frame, a streaming one after 128 KB, which heartbeats alone fill.

**Mutants.** Each property is broken by a plausible slip in a definition the map names: the
listener ignores the dto a call returns, an assigned id is kept, an id is computed from the
rows, UPDATE is skipped, a message is never acknowledged, an error handler is missing, a
flush is retried for ever, a close is not reported, a socket is left open on reconnect, the
display is not cleared, a timeout or the callbacks of a transport outlive it, a second request
is sent before the first one has ended, the buffer is forgotten, a length in bytes is taken
for the end of a body, a piece skips a character, a body is shown unparsed, a session is left
out of a broadcast, a status is not looked at, `buf_pos` moves after the callback, the rest of a
response is not read, the next poll is not scheduled. They stand above the definition they replace.

## 4. Proofs

All proofs hold for every value of the constants, from the named assumptions
(`ClientIdsAssumption`, `MaxConsumersAssumption`, `MaxFaultsAssumption`,
`ClientFaultsAssumption`, `MaxMessagesAssumption`, `MaxSendsAssumption`,
`SockJsFaultsAssumption`, `FramesAssumption`, `MaxThrowsAssumption`, `FrameSizeAssumption`,
`MaxClosingsAssumption`, `LinesAssumption`), which TLC evaluates on each instance. Where a
theorem needs more (`ClientIds = {}`, `Notifiers = {n}`), its statement
says so.

**EventPipelineProofs.** `TypeCorrect`, `IInvCorrect`, and from them `RowsAreAccountedFor`,
`CompletedEventsLeaveNoRow`, `HeldIdsAreGenerated`. Neither of the first two properties is
inductive. That a completed chain's row stays gone depends on nobody being about to insert
under its id, and on a merge in another transaction flushing an UPDATE (which throws when the
row is gone), never an INSERT. `IInv` adds what that needs:

- `PendingInsertsAreFresh`: an uncommitted INSERT has an id that no row, no listener and no
  other uncommitted INSERT has. It holds because `Persist` takes `nextId` whatever the dto
  says, and breaks when an id is kept (`Persist_KeepsId`) or reused (`Persist_CountsRows`);
- `KnownIdsWereGenerated`, `RowIdsWereGenerated`: ids in use are below `nextId`, so that the
  next one is new;
- `AbsentRowsStayAbsent`: a row a listener has looked for in vain does not turn up before its
  commit, so that DELETE may treat a missing row as deleted;
- `WorkFitsCall`, `RequestsComeFirst`: which work a transaction can hold at which point.

The step proof has a lemma per group of actions (`InvUpload`, `InvReceive`, `InvWork`,
`InvSave`, `InvDelete`, `InvSend`, `InvDrop`, `InvCommitSave`, `InvCommitDelete`,
`InvListener`), a frame lemma (`InvFrame`) for steps that leave the chains and the table
alone, and types in lemmas of their own. The section on announcements says what is queued or
broadcast by a step (`AnnouncedWhere`, `OnlyCallsAnnounce`); the next two modules rest on it.

**EventIsolationProofs.** With `ClientIds = {}`, `ChainsDoNotClash` proves
`FailuresHaveACause`, `MishapsHaveTheirCause` proves `MishapsHaveACause` and `IdsIdentifyEvents`
proves `AnnouncementsIdentifyEvents`. The reason is
that chains have rows of their own: no two listeners hold one id (`IdsAreOwn`), a row is there
from its listener's INSERT to its DELETE and was written by it (`RowsAreOwn`), so that each save
finds its row unchanged and each flush hits (`WorkIsOwn`, `IsolatedCanFlush`). Whatever goes
wrong then adds to `faults`, and to what has gone wrong by no more than that (`MishapsAreFew`,
with a lemma for each actor), failed chains among it (`FailuresAreMishaps`); and an announcement
carries the id of its listener's row
(`AnnouncementsAreOwn`).

**LifecycleProofs.** `OneNotifierKeepsOrder`: with one notifier, for any number of
listeners, `BroadcastInOrder`. The property speaks of the topic alone. `Order` adds that the
queue is in order, that what is broadcast comes before what is queued, and that no
announcement is ahead of its listener (`PastOnly`).

`LifecycleIsImplemented`: every behaviour of `EventPipeline` is one of
`EventLifecycle`, fairness aside. Most steps need the types only (the lemmas `Step...` give
the abstract steps, the lemmas `...Maps` go through the actions). What needs an invariant is
that a line is told at most once: no two announcements queued or broadcast say the same
(`OnceInvariant`). It holds because a listener announces its calls one after the other
(`PastOnly` again) and an ERROR line at most once, when it fails.

**MonitorClientProofs.** `IInvCorrect`, and from it `TypeCorrect`, `OneSocketIsLive`, `PageIsNeverStranded`,
`ConnectedDisplayIsCurrent`, `ReconnectsStayBounded`. `OneLiveSocket` gives that only the
current socket can open, close or receive, hence that each callback may be argued about with
`cur`. `ReconnectsAreBounded` is not inductive: a close under way will set another timer, so
`OwedReconnectsAreBounded` counts it in advance, and `ClosingIsClosed` ties `closing`,
`session` and `readyState` together.

**SockJsProofs.** `TypeCorrect`, `IInvCorrect`, and the following. `AbandonedTransportsStaySilent` and `TimeoutsHitOnlyTheirOwn` rest on
`CurrentInvariant`: callbacks, `_transport_tref` and the pending timeout all belong to the
transport being tried (`TrefIsCurrent`). `ChannelIsImplemented` needs no invariant: `_didClose`
either changes nothing the channel shows or closes it (`DidCloseMaps`), and `ChannelStep` goes
through the actions. `MessagesStayInOrder` needs the whole of `IInv`: `MessagesFollow` says that
what arrived, the one request under way and the buffer are consecutive runs, and that on an
open socket they add up to what was sent, so that the next message continues them;
`SenderStartsEmpty` gives it when the socket opens; `WebSocketSessionIsOne` keeps a broken
WebSocket's session from coming back, which would leave a gap. The lemmas on runs
(`ContinuesAppend`, `ContinuesConcat`) carry the arithmetic.

**XhrReceiverProofs.** `TypeCorrect`, `IInvCorrect`, `FeedIsImplemented`. That frames are heard
in order is not inductive: `ReadInStep` says that of the response being read the first
`buf_pos / 2` frames are the last ones delivered, and that the rest of its text is what the
server wrote next. Handing on `n` more lines then extends `delivered` as `written` goes on
(`HandedOnAsWritten`), which is a step `Hear` of `FrameFeed`. `ClosedIsQuiet` gives that a closed
transport hears nothing, also when its request has still to start.

**StompFramesProofs.** What the operators on texts do, for texts of any length.
`FramesAreReadBack`: unmarshalling the text of a frame yields that frame alone, with all its
headers and its whole body, although `content-length` counts bytes and `unmarshallSingle` takes it
for characters: the bytes are never fewer, so that the body is never cut short. A frame here has
no header twice and none named `content-length` (`WellFormed`), as all frames of the page and the
server. `PiecesAddUp`: pieces are not empty, not above the limit, each takes up where the last one
ended, and all of them make the text. Where the code loops, the operators take a set, a number and
`SubSeq`; no induction is needed.

**StompSessionProofs.** `SessionInvariant` (`Spec => []Inv`), and from it `TypeCorrect`,
`FramesStayWhole` (`FramesArriveWhole`), `SessionsMissNothing` (`NoGaps`) and `FeedIsImplemented`.
None of the properties is inductive; `Inv` says for each session

- `WireInv`, with `Carries`: there is a numbering of the pieces on the wire by frame and piece,
  without a gap, that begins with the one after what the decoder holds; the decoder holds the
  first pieces of one frame. `ReceivePiece` then completes a frame exactly with its last piece
  (`PieceArrives`): a shorter beginning is no frame's text, because it has no NUL. `Break` cuts the
  numbering anywhere; a session that is open has all of it (`Complete`);
- `PageInv`: what the page has transmitted, and which subscription it has, follow from whether it
  is connected yet (`Script`), and `ReceivedInv`: what is decoded is a beginning of that. No frame
  is in a script twice, so that a handled frame does not come again (`Handled`). Hence a CONNECTED
  is sent once and a greeting broadcast once;
- `WayInv`: on its way to the page is a CONNECTED or a line that has been broadcast, each once,
  and no line before the server has the subscription. That the order is lost on the way does not
  matter, which is why it speaks of the set `Way`; moving a frame from the executor to the socket
  leaves `Way` as it is;
- `GapInv`: what `NoGaps` says. A broadcast adds the newest line to every session that is due any
  line, because such a session is registered (`WayInv`).

`FeedIsImplemented` is `Spec => Feed!FeedSpec`, that is `ImplementsFeed` without the fairness. The
lemmas `StepsOfFeed`, `StatesOfFeed` and `PendingOfFeed` say what the abstract steps and variables
are in terms of the session's; the lemmas `...Moves` go through the actions: `Open` is `Join`, the
first SUBSCRIBE handled `Attach`, a close `Leave`, a broadcast `PublishLine`, a MESSAGE received
`ShowLine`, and everything else a stutter. That clearing the display in the connect callback is a
stutter needs `WayInv`: nothing can have been shown yet.

**Only model-checked.** Liveness: `QueuedEventsSettle`, `AcceptedEventsAreShown`,
`StaysConnected`, `SendsArrive`, `AttemptsEnd`, `FramesAreHeard`, `PollingGoesOn`, and the fairness
in `ImplementsLifecycle` and in the `ImplementsFeed` of `StompSession`. Fairness and ENABLED are
out of the prover's reach. Every invariant and every action property that a passing run checks is
proved.

## 5. Where documentation and code part

- **Not all errors are written** (`errors`). The README's "All the errors also are written to
  /server/list" fails for the processed listener: its container has no error handler.
- **UPDATE may return another id** (`updateid`). `EventServiceImplTest` asserts that UPDATE
  returns the dto's id; when another chain has deleted the row meanwhile, the save inserts the
  entity under a new id. The announcement of that UPDATE still names the old one.
- **A healthy session is torn down** (`timer`). "If application is disconnected - permanently
  try to reconnect": ERROR frame and close both start a timer; the second one reconnects a
  page that is connected again.
- **A lost link is not noticed** (`loss`). The same comment and the message of stomp.js's
  heartbeat check: no heartbeat is negotiated with this broker, and the check compares NaN.

## 6. Not modelled

- `info` and `getHealthCheck` of the endpoint, the version service and its cache, the health
  check: they read. One row of `versions` is written by `import.sql` and by nobody later, so
  that the cache cannot be stale; the health report copies four values of the broker one after
  the other, and nothing reads it but a person. No sequence of calls leads them to a state
  that a unit test does not reach.
- Five hazards are listed without a property. The timestamp's hour and minute, the static random
  generator and `maxRandom=0`: the value of a timestamp and the length of a delay show nowhere in
  the models, and the failure of a call is `CallFails`, whatever its reason. An info answer that
  is not JSON, and a callback that throws while `onfinish` reads: both are actions of the models
  (`InfoGarbled`, the state `stuck`), the code does hang there, and the liveness properties exempt
  them, `AttemptsEnd` the one, `FramesAreHeard` and `PollingGoesOn` the other.
- Page controllers, servlet and Spring wiring, properties, logging; names, timestamps and the
  wording of messages.
- A crash of application or broker, as an action. Queues and table live in memory, so that a
  restart is a new `Init` and what was accepted and not announced is gone; there is no recovery
  code to model. What the browser sees of a restart is modelled: `ServerRestarts` in
  `SockJsClient`, a broken connection in `MonitorClient` and `StompSession`.
- SockJS's iframe, XDR, EventSource, HtmlFile and JSONP transports, which this page does not
  use in a browser with XMLHttpRequest, and its utilities. A late failure of a request on a
  closed socket throws in a callback; the model has no effect for it.
- `ack`, `nack`, `unsubscribe`, transactions and receipts of stomp.js, which the page never
  calls, and heartbeats beyond the negotiation, which this broker turns off.
- `SockJsClient` takes the end of a response as an item of its own behind the frames in it;
  that they are read first is what `XhrReceiver` is for. `CloseFrame` of `XhrReceiver` stands for
  every frame that closes the socket while it is read: frame c, and the frame o with which a
  restarted server answers a poll of an open socket. What such a server writes behind it in the
  same response nobody hears, and the model has it not written.
- Frames of a session overtake each other at the server's executors, never on the socket.

## 7. Plan and what became of it

All modules planned were written in this order: `EventPipeline` and `EventLifecycle`,
`MonitorClient`, `SockJsClient` and `SocketChannel`, `StompFrames`, `StompSession` (planned as
`WebSocketBroker`) and `TopicFeed`, `XhrReceiver` and `FrameFeed`; and the proofs planned for
them, as far as the prover reaches. `BrokerRestart`, `HealthCheck`, `VersionInfo` and
`EventTimestamp` were given up: section 6 says why for each. What would be worth adding when the
code changes: a restart once a queue is persistent, heartbeats once the broker has them.
