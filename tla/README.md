# A verification project for the a2a Python SDK (with its Kafka transport)

The SDK implements the A2A protocol: a client sends messages to an agent, the
agent works on a *task* and publishes events, and the server turns the events
into stored task state and into answers and streams. This directory holds TLA+
models of the parts where that is concurrent, TLC configurations that check
them, and TLAPS proofs about them. Paths below are relative to `src/src/a2a/`
unless they say otherwise.

## 1. The system

| Component | State | Operations | Talks to |
|---|---|---|---|
| Event queue (`server/events/event_queue.py`) | bounded `asyncio.Queue`, `_children`, `_is_closed` | `enqueue_event`, `dequeue_event`, `task_done`, `tap`, `close`, `clear_events` | its children (broadcast, cascade of closes) |
| Queue manager (`server/events/in_memory_queue_manager.py`) | `_task_queue`, `_lock` | `create_or_tap`, `tap`, `close`, `add`, `get` | event queues; `close` drains one under the lock |
| Event consumer (`server/events/event_consumer.py`) | `_exception` | `consume_all`, `agent_task_callback` | dequeues, closes its queue on the final event |
| Result aggregator (`server/tasks/result_aggregator.py`) | `_message` | `consume_and_emit`, `consume_all`, `consume_and_break_on_interrupt`, background continuation | consumer, task manager |
| Request handler (`server/request_handlers/default_request_handler.py`) | `_running_agents`, background tasks | `message/send`, `message/stream`, `tasks/cancel`, `tasks/resubscribe`, `tasks/get`, push configs; producer, cleanup | all of the above, the agent executor |
| Task manager and stores (`server/tasks/`) | a copy of the task; stored tasks | `process`, `save_task_event`, `ensure_task`, `update_with_message`; `get`, `save`, `delete` | store |
| Task updater (`server/tasks/task_updater.py`) | terminal latch, lock | `update_status` and its shorthands, `add_artifact` | event queue |
| Artifact merging (`utils/helpers.py`) | none: changes the task it is given | `append_artifact_to_task` | server and client task managers |
| Push notifications (`server/tasks/*push*`) | configurations per task | `set_info`, `get_info`, `delete_info`, `send_notification` | HTTP; called by the request handler |
| Kafka client transport (`client/transports/kafka.py`, `kafka_correlation.py`) | `_pending_requests`, `_streaming_requests`, `StreamingFuture`s | calls, streams, response consumer, `start`, `stop` | request and reply topics |
| Kafka server (`server/apps/kafka/app.py`, `server/request_handlers/kafka_handler.py`) | consumer position, committed offset | consumer loop, `handle_request`, replies, `start`, `stop` | topics, request handler |
| Client (`client/base_client.py`, `client_factory.py`, `client_task_manager.py`, `card_resolver.py`, `legacy.py`) | the agent's card, the task followed | `create`, `send_message`, `resubscribe`, `get_card`, event aggregation | transports |
| HTTP and gRPC transports (`client/transports/jsonrpc.py`, `rest.py`, `grpc.py`) | card, `_needs_extended_card` | one call each; streams; `get_card` | the adapters |
| Adapters of the server (`server/apps/`, `server/request_handlers/*_handler.py`) | none that outlives a call | decode, check capabilities, run the handler, encode answers, streams, errors; serve cards | request handler |
| Types and conversions (`types.py`, `utils/proto_utils.py`) | none | `ToProto`, `FromProto` | gRPC and REST on both ends |
| Request context, telemetry, signing, auth, gRPC stubs | none that outlives a call | | |

A `message/send` takes this way: the handler creates the task's queue, or taps
it when another request is at work on the task, starts the agent as a producer
task, and consumes its own queue through aggregator and consumer, which store
every event. The producer closes its queue when the agent returns. The cleanup
waits for the producer, removes and closes the queue registered for the task
(not necessarily the request's own) and forgets the agent.

What is hard here:

* **Interleavings of coroutines** on one queue: publishers suspended on full
  queues, closes that join several queues, taps that come late, cancellation in
  the middle of any of these. asyncio runs a coroutine without interruption
  between two suspension points, and which points really suspend depends on the
  Python version (`Queue.shutdown` from 3.13, `wait_for` before 3.12).
* **Shared entries**: requests on one task share a queue manager entry and a
  `_running_agents` entry, and each cleanup removes them.
* **Waiting on each other**: a graceful close waits for consumers, a cleanup
  waits for the producer, which waits in its close; the manager's lock is held
  across the wait.
* **Failures between two steps**: agents that raise, stores that fail, clients
  that leave, a server that restarts between taking a request and replying.
* **Ordering** of replies, completion signals, registrations and time-outs.
* **Several copies of one task**: each reader's task manager, the store, the
  client. In-memory objects are shared by reference, a database row is a value.
* **Documents that change on their way**: absent, empty, zero and false are one
  in protobuf, and some fields have no place there.
* **Streams over HTTP**, whose response begins before the generator behind them
  runs, so that errors, headers and request bodies come too late.

`PROJECT.json` lists every such hazard at its line with the properties about it.

## 2. Modules

| Module | Models |
|---|---|
| `EventQueue` | class `EventQueue` on an `asyncio.Queue`: all operations, suspended calls, cancellation, Python before and from 3.13 |
| `EventQueueOrder` | `EventQueue` with numbered events and history, to speak of what reaches whom in which order |
| `Broadcast` | the abstract promise: each publisher's events reach each queue once, in order, without a hole |
| `EventQueueProofs`, `EventQueueOrderProofs`, `RequestHandlerProofs`, `KafkaProofs`, `TaskViewsProofs`, `ProtocolsProofs`, `PushNotificationsProofs`, `ClientSessionProofs` | theorems about the modules they are named for, and about `Rpc` |
| `RequestHandler` | requests on tasks: handler, queue manager, consumer, aggregator, producer, cleanup, store; EXTENDS `EventQueue`, whose actions are parts of its own |
| `KafkaTransport` | client transport, correlation manager, topics, server loop and handler, restarts |
| `KafkaLifecycle` | start, stop and `run()` of the two Kafka ends, and how their readers end and are restarted |
| `Rpc` | the abstract promise of a request-response transport, implemented by `KafkaTransport` and by `Protocols` |
| `TaskViews` | what the events of one task become: updater, task managers, both stores, a second reader, a client that leaves, the client's own copy |
| `ConfigStore` | the abstract promise of a store of push notification configurations: each call has its effect at one moment |
| `PushNotifications` | both configuration stores, and the notifications of sends and streams |
| `Protocols` | one call over JSON-RPC, REST or gRPC: client, transport, adapter, an open request handler, connections that break |
| `WireFormat` | `ToProto` and `FromProto` of messages, tasks, events, send configurations and cards; the canonical form of a card |
| `ClientSession` | a client: choice of the transport, exchange of the card, a task followed over a transport; EXTENDS `WireFormat` |
| `MC...` | symmetry sets and sets of inputs for TLC |

`RequestHandler` EXTENDS `EventQueue`, `ClientSession` EXTENDS `WireFormat`,
`EventQueueOrder` INSTANCEs `Broadcast`, `KafkaTransport` and `Protocols` INSTANCE
`Rpc`, `PushNotifications` INSTANCEs `ConfigStore`.

Operators marked *Slip* are wrong on purpose: each is an action of the code with
a plausible mistake, and putting it in the place of that action must make TLC
report a given property (`mutants` in `PROJECT.json`). No specification uses one.

### How the models correspond to the code

**EventQueue.** `children`, `closed` are `_children`, `_is_closed`; `buf` and
`unfinished` are the buffer and the unfinished count of the `asyncio.Queue`;
`held` counts events that were dequeued and not yet marked done. `op[p]` is
where the call of coroutine `p` is suspended: in a `put` on the `at`-th target
of a broadcast, in the `gather` of `clear_events`, or in the `gather` of a
graceful close. `Enqueue`, `ResumePut` are the loop of `enqueue_event` up to the
next put that finds its queue full; `PutRaises` is the `QueueShutDown` of Python
3.13. `CloseGraceful` / `CloseChild` / `StartJoin` / `CloseReturns` and
`CloseImmediate` / `ClearChild` / `ClearedAll` are `close` and what it gathers.
The queue's own lock is never held across a suspension, so taking it is not a
step. Children are not tapped again: the only caller of `tap()`, the queue
manager, taps queues it registered, and those are roots (`EntriesAreRoots`
of `RequestHandler`, which holds under the constants of `HandlerAll`). `EventQueueOrder` adds what was put where by whom; there a
coroutine that was cancelled publishes nothing more.

**RequestHandler.** A request makes at most one queue and is named like it. Its
coroutines are the consumer (with the handler method), the agent and the
cleanup. `pc` is where the consumer is: `setup`, the loop of `consume_all`
(`top`, `wait`, `got`, `process`), and the wait for the cleanup (`finishing`,
`failing`). Between `got` and `process` lies `task_done()`, a step of its own,
because before Python 3.12 `wait_for` suspends after the dequeue. An event is the
task state it carries and whether it ends the loop: a status update ends it when its own
field `final` is set (`event_consumer.py:105`), whatever its state, a Message always.
`TaskUpdater` marks every terminal status and nothing else; an agent that builds its
events by hand is free to do otherwise, and the agents of `HandlerTurns` do. (Failed and
rejected tasks behave like completed ones.) `auth` interrupts `message/send`. `agent` is the producer task, `clean`
the cleanup, `taskQueue`/`lock` the queue manager, `running` is
`_running_agents`, `stored` the state in the store. The agent executor and the
store are outside: agents publish what they like and end, the store takes one
state per task, atomically. Under `TakeTurns` a client sends to a task when its last
send is dealt with: refused, or answered and its cleanup over.

**KafkaTransport.** `pending`/`streams` are the keys of `_pending_requests` and
`_streaming_requests`, `future` what a future was completed with, `items` and
`ending` a `StreamingFuture`. Topics are logs of one partition; `read` and
`position` are the readers' places in them. `Register` is the moment
`send_and_wait` returns, which is when a call is registered; it may come after
the reply. `ReadReply` is one turn of `_consume_responses` with the method of
the correlation manager it calls (its lock never suspends). `CallerLeaves` cancels a
caller wherever it waits: for the send, for its reply, for the next event of a stream.
Only a time-out unregisters (`kafka.py:293`), so what such a caller registered stays. The server handles
one request at a time (`_consume_requests` awaits `handle_request`). `said` is
history: what the server said about a call, also when the send failed. Requests
are handled one after the other (`app.py:150`): a long stream holds up every
other client, and a cancel cannot overtake the send it is meant for; `StreamsEnd`
and `CallsReturn` rest on handlers that end.

**KafkaLifecycle.** One end of the transport, used in one of three ways: the
client, the server entered as a context, the server awaited by `run()`. Fields
and actions are those of `start`, `stop` and the readers; a start's producer and
consumer are named by its number, and `producers`, `consumers` are those that are
connected, whether a field still holds them or not. `doing` is where each
coroutine is in a call; `joining`, `first`, `second` are the three awaits of a stop: the
reader, then producer and consumer in the order of each class. A close may raise, or
its stop be cancelled in it; the stop ends there and what it had still to close stays
open (`lostProducers`, `lostConsumers`). `reader` is the
consumer task: reading, or in one of the awaits of the restart. A cancellation
(`cut`) reaches it where it is suspended (`ReaderCut`). Pending calls are
`KafkaTransport`'s. One coroutine starts the end, and not while a stop is at
work; two overlapping starts would each leave a producer behind, since the first
`await` comes before `_running` is set.

**TaskViews.** Objects and values are kept apart. `heap` holds the `Task` objects
(the one an event carries, the one a manager made or read, the row of the
database), `cur` is `_current_task` of each manager, `shelf` what the store
holds: the very object in memory, the row in a database. `parts[i]` is the parts
list of the artifact object that event `i` brought; a task's artifact is a
reference to it, so that `append_artifact_to_task` extends it for every holder.
With the in-memory store nothing is awaited between queue and yield, so an event
is taken and applied in one step (`TakeInMemory`); a database access is a step
(`Load`, `Create`, `Save`). The `main` view is the reader of the request, `tap`
one that resubscribes with a `TaskManager` of its own. `Disconnect` cancels the
stream at any await, with a save that landed or did not. `ClientReceives` is
`ClientTaskManager.process`, folded over what was sent. `Log` is the reference:
the task that the events tell of, computed from the log of events alone. It applies
nothing: it says which events count (those from the last `Task` object on, without a
lost one) and puts their messages and their chunks in order. `turn` says whether the
message starts the task or goes on with one, and which artifacts earlier turns left
(`Asked`). The client knows nothing of those: its `ClientTaskManager` is new with each
send (`base_client.py:104`), so it has only what this turn began (`ClientAgrees`). The
manager of a new task has no id before its first event (`task_manager.py:111`); one
that finds an event of another task there is `strayed`: it stores that task, which the
model does not look at, and raises at the next event of its own.

**PushNotifications.** `kept` is the list of the in-memory store or the rows of
the database; `SetReads` and `SetWrites` are `session.merge`, which selects the
row and inserts or updates it later. `applied` counts the events the manager's
task object has taken in, `saved` those the store has; a notification tells of
the object as it is when its post begins. `by` is who reads the queue: the
request (`main`), the continuation of an interrupted send (`rest`), or
`consume_all` after the client of a stream left (`quiet`, which notifies nobody).
`pass[p]` is one `send_notification`: read the configurations, begin all posts,
wait for all. A final `Message` has a number like the other events but changes
nothing: `message/send` answers it and notifies nobody, the other readers notify of
the task once more (`TakeMessage`). `message/send` waits for its cleanup before it
notifies of its last event (`Cleanup`), and three things may fail (`failed`): the agent
raises, which ends the reader before it takes what is left; the cleanup raises again
what the agent raised after its last event, or finds the queue closed by another
request; or `get_info` raises, which ends the round and with it the stream or the
continuation that waits for it. There is one request at work on the task: a second
one would tap the queue, and read and notify for itself.

**Protocols.** One call from the library's client to its answer. `request`,
`bodyRead`, `response` and `handler` are the server's progress, `frames` what is
on the wire, `said` what the request handler said, `heard` what the caller got.
`Refused` and `TakeBad` are the capability decorators and the decoding, each
where it raises; `JsonRpcAnswer`, `RestChunk`, `abort_context` and their like are
what each adapter makes of a result, an event, a `ServerError` or another
exception; `ReadEvent`, `ReadEnd`, `ReadError`, `ReadBreak` what each transport
and the client above it make of a frame. The request handler is open: it says
and raises what it likes. What the caller learns of a `ServerError` depends on when
it is raised: `ErrorsKeepTheirKind` says it of every moment. Once a stream of REST
has begun nothing encodes an error any more, and the server breaks the connection
off; its caller gets a 503 even for a task that does not exist. A connection that
is lost before the headers of a stream of HTTP have come raises inside
`aconnect_sse`, outside the `try` which would make a 503 of it: `LostRaw`.

**WireFormat, ClientSession.** A conversion keeps the fields it copies and is
modelled where it does something else: defaults for absent values, absent for
empty ones, states and roles without a case, the message of a status that is
read whether it is set or not, fields without a place (the time of a status and the
tasks a message refers to among them). `Negotiated` is
`ClientFactory.create`, which refuses an empty name or url and tries no other; `GetCard`,
`Resolved`, `CardComes`, `CardFails` are
`get_card` with its awaits, for several callers of one transport; `Publish` is
one event, a Task or an update, taken by the server's task manager (`StoreTakes`) and,
after its trip, by the client's (`ClientTakes`). A second Task replaces the first on the
server and ends the client's stream: `following`. `begun`, the Task that the stream
began with, is there for properties: each side moves status messages to the history at
its own time, so the message of that Task's status is one the client's history never gets.

## 3. Runs

| Run | Module / cfg | Shows |
|---|---|---|
| `queue_close` | `EventQueue` / `EventQueueClose` | Python 3.13: overlapping closes leave no tap open, closed queues never grow, a graceful close returns on drained queues and always returns |
| `queue_order` | `MCEventQueueOrder` / `EventQueueOrder` | Python < 3.13, a queue and its tap, two publishers whose calls may be cancelled: types; the unfinished count equals buffer plus held events at all times; no queue over its bound; an open tap misses nothing; the queue implements `Broadcast` |
| `handler_all` | `MCRequestHandler` / `HandlerAll` | two requests of any kind on one task with agents that raise, stores that fail, clients that leave: a cleanup that succeeds leaves nothing behind |
| `handler_turns` | `MCRequestHandler` / `HandlerTurns` | sends to a task take turns, agents publish states that are marked final or not: success is answered as success, all an agent published up to its final event is stored, a terminal state marked final lasts |
| `handler_answers` | `MCRequestHandler` / `HandlerAnswers` | two sends, polls or streams on one task: each is answered and cleaned up |
| `kafka_rpc` | `KafkaTransport` / `KafkaRpc` | lost sends, early replies, a stop, callers that leave: the registry is exact and the transport implements `Rpc` |
| `kafka_restarts` | `KafkaTransport` / `KafkaRestarts` | two calls, a restart at any moment, handlers that fail, callers that leave: answers are replies to their call, in order, once; calls return, and a stream whose end can still be read ends. `KafkaEnds.cfg`, beside the runs, checks the last two for one call while sends fail, replies come early and the client stops as well |
| `task_views` | `TaskViews` / `TaskViewsAll` | both stores, one or two readers, a client that leaves at any await, tasks with an artifact of an earlier turn: the stored task is the one its events tell of (or lacks the one event being saved at the disconnect), the client's task has its state and the artifacts of this turn, and every status message once, a terminal status is the last and is stored |
| `push` | `MCPushNotifications` / `PushAll` | both configuration stores, sends and streams, two clients that change configurations, posts that fail, and an agent, a cleanup or a reading of configurations that fails: subscribers hear of stored events, in order, and of the end, whichever other subscriber fails, as long as none of these three does; both stores implement `ConfigStore` |
| `protocols` | `Protocols` / `ProtocolsAll` | every transport, method, capability, defect, error and break of the connection: no call that ends without error is cut short, the error a handler raises reaches its caller as its kind or a status that fits it, out of a stream of REST as a 503; callers are answered; the transports implement `Rpc` |
| `kafka_life` | `KafkaLifecycle` / `KafkaLife` | starts that fail, readers that fail and are restarted, closes that fail, two others that stop the end at any moment: a stop leaves no reader, and no connection but those given up where a start or a close failed; a stop returns; `run()` reads again or returns |
| `client` | `MCClientSession` / `ClientAll` | the best common transport is chosen, no outdated card is returned, the task put together from a converted Task and converted updates is the converted task, with one message missing from its history and no other, and conversions keep what is meant, but for what they have no field for |

`HandlerTypeOK`, `TaskTypeOK`, `ProtocolTypeOK`, `PushTypeOK`, `SessionTypeOK` and
`LifeTypeOK` hold under the constants of the runs of their modules; they are not
listed there. All of them are proved (section 4).

### Counterexamples

These configurations are kept beside the runs. Each states what a doc or comment
promises (or relaxes one assumption of a run) and ends in a counterexample.

| cfg (module) | Property | What happens |
|---|---|---|
| `EventQueueLatePut` (`EventQueue`) | `ClosedQueueNeverGrows` | before 3.13 a put suspended on a full queue puts into it after it was closed; `event_queue.py:138` says that behaviour is consistent across versions |
| `EventQueueLateTap` (`EventQueue`) | `NoTapOutlivesItsQueue` | a tap made after the close began is never closed (`event_queue.py:136`) |
| `EventQueueCutShort` (`EventQueue`) | `NoTapOutlivesItsQueue` | a `close(True)` cancelled in its gather leaves the taps open for good |
| `EventQueueTapMisses` (`MCEventQueueOrder`) | `TapSeesAll` | on 3.13 the close of one full tap makes the publication raise before it reaches the next (`event_queue.py:124`) |
| `HandlerRetryWedges` (`MCRequestHandler`) | `LockFreed` | the agent's exception ends `_cleanup_producer` before it closes the queue and forgets the agent (`default_request_handler.py:437`); a retry taps the leaked queue, and its cleanup joins it under the manager's lock, for ever |
| `HandlerFailureHangs` (`MCRequestHandler`) | `EveryRequestAnswered` | after a failed store the handler awaits a producer that waits for the queue to be drained |
| `HandlerResubMisses` (`MCRequestHandler`) | `ResubscriberSeesFinal` | `close(True)` on the final event clears the taps of slower readers (`event_queue.py:124`) |
| `HandlerResubLate` (`MCRequestHandler`) | `ResubscribesToOpenQueue` | `tasks/resubscribe` taps a closed queue that is about to be removed (`default_request_handler.py:505`) |
| `HandlerTwoSends` (`MCRequestHandler`), run with `-continue` | `SuccessIsNotAnError` | two `message/send` on one task: the cleanup that comes second raises `NoTaskQueue` and turns a result into an error |
| `HandlerTwoSends` (`MCRequestHandler`) | `TerminalIsForever` | the state was checked before the other send ended the task; what the second agent publishes overwrites the terminal state |
| `HandlerUnmarked` (`MCRequestHandler`) | `EndsStay` | a completed status with `final=False` does not end the loop (`event_consumer.py:105`), and the next status takes the task back to work |
| `HandlerCancelHangs` (`MCRequestHandler`) | `TerminalIsAnswered` | after `tasks/cancel` the blocking `message/send` on the task is never answered |
| `TaskFaults` (`TaskViews`), run with `-continue` | `DisconnectPersists` | the client leaves while an event is being saved: the event is lost, also the final one (`default_request_handler.py:388`) |
| `TaskFaults` (`TaskViews`) | `AppliedOnce` | with a second reader an event is applied to the stored task twice, and a status message is twice in the history |
| `KafkaFaults` (`KafkaTransport`), run with `-continue` | `StreamsAreWhole` | a stream ends at its completion signal with events still in its queue |
| `KafkaFaults` (`KafkaTransport`) | `StreamErrorsRaised` | a failed stream is done and its loop ends before it reads the exception (`KAFKA_IMPLEMENTATION_SUMMARY.md:76`) |
| `KafkaFaults` (`KafkaTransport`) | `RepliesComplete` | a reply read before `register()` is dropped (`KAFKA_IMPLEMENTATION_SUMMARY.md:110`) |
| `KafkaFaults` (`KafkaTransport`) | `NothingLeftBehind` | a cancelled caller leaves its entry in the registry (`kafka.py:281`) |
| `KafkaLoses` (`KafkaTransport`) | `AtLeastOnce` | auto-commit: a request whose handling is cut off is lost (`docs/kafka_transport.md:195`) |
| `KafkaStopHangs` (`KafkaTransport`) | `StopEndsCalls` | a stream in flight registers after `cancel_all` and waits for ever |
| `KafkaRunReturns` (`KafkaLifecycle`) | `RunClosesAll` | a signal's `stop()` cancels the reader; `run()` wakes, its own `stop()` finds `_running` cleared, and it returns while the first is still to close the connections (`app.py:109`) |
| `KafkaDeaf` (`KafkaLifecycle`), run with `-continue` | `RunningReads` | the reader of a client ends with the first error and `start()` does nothing on an end that runs (`docs/kafka_transport.md:189`) |
| `KafkaDeaf` (`KafkaLifecycle`) | `StopClosesAll` | the first of the two closes of a stop raises, the other connection stays open (`kafka.py:167`) and the next stop does nothing |
| `TaskFaults` (`TaskViews`) | `ClientHasArtifacts` | a follow-up turn appends to an artifact of an earlier one: the server extends it, the client drops the chunk (`base_client.py:104`, `helpers.py:97`) |
| `PushDisconnect` (`MCPushNotifications`), one property at a time | `CleanupIsNoMatter` | the agent raises after its final event, or another request closed the queue: `message/send` raises in its cleanup (`default_request_handler.py:342`) and nobody is notified of the end |
| `PushDisconnect` (`MCPushNotifications`) | `EndIsStored` | `get_info` fails in the middle of a stream: its loop ends with it (`base_push_notification_sender.py:35`), and the final event is never stored |
| `PushDisconnect` (`MCPushNotifications`) | `UpdatesAreTold` | the client of a stream leaves: what the agent publishes from then on is stored, and no subscriber is notified of it (`types.py:1294`, `default_request_handler.py:388`) |
| `ProtocolsExtensions` (`Protocols`), one property at a time | `StreamsBlameRightly` | a stream of REST breaks off when the handler raises, and every kind of error becomes a 503: `tasks/resubscribe` of a task that does not exist blames the server (`rest_adapter.py:116`, `rest.py:168`) |
| `ProtocolsExtensions` (`Protocols`) | `LossesAreClientErrors` | the connection of a stream fails or times out before its headers: `aconnect_sse` raises the error of httpx outside the `try`, and the caller gets that one (`jsonrpc.py:169`, `rest.py:147`) |
| `ProtocolsExtensions` (`Protocols`) | `ExtensionsTold` | the headers of a stream (and of REST altogether) name no extension the agent activates (`context.py:158`, `jsonrpc_app.py:533`) |
| `ClientWire` (`MCClientSession`), run with `-continue` | `SignaturesVerify` | the signature of a card with an icon, security of a skill, transition history or several OAuth flows does not verify after its trip over gRPC |
| `ClientWire` (`MCClientSession`) | `RejectionIsSeen` | `rejected` has no case in `ToProto.task_state`: over gRPC and REST the client sees `unknown` |
| `ClientWire` (`MCClientSession`) | `TimesKept` | `ToProto.task_status` drops the timestamp (`proto_utils.py:210`): over gRPC and REST a status has no time |
| `ClientWire` (`MCClientSession`) | `ReferencesKept` | `ToProto.message` drops `reference_task_ids` (`proto_utils.py:136`) |
| `ClientWire` (`MCClientSession`) | `EveryMessageIsKept` | a stream begins with a Task whose status has a message: at the next status the client replaces the status and moves the new message to the history, and the first one is in neither (`client_task_manager.py:111`) |
| `ClientWire` (`MCClientSession`) | `StreamsAreRead` | the agent publishes a second Task: the server stores it, the client raises and its stream ends (`client_task_manager.py:86`) |

### Bounds

* Queues of one or two slots: every suspended put, full tap and drained join
  occurs. Three queues are a root with two taps, or two roots and a tap.
  In `queue_order` a queue has one slot and each publisher two events: the least
  in which events can be reordered, repeated or leave a hole.
* Two coroutines per queue run is the least in which closes overlap, a put is
  suspended while somebody closes, and two publishers compete; in
  `RequestHandler` two requests give up to six coroutines.
* Two requests on one task: sharing, leaking and stealing an entry all take two.
  Tasks interact only through the manager's lock, which is held while a cleanup
  drains a queue; `CleanedUp` says that those end.
* `HandlerAnswers` starts from a task that is under way, so that two requests
  overlap while there is still something to publish and to drain; its agents
  publish only their final event, and `HandlerTurns` has the others.
* `MaxEvents` bounds what an agent publishes (2, or 1 under fairness): one event
  before the final one, one after it.
* `KafkaTransport`: two calls, one or two events per stream, one restart. A
  call is one of each kind in all combinations. Calls meet in the registry, in the
  topics and at the server; `KafkaEnds.cfg` has one call, with everything that can
  happen to it at once.
* `KafkaLifecycle`: three starts (one that fails and two after it), two errors of the
  reader, the owner and two others, so that a stop meets a stop and a restart.
* `TaskViews`: three events, two when a second reader comes: a first chunk, one
  that appends and a final status, or a message, its move to the history and a
  Task object that starts afresh. Two artifacts tell replacing from adding, and one
  artifact of an earlier turn (`MaxEarlier`) is extended, replaced or left alone.
* `PushNotifications`: two events, two calls that change configurations, two ids
  (the default one, with two urls, and one's own), one subscriber that fails and one
  other failure: an insert that meets an insert, an update that meets a delete, a post of one round
  beside another round.
* `Protocols`: one call, streams of up to three events: one before, at and after
  a break, an error or a Message. Calls share nothing but the client, whose cards
  are in `ClientSession`.
* `ClientSession`: two callers of `get_card`, four calls; four events, Tasks and
  updates in any order; the cards
  and configurations of `MCClientSession`, which differ in what a conversion, the
  choice of a transport or the exchange of cards looks at.
* `emitted`, `sent`, `restarts`, `progress`, `published`, `calls`, `asked` and
  `count` are the counters; their bounds are the guards of the actions that count.

`CHECK_DEADLOCK FALSE` appears where each request or call comes once and the
system rightly comes to rest.

### Fairness

asyncio's loop runs every ready callback, so coroutines that can go on do:
weak fairness of the steps of each consumer, agent and cleanup
(`HandlerFairness`), and of the reader and the suspended calls of each queue
(`FairQueueSpec`, which includes that consumers keep reading: that is what a
graceful close waits for). That agents end is an assumption about executors.
A publisher's step `AgentPublishes`, failures, disconnects and restarts have no
fairness. For Kafka: delivery of what is in a topic, acknowledgements, time-outs
expiring and the server being started again (`KafkaFairness`). `TaskSpec`: the
steps of each reader, so that an event that was taken is stored. `PushSpec`: the
reader of the queue with its cleanup, for which its agent must end, and each round
of notifications; a post ends, if only by the time-out of the HTTP client. `ProtocolFairness`: the server's own steps and the
client's reading; nothing makes an agent finish (`AnswerArrives` assumes it),
and no time-out has to expire. `LifeSpec`: what is awaited comes or fails, of the
reader, of each stop and of `run()`; nothing makes a reader fail or a start begin.

## 4. Proofs

`EventQueueProofs`, for any sets of queues, coroutines and events, any bound and
any number of readers:

| Theorem | States |
|---|---|
| `TypeCorrect` | `[]QueueTypeOK` |
| `UnfinishedIsExact` | `[]UnfinishedExact`: the count a join waits for is `Len(buf) + held` |
| `CapacityRespected` | `[]WithinCapacity` |
| `NothingAfterClose` | `ClosedQueueNeverGrows`, assuming Python 3.13 |
| `TapsCloseWithTheirQueue` | `[]NoTapOutlivesItsQueue`, assuming that no closed queue is tapped and no call is cancelled |
| `ClosesReturnDrained` | `GracefulCloseDrains`, assuming Python 3.13 and that no call is cancelled |

The first three share one inductive invariant, `QueueInv`: types, the exact
count, and that suspended calls name queues that exist. A put goes on only over
positions that are not full, which is why capacity holds: every step that lets a
buffer grow finds it below its bound (`GrowsOnlyWithRoom`); the bound is an
action property first and an invariant by induction.

`TapsCloseWithTheirQueue` needs more. When a queue is closed its taps are still
open, and the queue's own close is what will close them, possibly behind other
closes of the same taps. `TapsInv` says that every open tap of a closed queue is
*covered*: some suspended call still has it on its list of queues to close or
clear. Each step either keeps a call's list, or takes one tap off it and closes
that tap, or ends a call whose list is empty. `EventQueueLateTap.cfg` and
`EventQueueCutShort.cfg` show that both assumptions are needed: a late tap is on
no list, and cancellation drops a list.

`ClosesReturnDrained` is about a step, the one that ends a graceful close.
`DrainInv` says that a close which waits has closed its queue, and that the queue
is among those it has still to join or waits for, unless nothing of it is
unfinished. A join is dropped only for a queue whose unfinished count is zero,
and on 3.13 the count of a closed queue never rises again: the put that resumes
after the close raises. Before 3.13 it does not, and a late put leaves an event
in a queue whose close is about to return.

`EventQueueOrderProofs`, for any sets of queues and publishers, any bound on a
queue and any number of events:

| Theorem | States |
|---|---|
| `TapsMissNothing` | `[]TapSeesAll`, assuming Python before 3.13 |
| `QueuesBroadcast` | `IsBroadcast`, the refinement of `Broadcast`, under the same assumption |

The two share one invariant, `OrderInv`. A queue is served by a publisher up to a
number, `Seen`: that of the last event it got from it, or, when it got none, of the
last that was begun when the queue was tapped. A publication in the middle of its
loop has a position, where its put waits: the open targets before are served up to
this event (`Past`), those from there on up to the one before (`ToCome`), and the
target where it waits also when it is closed meanwhile, for it still gets its slot
(`Owed`). So each run of the loop adds the number that comes next to every queue it
reaches (`AddsNext`), which is what `Broadcast` asks of a step, and a publication
that is over has served every open tap. That needs the targets of a queue to be
different queues (`TapsApart`), and of all other steps only that they let no buffer
grow and leave suspended puts alone (`Quiet`). A cancelled publisher publishes
nothing more and owes nothing. On 3.13 a put that raises skips the targets behind
it: `EventQueueTapMisses.cfg` shows that the assumption is needed. TLC finds
`OrderInv` true in every state of the instance of `queue_order`.

`KafkaProofs` about `KafkaTransport`, for any set of calls, any mix of methods, streams of any
length and whichever failures are switched on:

| Theorem | States |
|---|---|
| `KafkaTypeCorrect` | `[]KafkaTypeOK` |
| `RegistryIsExact` | `[]RegistryExact`: but for calls whose caller left, the correlation manager holds exactly the calls that can still be answered |
| `AnswersAreTrue` | `[]AnswersAreReplies`, with any number of restarts |
| `TransportIsRpc` | `IsRpc`, assuming `MaxRestarts = 0`: a restarted server may handle a request again, which `Rpc` does not allow |

`KafkaInv` carries the first two. `RegistryExact` alone is not inductive: a call
must have nothing before it is registered (else `Register` would add a call that
is already answered), and its caller must not be over while its outcome is open.
Types need that a call which is not a stream is answered with a result or an
error only (`RepliesFit`): otherwise a caller could end with a stream's event.

`AnswersAreTrue` adds `AnswerInv`. What a caller heard, then what is queued for
it, then what is still in the topic for it is one rising sequence of things said
(`InOrder`), so moving an item from one to the next keeps it rising; what is
said later has a higher number. A step that moves no answer keeps it by one
lemma (`QuietKeepsAnswers`), the others are `Answered`, `Yield`, an event read
for a stream, and the server's `Says`. A result is heard before any item is
queued, because a waiting call is never a stream.

`TransportIsRpc` maps each step: callers ask, hear or leave, `Emit` and `Finish`
say, and all else is a stutter. That nothing is said after the end comes from
`OnceInv`: without restarts each call is in the request topic at most once and
nothing was said about the requests the server has not come to.

`RequestHandlerProofs`, for any number of requests on any tasks, agents that
publish and raise as they like, queues of any size and both ways `put` can meet a
close:

| Theorem | States |
|---|---|
| `CleanupsLeaveNothing` | `[]NothingOutlivesCleanup`, for requests of any kinds, whatever fails and whoever leaves |
| `EndedStaysEnded` | `TerminalIsForever`, of ends that are marked final, assuming `OneByOne` |
| `SuccessIsTold` | `[]SuccessIsNotAnError`, assuming `OneByOne` and that the store does not fail |
| `FinishedIsStored` | `FinishedMeansStored`, assuming also that no client leaves |
| `HandlerTyped` | `[]HandlerTypeOK` |
| `HandlerCountsExact` | `[]UnfinishedExact`, for the queues of the handler |
| `HandlerCapacityRespected` | `[]WithinCapacity`, likewise |
| `HandlerNothingAfterClose` | `ClosedQueueNeverGrows`, likewise, assuming Python 3.13 |

`NothingOutlivesCleanup` is not inductive: a cleanup takes the entry of its *task*
out, which may be another request's. `HandlerInv` adds that a queue or an agent is
registered only by the request it belongs to and for its task, that a request has one
cleanup, that a cleanup which went on to close a queue has taken its entry out, and
that a cleanup's coroutine waits nowhere but in that close. Most steps leave the
entries alone (`HandlerFrame`); `CleanUpInv` and `CleanupEndsInv` are the steps that
matter.

`OneByOne` is `TakeTurns /\ Kinds \subseteq Senders`: clients send to a task when
their last send to it is dealt with, and nobody resubscribes or cancels.
`HandlerTwoSends.cfg` shows what happens without it. `TurnInv` is what this gives:
of two requests on a task one is dealt with (`InTurn`), so it has nothing at work
(`FinishedRests`); a queue is tapped only after its own request is dealt with, which
happens when a cleanup failed and left its entry (`TapsLater`), so a queue at work has
no taps and a publication has one target (`SoleTarget`); and a request at work is on
a task whose stored state it has seen not to be terminal, and nobody else has changed
since (`NotOver`). `EndedStaysEnded` follows, since only `Process` stores. The steps
fall into three frames, of a loop, an agent and a cleanup (`LoopFrame`, `AgentFrame`,
`CleanupFrame`), that say what a step of one request leaves of the others.

The other two rest on `ToldInv`, which follows an event from the agent to the store.
As long as the loop of a request is on, either what was said last is not final, none
of the events on their way is, and it is the last of them or is stored (`NotYet`); or
it is final and is the first final event on its way (`Coming`). The way leads from a
put that waits for a slot through the queue to the consumer's hand. A loop ends in
three ways: its agent failed; it has stored the final event, which is what was said;
or it found its queue closed and empty. The last is the delicate one: `ClosedBy` says
that such a queue was closed by its own agent, which has therefore nothing left to
put, and not by the final event or by the cleanup of another request. `Excused` is
what the answer makes of this. The store must not fail, for a loop that
ends with an exception of the store leaves a queue nobody reads; and no client may
leave for `FinishedMeansStored`, because the loop that goes on in the background
takes no notice of the event that was in the hand of the one that was cancelled.

The last four rest on one more invariant, `CountsInv`, and carry what `EventQueueProofs`
shows of queues that are used at will over to the handler, for requests of any kind. `HandlerDrivesQueues` says that every step of
the handler is one of its queues, a cancelled coroutine included, but for
`AcknowledgeLast`, which marks the final event done and closes the queue without a
suspension between. That one keeps the count exact only if the consumer still has the
event it acknowledges (`AcknowledgeLastKeeps`), which is what the rest of `CountsInv` is
for: a consumer has an event in hand in one place of its loop (`OneHeld`), no
publication of its own can fail while it is there, for it publishes only a cancel
(`ConsumerPuts`), and a request makes its queue and starts its agent once
(`SetUpOnce`, `AgentCalls`). `GracefulCloseDrains` does not carry over: a cancel request
stops an agent in the middle of its close.

`TaskViewsProofs`, for both stores, any artifacts, any number of events of any kind,
a reader that resubscribes and a client that leaves at any await:

| Theorem | States |
|---|---|
| `TerminalStaysLast` | `[]TerminalIsLast` |
| `TaskTyped` | `[]TaskTypeOK` |
| `StoredAlwaysLog` | `[]StoredIsLog` |
| `ClientAlwaysAgrees` | `[]ClientAgrees` |
| `ClientAlwaysKeepsMessages` | `[]ClientKeepsMessages` |

`LatchInv` adds to the first that a terminal status which is queued, or waits for
room in the queue, has set the latch, and that a suspended update holds the lock:
`update_status` keeps it until its put is over, so no status can overtake the
terminal one.

`StoredIsLog` looks at the moments between two events; an invariant has to say what
the heap of shared objects is at each await, and that is `LedgerInv`. An object
*tells of* the first `n` events (`TellsOf`) if a copy of it is `Log` of them, no two of
its artifacts have the same id, and each artifact it shares is that of an event which
it has taken in. In memory the manager's object is the one on the shelf and tells of
all events up to the one in hand (`MemoryLedger`). With a database it may be ahead of
the row by the event being saved, or there may be none yet, and a disconnect in a save
leaves one event out of the row (`DatabaseLedger`, `RowTells`). `Untouched` is what
makes this inductive although an appended chunk extends an object that an earlier
event carries: only events that were taken are extended, so the one that is taken next
is as the agent made it. The central lemmas are about one event: `LogStatus`,
`LogTask` and `LogChunk` say how `Log` grows by it, `TakenMeans` and `AbsorbTellsAll`
that `append_artifact_to_task` and the status update do the same to an object, however
it shares its artifacts, and `Chunked` is what both say of an artifact. `Log` puts
events in order by a recursive function over their numbers (`InOrder`); what it gives
follows from the least number at which it would not (`LeastNat`).

The client's theorems add `SentInv`: what went to the client are the events in their
order, one for each that was passed on, and with one manager as the agent made them,
which is `Untouched` again. `Says` is what the view after `n` messages has in common
with `Log`, which leaves out what earlier turns left (`BegunThisTurn`); each message keeps
it (`SaysTask`, `SaysStatus`, `SaysArtifact`). The client does not wait for the next
status to move a message to the history, so its messages are compared with the status
events and not with the history of `Log`; its state is `unknown` until a status or a
`Task` comes, and a second `Task` ends its claim (`ok`). For `ClientKeepsMessages` nothing is asked of the heap, which is why it
holds with a second manager too.

`KafkaProofs` about `KafkaLifecycle`: `StopsAreFinal` states `[]StopIsFinal`, whichever
starts and closes fail. `LifeInv` adds that
start and stop of one end are never under way together (the model leaves
overlaps out, see 5), that a reader still alive at an end that is not running is
awaited by a stop, and that whatever is connected and was not given up is in a field which a stop has
still to close. `LifeTyped` states `[]LifeTypeOK`.

`ProtocolsProofs`, for streams of any length over each transport, any card, any
defect of the request and a connection that may break at any moment:

| Theorem | States |
|---|---|
| `NothingIsCutShort` | `[]NothingCutShort`: a call that ended without an error heard all that was said |
| `ErrorsAreTold` | `[]ErrorsKeepTheirKind`: a kind by name over JSON-RPC and gRPC, a status that blames the right side over REST, a 503 out of a stream of REST |
| `ProtocolsAreRpc` | `IsRpc`, for the `Rpc` that `KafkaTransport` implements too |
| `ProtocolTyped` | `[]ProtocolTypeOK` |

A caller that ends well has read a frame which says so, and what that frame means
depends on what was before it in the response. `ProtocolInv` therefore says of
every frame on its way, and not only of the next, what the handler had done when
it was written: a frame of an event has its number, counted from what was heard
(`FramesFit`); a frame that ends the stream is behind all that was said, unless an
error or a break comes before it; and as long as the handler is at work every
frame is something it said, and nothing it said is missing (`FramesKeepUp`).
A server breaks a connection off only after it has settled the request, and after a
`ServerError` only that of a stream of REST (`BreakFits`).
`HeardInOrder`, `NothingEarly` and `OutcomeFits` say what that makes of the
caller. Reading a frame then only shifts the frames, and the end is what the frame
said it is.

`PushNotificationsProofs`, for any configurations, urls, subscribers that fail,
callers and events:

| Theorem | States |
|---|---|
| `StoresAreConfigStores` | `IsConfigStore` for both stores |
| `NotificationsInOrder` | `[]NotifiedInOrder` |
| `NotificationsOfTheStored` | `[]NotifiedIsSaved` |
| `PushTyped` | `[]PushTypeOK` |

The refinement needs that there is one configuration for each id (`StoreInv`):
then the rows that `SetReads` found and `SetWrites` changes later are the abstract
store's, at the moment of the write. The order rests on rounds: the reader waits for
its round of notifications, so a round that is not off is about the last event
applied (`RoundIsCurrent`), except for the one that `message/send` leaves behind
when it is interrupted, which overlaps the rounds of the continuation
(`ReaderFits`). `OrderFits` says how far a subscriber has been told: up to the last
event, or to the one before while the last is being saved or its post has not
begun; and once the interrupted send has told of its answer, there may be one
notification out of order, without which the rest is in order. `SavedFits` is what
the store has meanwhile. A reader that ends without a round (`EndsInv`), because the
agent, the cleanup or the reading of the configurations failed, owes nobody more than
before.

`ClientSessionProofs`, for any cards, configurations, callers of `get_card` and
events whose fields have the types of `types.py`, and streams of any length:

| Theorem | States |
|---|---|
| `FactoryChoosesBest` | `[]NegotiationBest` |
| `CardIsCurrent` | `[]NeverAnOldCard` |
| `ViewsArePolled` | `[]ViewIsWhatIsPolled` |
| `ConversionsKeepMeaning` | `[]MeaningKept` |
| `SessionTyped` | `[]SessionTypeOK` |

`SessionAssumption` gives the types: what a session starts with, what is sent and
what is published. Two of its conditions are about how the library is used. A
client starts with the agent's public card, with a minimal one that announces an
extended card (`minimal_agent_card`), or, made by hand, with none. And whoever sets
`blocking` sets it to true or false: an explicit `None` waits over JSON-RPC, where it
is not `False`, and would not wait over gRPC.

`FactoryChoosesBest` rests on `FirstCommon`: the first index of one list with an
element of the other is the first common transport in that order, and there is no
other that nothing common comes before. `CardInv` says for `CardIsCurrent` that a
connected client either still wants to exchange its card or has one that is
current; several callers may resolve and ask at once, and each step keeps this.

`ConversionsKeepMeaning` is an argument about values: one lemma for each document
says that its trip stays in its type, looks as before to a reader (`Clean...`) and
changes nothing when it is repeated (`PartTrip`, `MessageTrip`, `ArtifactTrip`,
`TaskTrip`, `CardIsKept`), each from the lemma about what it is made of. What a reader
is told (`CleanMessage`) leaves out the references of a message and `TaskKept` the time
of a status: the wire has no field for either. `ViewsArePolled`
uses the lemmas at each event. `Agrees` is the invariant: the two tasks have artifacts that
look alike, the same metadata, the same state and time as shown over this transport, and
messages that are the same but for one (`SaysSame`): there is a sequence `rest` such that
the client's history says `Told` and `rest`, the server's task with its status message
last `Told`, `Missing` and `rest`. If the stream began with a Task, `Told` is its history
and `Missing` the message of its status; otherwise `Told` is empty and `Missing` the
request. A status event appends its message to `rest` on both sides (`SaysMore`): on the
server, the message it replaces moves to the history, where it was counted already.
What a reader is told, `Said`, is a recursive function over a sequence; that it gives
the same for sequences that are alike, and grows by one message at the end, is proved by
the least position at which it would fail (`LeastNat`), since the induction theorems of
the library cannot be instantiated.

Every invariant and every action property of the runs is proved, and the type
invariant of every component, under the assumptions named above, and so are the
refinements of `Broadcast`, `Rpc` (twice) and `ConfigStore`. Only model-checked is what
needs fairness, which is out of the prover's reach: `ClosesReturn`, `EveryRequestAnswered`, `CleanedUp`, `CallsReturn`,
`StreamsEnd`, `TerminalIsStored`, `AnswerArrives`, `EndIsTold` and `NoLimbo`.

## 5. Not modelled, and why

* Overlapping starts of one Kafka end, a start during a stop, a second `run()` of one
  app; `send_push_notification` of the Kafka server, one send that only users of the
  library call.
* The identifiers of the request context and their checks; resource names in
  `proto_utils.py`; numbers in metadata; the details of security schemes.
* `get_info` is asked for one configuration and answers with the first: the id in
  the request is not looked at, so it is not in the model either.
* Encryption of the push configurations' rows, and several server processes on one
  database: each model is of one process.
* A post that the subscriber handles after the HTTP client gave it up.
* Messages among the events that `ClientSession` publishes: a client raises at a Message
  after the first event (`base_client.py:131`), and the stored task does not change.
* Interceptors and credentials, which add headers; routing tables and OpenAPI
  documents; telemetry; generated gRPC stubs.
* `InMemoryQueueManager.add` and `get`, `EventConsumer.consume_one` and the
  `delete` of the task stores are called by nobody in `src/`.
* asyncio's first-in first-out order among several putters of one full queue:
  any of them may get the slot.
* Retries inside aiokafka, rebalancing, several partitions. A reply topic with
  more than one partition would also reorder replies.
* The clock: a time-out may expire whenever its wait is on.

## 6. Plan

1. (done) `EventQueue`, its order and refinement, proofs; `RequestHandler`;
   `KafkaTransport` and `Rpc`, proofs.
2. (done) `TaskViews`, `PushNotifications` and `ConfigStore`, `Protocols`,
   `WireFormat` and `ClientSession`.
3. (done) `KafkaLifecycle`.
4. (done) Proofs of `NothingOutlivesCleanup`, `TerminalIsLast` and `StopIsFinal`;
   of `GracefulCloseDrains`; of `NothingCutShort`, `ErrorsKeepTheirKind` and `IsRpc`
   of `Protocols`; of `IsConfigStore`, `NotifiedInOrder` and `NotifiedIsSaved`; of
   what sends that take turns keep in `RequestHandler` (`TerminalIsForever`,
   `SuccessIsNotAnError`, `FinishedMeansStored`); of the order of `EventQueue` and
   its refinement of `Broadcast`.
5. (done) Proofs of the properties of `ClientSession`, and of those of `TaskViews`
   about the stored task and the client's.
6. (done) Proofs of the type invariants of all modules, and of the bounds and counts
   of the queues under the request handler.
