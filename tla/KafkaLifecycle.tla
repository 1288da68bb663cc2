---------------------------- MODULE KafkaLifecycle ----------------------------
(***************************************************************************)
(* How the two ends of the Kafka transport start and stop: KafkaClient-    *)
(* Transport.start and stop with its reader of replies, and KafkaServerApp *)
(* .start, stop and run with its reader of requests, which restarts its    *)
(* consumer after a KafkaError.                                            *)
(*                                                                         *)
(* One coroutine owns the end: it enters and leaves it as a context, or    *)
(* awaits run().  Others call stop(): a signal, or another user of the     *)
(* transport.  A start never begins while a stop is at work.               *)
(*                                                                         *)
(* Each start makes a producer (the server's is its handler's) and a       *)
(* consumer, known by the number of the start.                             *)
(***************************************************************************)
EXTENDS Naturals

CONSTANTS
  Uses,      \* how an end is used: "client", "server" (as a context), "run"
  Stopper,   \* other coroutines that call stop
  MaxStarts, \* bound on the starts of one end
  MaxErrors, \* bound on the errors its reader meets
  ClosesFail \* closing a connection may raise or be cancelled

ASSUME LifecycleAssumption ==
  /\ Uses \subseteq {"client", "server", "run"}
  /\ "owner" \notin Stopper
  /\ MaxStarts \in Nat /\ MaxErrors \in Nat /\ ClosesFail \in BOOLEAN

VARIABLES
  use,
  running,   \* _running
  starts,    \* how many starts have begun
  producer,  \* the producer and the consumer the fields hold, 0 for none
  consumer,
  producers, \* those that are connected
  consumers,
  lostProducers, \* those that failed starts and stops that broke off leave to nobody
  lostConsumers,
  reader,    \* _consumer_task: "none", "reading", "sleeping", "closing", "opening", "over"
  cut,       \* it was cancelled
  errors,    \* how many errors it met
  doing      \* where each coroutine is

fieldVars == <<running, producer, consumer>>
linkVars == <<producers, consumers>>
readerVars == <<reader, cut, errors>>
lostVars == <<lostProducers, lostConsumers>>
lifeVars == <<use, starts, lostVars, fieldVars, linkVars, readerVars, doing>>

Coroutine == {"owner"} \union Stopper
Idle == "idle"      \* not in a call
Waiting == "waiting"  \* run() awaits the reader
Done == "done"      \* run() has returned
Stopping == {"joining", "first", "second"}

ReaderAlive == reader \notin {"none", "over"}

LifeInit ==
  /\ use \in Uses
  /\ running = FALSE /\ starts = 0 /\ producer = 0 /\ consumer = 0
  /\ producers = {} /\ consumers = {} /\ lostProducers = {} /\ lostConsumers = {}
  /\ reader = "none" /\ cut = FALSE /\ errors = 0
  /\ doing = [p \in Coroutine |-> Idle]

Goes(p, to) == doing' = [doing EXCEPT ![p] = to]

-----------------------------------------------------------------------------
(* stop().                                                                 *)

\* Where a coroutine is when its stop has returned: run() ends with one.
Stopped(p) == IF p = "owner" /\ use = "run" THEN Done ELSE Idle

\* Slip: the reader is not cancelled before it is waited for.
StopsUncut(p) ==
  IF running THEN running' = FALSE /\ Goes(p, "joining") /\ UNCHANGED cut
  ELSE Goes(p, Stopped(p)) /\ UNCHANGED <<running, cut>>

\* A stop that finds the end not running returns at once, also when another stop
\* is at work.  The others clear the flag and cancel the reader.
Stops(p) ==
  IF running THEN running' = FALSE /\ cut' = ReaderAlive /\ Goes(p, "joining")
  ELSE Goes(p, Stopped(p)) /\ UNCHANGED <<running, cut>>

\* A signal handler is there once run() waits; anybody else may stop any time.
StopCalled(p) ==
  /\ p \in Stopper /\ doing[p] = Idle
  /\ use = "run" => reader # "none" /\ doing["owner"] # Done
  /\ Stops(p)
  /\ UNCHANGED <<use, starts, lostVars, producer, consumer, linkVars, reader, errors>>

OwnerStops ==
  /\ use # "run" /\ doing["owner"] = Idle /\ running
  /\ Stops("owner")
  /\ UNCHANGED <<use, starts, lostVars, producer, consumer, linkVars, reader, errors>>

\* Slip: the consumer is closed while the reader may be restarting it.
JoinsNoReader(p) ==
  /\ doing[p] = "joining" /\ Goes(p, "first")
  /\ UNCHANGED <<use, starts, lostVars, fieldVars, linkVars, readerVars>>

\* The reader is over.
Joins(p) ==
  /\ doing[p] = "joining" /\ ~ReaderAlive
  /\ Goes(p, "first")
  /\ UNCHANGED <<use, starts, lostVars, fieldVars, linkVars, readerVars>>

ClosesProducer == producers' = producers \ {producer} /\ UNCHANGED consumers
ClosesConsumer == consumers' = consumers \ {consumer} /\ UNCHANGED producers

\* The client closes its producer first, the server its consumer.
AtProducer(p) == doing[p] = IF use = "client" THEN "first" ELSE "second"
AtConsumer(p) == doing[p] = IF use = "client" THEN "second" ELSE "first"

Closes(p) ==
  /\ \/ AtProducer(p) /\ ClosesProducer
     \/ AtConsumer(p) /\ ClosesConsumer
  /\ Goes(p, IF doing[p] = "first" THEN "second" ELSE Stopped(p))
  /\ UNCHANGED <<use, starts, lostVars, fieldVars, readerVars>>

\* A close raises, or the stop is cancelled there: the connection may be closed, and
\* the stop goes no further.  No other stop will do anything, for the flag is cleared.
CloseFails(p) ==
  /\ ClosesFail
  /\ \/ AtProducer(p) /\ (ClosesProducer \/ UNCHANGED linkVars)
     \/ AtConsumer(p) /\ (ClosesConsumer \/ UNCHANGED linkVars)
  /\ lostProducers' = IF AtProducer(p) \/ use # "client"
                      THEN lostProducers \union {producer} ELSE lostProducers
  /\ lostConsumers' = IF AtConsumer(p) \/ use = "client"
                      THEN lostConsumers \union {consumer} ELSE lostConsumers
  /\ Goes(p, Stopped(p))
  /\ UNCHANGED <<use, starts, fieldVars, readerVars>>

-----------------------------------------------------------------------------
(* start() and run().                                                      *)

StartCalled ==
  /\ \A p \in Coroutine : doing[p] = Idle
  /\ ~running /\ starts < MaxStarts
  /\ use = "run" => starts = 0
  /\ starts' = starts + 1 /\ producer' = starts + 1
  /\ Goes("owner", "producer")
  /\ UNCHANGED <<use, lostVars, running, consumer, linkVars, readerVars>>

ProducerStarts ==
  /\ doing["owner"] = "producer"
  /\ producers' = producers \union {producer}
  /\ consumer' = starts
  /\ Goes("owner", "consumer")
  /\ UNCHANGED <<use, starts, lostVars, running, producer, consumers, readerVars>>

\* Either client does not come up: stop() finds the end not running.
StartFails ==
  /\ doing["owner"] \in {"producer", "consumer"}
  /\ lostProducers' = lostProducers \union {starts}
  /\ Stops("owner")
  /\ UNCHANGED <<use, starts, lostConsumers, producer, consumer, linkVars, reader, errors>>

\* The client's reader starts with it; run() starts the server's, and waits for it.
ConsumerStarts ==
  /\ doing["owner"] = "consumer"
  /\ consumers' = consumers \union {consumer}
  /\ running' = TRUE
  /\ cut' = FALSE
  /\ reader' = IF use = "server" THEN "none" ELSE "reading"
  /\ Goes("owner", IF use = "run" THEN Waiting ELSE Idle)
  /\ UNCHANGED <<use, starts, lostVars, producer, consumer, producers, errors>>

\* The finally of run().
RunEnds ==
  /\ doing["owner"] = Waiting /\ reader = "over"
  /\ Stops("owner")
  /\ UNCHANGED <<use, starts, lostVars, producer, consumer, linkVars, reader, errors>>

\* The task of run() is cancelled, and with it the reader it awaits.
RunCancelled ==
  /\ doing["owner"] = Waiting /\ ReaderAlive
  /\ cut' = TRUE
  /\ UNCHANGED <<use, starts, lostVars, fieldVars, linkVars, reader, errors, doing>>

-----------------------------------------------------------------------------
(* _consume_responses and _consume_requests.                               *)

Unread == UNCHANGED <<use, starts, lostVars, fieldVars, doing>>

\* The client's reader ends with any error, the server's unless it is a KafkaError.
ReaderFails ==
  /\ reader = "reading" /\ ~cut /\ errors < MaxErrors
  /\ errors' = errors + 1
  /\ \/ reader' = "over"
     \/ use = "run" /\ running /\ reader' = "sleeping"
  /\ Unread /\ UNCHANGED <<cut, linkVars>>

\* Five seconds later.
ReaderWakes ==
  /\ reader = "sleeping" /\ ~cut
  /\ reader' = IF running THEN "closing" ELSE "over"
  /\ Unread /\ UNCHANGED <<cut, errors, linkVars>>

\* A close that raises is like an opening that does: the reader gives up.
ReaderCloses ==
  /\ reader = "closing" /\ ~cut
  /\ \/ ClosesConsumer /\ reader' = "opening"
     \/ ClosesFail /\ (ClosesConsumer \/ UNCHANGED linkVars) /\ reader' = "over"
  /\ Unread /\ UNCHANGED <<cut, errors>>

\* The loop goes on, or gives up when the consumer does not come up again.
ReaderReopens ==
  /\ reader = "opening" /\ ~cut
  /\ \/ consumers' = consumers \union {consumer} /\ reader' = "reading"
     \/ UNCHANGED consumers /\ reader' = "over"
  /\ Unread /\ UNCHANGED <<cut, errors, producers>>

\* The cancellation arrives where the reader is suspended; what it was waiting for
\* may have happened.
ReaderCut ==
  /\ cut /\ ReaderAlive
  /\ reader' = "over"
  /\ \/ UNCHANGED consumers
     \/ reader = "closing" /\ consumers' = consumers \ {consumer}
     \/ reader = "opening" /\ consumers' = consumers \union {consumer}
  /\ Unread /\ UNCHANGED <<cut, errors, producers>>

ReaderGoes == ReaderWakes \/ ReaderCloses \/ ReaderReopens \/ ReaderCut

StopGoes(p) == Joins(p) \/ Closes(p)

LifeNext ==
  \/ StartCalled \/ ProducerStarts \/ StartFails \/ ConsumerStarts
  \/ OwnerStops \/ RunEnds \/ RunCancelled
  \/ \E p \in Coroutine : StopCalled(p) \/ StopGoes(p) \/ CloseFails(p)
  \/ ReaderFails \/ ReaderGoes

\* What is awaited comes or fails: connections open and close in the end.
LifeSpec ==
  /\ LifeInit /\ [][LifeNext]_lifeVars
  /\ WF_lifeVars(ReaderGoes) /\ WF_lifeVars(RunEnds)
  /\ \A p \in Coroutine : WF_lifeVars(StopGoes(p))

-----------------------------------------------------------------------------
(* Properties.                                                             *)

\* Every variable keeps its type, and the fields hold what was made.
LifeTypeOK ==
  /\ running \in BOOLEAN /\ starts \in 0..MaxStarts
  /\ producer = starts /\ consumer \in 0..starts
  /\ producers \subseteq 1..starts /\ consumers \subseteq 1..starts
  /\ lostProducers \subseteq 1..starts /\ lostConsumers \subseteq 0..starts
  /\ reader \in {"none", "reading", "sleeping", "closing", "opening", "over"}
  /\ cut \in BOOLEAN /\ errors \in 0..MaxErrors
  /\ doing \in [Coroutine -> {Idle, "producer", "consumer", Waiting, Done} \union Stopping]

\* When nobody is at work on an end that does not run, no reader of it is left, and
\* no connection but those that were given up where they could not be closed: the
\* producer of a start that failed, and what a stop that broke off had still to close.
\* None is opened by a restart of the consumer behind the back of a stop.
StopIsFinal ==
  (~running /\ \A p \in Coroutine : doing[p] \in {Idle, Done}) =>
    ~ReaderAlive /\ consumers \subseteq lostConsumers /\ producers \subseteq lostProducers

\* A stop returns, whatever the reader was doing.  run() reads, or comes back to
\* reading, or returns: after an error, a signal and a restart that fails.
NoLimbo ==
  /\ \A p \in Coroutine : doing[p] \in Stopping ~> doing[p] \in {Idle, Done}
  /\ doing["owner"] = Waiting /\ reader # "reading" ~>
       reader = "reading" \/ doing["owner"] = Done

-----------------------------------------------------------------------------
(* What is not so; README.md names the cfg that shows each.                *)

\* "This method will block until the server is stopped" (docstring of run): when
\* it has returned, the connections are closed.
RunClosesAll ==
  doing["owner"] = Done => consumers \subseteq lostConsumers /\ producers \subseteq lostProducers

\* "Stop producer and consumer" (kafka.py:166): a stop leaves no consumer connected.
StopClosesAll ==
  (~running /\ \A p \in Coroutine : doing[p] \in {Idle, Done}) => consumers = {}

\* "Consumer Failures: Automatic consumer restart on failures" (docs/kafka_-
\* transport.md:189): an end that runs has a reader that is at work.
RunningReads == running /\ use # "server" => ReaderAlive
=============================================================================
