----------------------------- MODULE EventQueue -----------------------------
(***************************************************************************)
(* The event queues between an agent and the consumers of its events:      *)
(* class EventQueue of src/a2a/server/events/event_queue.py on top of      *)
(* asyncio.Queue.  A queue is bounded; tap() gives it children, which      *)
(* receive what is published to it from then on.                           *)
(*                                                                         *)
(* The coroutines that call a queue are the elements of Proc.  asyncio     *)
(* runs a coroutine without interruption between two suspension points, so *)
(* a step of this module is the code between two points where the call can *)
(* really suspend: a put on a full queue, the join of a graceful close,    *)
(* and the gather of tasks over the children.  The queue's own             *)
(* asyncio.Lock is never held across one, so acquiring it never suspends.  *)
(* op[p] is where in a call p is suspended.                                *)
(*                                                                         *)
(* Two things of the code are not here.  Children are not tapped again     *)
(* (InMemoryQueueManager, the only caller of tap(), taps the queues it     *)
(* keeps, and those are never children).  And asyncio's first-in first-out *)
(* order among several putters of one full queue is left open: any of them *)
(* may get the slot that becomes free.                                     *)
(***************************************************************************)
EXTENDS Naturals, Sequences

CONSTANTS
  Queue,        \* identities of EventQueue objects
  Proc,         \* coroutines that call them
  Event,        \* what is published
  MaxSize,      \* max_queue_size
  Readers,      \* how many coroutines may read one queue at a time
  Py313,        \* the interpreter has asyncio.Queue.shutdown (Python >= 3.13)
  Cancellable,  \* coroutines whose task may be cancelled inside a call
  LateTap       \* tap() may reach a queue that is already closed

ASSUME QueueAssumption ==
  /\ MaxSize \in Nat \ {0}      \* __init__ refuses max_queue_size <= 0
  /\ Readers \in Nat \ {0}
  /\ Py313 \in BOOLEAN
  /\ LateTap \in BOOLEAN
  /\ Cancellable \subseteq Proc

VARIABLES
  created,     \* queues that exist
  children,    \* _children: the taps of a queue, oldest first
  buf,         \* the events waiting in the asyncio.Queue
  unfinished,  \* its count of events put and not yet task_done()
  held,        \* events dequeued whose consumer has not called task_done()
  closed,      \* _is_closed
  op           \* where each coroutine is suspended inside a call

queueVars == <<created, children, buf, unfinished, held, closed, op>>

-----------------------------------------------------------------------------
Idle == [kind |-> "idle"]

\* Suspended in enqueue_event: the put of ev on the at-th target of q waits.
PutOp(q, at, ev) == [kind |-> "put", q |-> q, at |-> at, ev |-> ev]

\* Suspended in clear_events: the tasks that clear the children in todo have
\* not run; closing says that close(True) goes on once they have.
ClearOp(q, todo, closing) ==
  [kind |-> "clear", q |-> q, todo |-> todo, closing |-> closing]

\* Suspended in the gather of a graceful close: the close() of the children
\* in shut has not run, the join() of the queues in start has not run, and
\* the join() of the queues in wait is suspended.
JoinOp(q, shut, start, wait) ==
  [kind |-> "join", q |-> q, shut |-> shut, start |-> start, wait |-> wait]

Ops ==
  {Idle}
    \union [kind : {"put"}, q : Queue, at : Nat \ {0}, ev : Event]
    \union [kind : {"clear"}, q : Queue, todo : SUBSET Queue, closing : BOOLEAN]
    \union [kind : {"join"}, q : Queue, shut : SUBSET Queue,
            start : SUBSET Queue, wait : SUBSET Queue]

Kids(q) == {children[q][i] : i \in DOMAIN children[q]}
IsRoot(q) == \A r \in Queue : q \notin Kids(r)

\* The queues enqueue_event of q puts on, in its order.
Targets(q) == <<q>> \o children[q]

Full(q) == Len(buf[q]) >= MaxSize

QueueInit ==
  /\ created = {}
  /\ children = [q \in Queue |-> <<>>]
  /\ buf = [q \in Queue |-> <<>>]
  /\ unfinished = [q \in Queue |-> 0]
  /\ held = [q \in Queue |-> 0]
  /\ closed = [q \in Queue |-> FALSE]
  /\ op = [p \in Proc |-> Idle]

-----------------------------------------------------------------------------
(* Construction and tap().                                                 *)

Create(q) ==
  /\ q \notin created
  /\ created' = created \union {q}
  /\ UNCHANGED <<children, buf, unfinished, held, closed, op>>

Tap(q, c) ==
  /\ q \in created /\ IsRoot(q)
  /\ c \notin created
  /\ closed[q] => LateTap
  /\ created' = created \union {c}
  /\ children' = [children EXCEPT ![q] = Append(@, c)]
  /\ UNCHANGED <<buf, unfinished, held, closed, op>>

-----------------------------------------------------------------------------
(* enqueue_event: put on the queue, then on each child that is open when   *)
(* its turn comes.  The loop runs until the first put that finds its queue *)
(* full.                                                                   *)

Open(q, i) == ~closed[Targets(q)[i]]

\* Slip: only the put on the queue itself waits for a slot.
StopsIgnoringTaps(q, i) == {j \in i..1 : Open(q, j) /\ Full(Targets(q)[j])}

\* Positions from i on whose put would suspend.
Stops(q, i) ==
  {j \in i..Len(Targets(q)) : Open(q, j) /\ Full(Targets(q)[j])}

\* p goes on with the loop at position i, up to but not including position
\* j; got is the queue a resumed put has just filled, or none.
PutUpTo(q, ev, i, j, got) ==
  LET into == got \union {Targets(q)[k] : k \in {k \in i..(j - 1) : Open(q, k)}}
  IN  /\ buf' = [t \in Queue |-> IF t \in into THEN Append(buf[t], ev) ELSE buf[t]]
      /\ unfinished' = [t \in Queue |-> IF t \in into THEN unfinished[t] + 1
                                                      ELSE unfinished[t]]

\* Slip: a put that finds its queue full gives the event up.
PutFromDropping(p, q, ev, i, got) ==
  LET into == got \union {Targets(q)[k] : k \in {k \in i..Len(Targets(q)) :
                                            Open(q, k) /\ k \notin Stops(q, i)}}
  IN  /\ buf' = [t \in Queue |-> IF t \in into THEN Append(buf[t], ev) ELSE buf[t]]
      /\ unfinished' = [t \in Queue |-> IF t \in into THEN unfinished[t] + 1
                                                      ELSE unfinished[t]]
      /\ op' = [op EXCEPT ![p] = Idle]
      /\ UNCHANGED <<created, children, held, closed>>

PutFrom(p, q, ev, i, got) ==
  /\ \/ /\ Stops(q, i) = {}
        /\ PutUpTo(q, ev, i, Len(Targets(q)) + 1, got)
        /\ op' = [op EXCEPT ![p] = Idle]
     \/ \E j \in Stops(q, i) :
          /\ \A k \in Stops(q, i) : j <= k
          /\ PutUpTo(q, ev, i, j, got)
          /\ op' = [op EXCEPT ![p] = PutOp(q, j, ev)]
  /\ UNCHANGED <<created, children, held, closed>>

Enqueue(p, q, ev) ==
  /\ op[p] = Idle
  /\ q \in created
  /\ \/ closed[q] /\ UNCHANGED queueVars
     \/ ~closed[q] /\ PutFrom(p, q, ev, 1, {})

\* Slip: nothing tells the suspended put of the close, on any version.
ResumePutUnaware(p) ==
  /\ op[p].kind = "put"
  /\ LET t == Targets(op[p].q)[op[p].at]
     IN  ~Full(t) /\ PutFrom(p, op[p].q, op[p].ev, op[p].at + 1, {t})

\* Slip: the publication starts over when the slot is free.
ResumePutRetrying(p) ==
  /\ op[p].kind = "put"
  /\ ~Full(Targets(op[p].q)[op[p].at])
  /\ PutFrom(p, op[p].q, op[p].ev, 1, {})

\* A suspended put finds a slot.  Before Python 3.13 nothing tells it that
\* the queue was closed in the meantime.
ResumePut(p) ==
  /\ op[p].kind = "put"
  /\ LET t == Targets(op[p].q)[op[p].at]
     IN  /\ ~Full(t)
         /\ ~(Py313 /\ closed[t])
         /\ PutFrom(p, op[p].q, op[p].ev, op[p].at + 1, {t})

\* From 3.13 on, shutdown() makes it raise QueueShutDown out of enqueue_event.
PutRaises(p) ==
  /\ op[p].kind = "put"
  /\ Py313 /\ closed[Targets(op[p].q)[op[p].at]]
  /\ op' = [op EXCEPT ![p] = Idle]
  /\ UNCHANGED <<created, children, buf, unfinished, held, closed>>

-----------------------------------------------------------------------------
(* dequeue_event and task_done.  A dequeue that finds nothing, or a closed *)
(* empty queue, changes no state.  A reader acknowledges an event before it *)
(* takes the next.                                                         *)

\* The waiters of join() on a queue whose unfinished count reaches zero are
\* woken, whatever happens before they run.
Woken(zero) ==
  [p \in Proc |-> IF op[p].kind = "join" THEN [op[p] EXCEPT !.wait = @ \ zero]
                                         ELSE op[p]]

\* Slip: a closed queue refuses readers although events are left in it.
DequeueOpenOnly(q) ==
  /\ q \in created /\ buf[q] # <<>> /\ ~closed[q]
  /\ held[q] < Readers
  /\ buf' = [buf EXCEPT ![q] = Tail(@)]
  /\ held' = [held EXCEPT ![q] = @ + 1]
  /\ UNCHANGED <<created, children, unfinished, closed, op>>

Dequeue(q) ==
  /\ q \in created /\ buf[q] # <<>>
  /\ held[q] < Readers
  /\ buf' = [buf EXCEPT ![q] = Tail(@)]
  /\ held' = [held EXCEPT ![q] = @ + 1]
  /\ UNCHANGED <<created, children, unfinished, closed, op>>

\* Slip: task_done() also for a dequeue that returned nothing.
TaskDoneAlways(q) ==
  /\ held' = [held EXCEPT ![q] = IF @ > 0 THEN @ - 1 ELSE 0]
  /\ unfinished' = [unfinished EXCEPT ![q] = @ - 1]
  /\ op' = IF unfinished'[q] = 0 THEN Woken({q}) ELSE op
  /\ UNCHANGED <<created, children, buf, closed>>

TaskDone(q) ==
  /\ held[q] > 0
  /\ held' = [held EXCEPT ![q] = @ - 1]
  /\ unfinished' = [unfinished EXCEPT ![q] = @ - 1]
  /\ op' = IF unfinished'[q] = 0 THEN Woken({q}) ELSE op
  /\ UNCHANGED <<created, children, buf, closed>>

-----------------------------------------------------------------------------
(* clear_events, and close(immediate=True), which is built on it.          *)

\* Slip: cleared events are not marked done.
DropUncounted(cs) ==
  /\ buf' = [q \in Queue |-> IF q \in cs THEN <<>> ELSE buf[q]]
  /\ UNCHANGED unfinished

\* Every event waiting in the queues of cs is taken and marked done.
Drop(cs) ==
  /\ buf' = [q \in Queue |-> IF q \in cs THEN <<>> ELSE buf[q]]
  /\ unfinished' = [q \in Queue |-> IF q \in cs THEN unfinished[q] - Len(buf[q])
                                                ELSE unfinished[q]]

Emptied(cs) == {q \in cs : unfinished[q] = Len(buf[q])}

ClearEvents(p, q, deep) ==
  /\ op[p] = Idle /\ q \in created
  /\ Drop({q})
  /\ op' = [Woken(Emptied({q})) EXCEPT ![p] =
              IF deep /\ Kids(q) # {} THEN ClearOp(q, Kids(q), FALSE) ELSE Idle]
  /\ UNCHANGED <<created, children, held, closed>>

CloseImmediate(p, q) ==
  /\ op[p] = Idle /\ q \in created
  /\ closed' = [closed EXCEPT ![q] = TRUE]
  /\ Drop({q})
  /\ op' = [Woken(Emptied({q})) EXCEPT ![p] =
              IF Kids(q) # {} THEN ClearOp(q, Kids(q), TRUE) ELSE Idle]
  /\ UNCHANGED <<created, children, held>>

\* The task that clears one child runs.
ClearChild(p, c) ==
  /\ op[p].kind = "clear" /\ c \in op[p].todo
  /\ Drop({c})
  /\ op' = [Woken(Emptied({c})) EXCEPT ![p] =
              ClearOp(@.q, @.todo \ {c}, @.closing)]
  /\ UNCHANGED <<created, children, held, closed>>

\* All of them have: clear_events returns, and close(True) closes the
\* children there are now, which have none and so do not suspend it.
ClearedAll(p) ==
  /\ op[p].kind = "clear" /\ op[p].todo = {}
  /\ LET cs == IF op[p].closing THEN Kids(op[p].q) ELSE {}
     IN  /\ closed' = [q \in Queue |-> closed[q] \/ q \in cs]
         /\ Drop(cs)
         /\ op' = [Woken(Emptied(cs)) EXCEPT ![p] = Idle]
  /\ UNCHANGED <<created, children, held>>

-----------------------------------------------------------------------------
(* close(): the queue refuses events from now on, and the call returns     *)
(* when the queue and the children it had are drained.                     *)

\* Slip: the close of the children is left to their readers.
CloseGracefulAlone(p, q) ==
  /\ op[p] = Idle /\ q \in created /\ ~closed[q]
  /\ closed' = [closed EXCEPT ![q] = TRUE]
  /\ op' = [op EXCEPT ![p] = JoinOp(q, {}, {q}, {})]
  /\ UNCHANGED <<created, children, buf, unfinished, held>>

CloseGraceful(p, q) ==
  /\ op[p] = Idle /\ q \in created
  /\ \/ closed[q] /\ UNCHANGED queueVars
     \/ /\ ~closed[q]
        /\ closed' = [closed EXCEPT ![q] = TRUE]
        /\ op' = [op EXCEPT ![p] = JoinOp(q, Kids(q), {q}, {})]
        /\ UNCHANGED <<created, children, buf, unfinished, held>>

\* The close() of one child runs: nothing if it is closed, else its own join.
CloseChild(p, c) ==
  /\ op[p].kind = "join" /\ c \in op[p].shut
  /\ closed' = [closed EXCEPT ![c] = TRUE]
  /\ op' = [op EXCEPT ![p] =
              JoinOp(@.q, @.shut \ {c},
                     IF closed[c] THEN @.start ELSE @.start \union {c}, @.wait)]
  /\ UNCHANGED <<created, children, buf, unfinished, held>>

\* A join() runs: it returns at once if nothing is unfinished, else it waits.
StartJoin(p, c) ==
  /\ op[p].kind = "join" /\ c \in op[p].start
  /\ op' = [op EXCEPT ![p] =
              JoinOp(@.q, @.shut, @.start \ {c},
                     IF unfinished[c] = 0 THEN @.wait ELSE @.wait \union {c})]
  /\ UNCHANGED <<created, children, buf, unfinished, held, closed>>

\* Slip: the joins are started and not awaited.
CloseReturnsEarly(p) ==
  /\ op[p].kind = "join"
  /\ op[p].shut = {} /\ op[p].start = {}
  /\ op' = [op EXCEPT ![p] = Idle]
  /\ UNCHANGED <<created, children, buf, unfinished, held, closed>>

CloseReturns(p) ==
  /\ op[p].kind = "join"
  /\ op[p].shut = {} /\ op[p].start = {} /\ op[p].wait = {}
  /\ op' = [op EXCEPT ![p] = Idle]
  /\ UNCHANGED <<created, children, buf, unfinished, held, closed>>

-----------------------------------------------------------------------------
\* The task of p is cancelled where p is suspended; a gather cancels its tasks.
Cancel(p) ==
  /\ p \in Cancellable
  /\ op[p] # Idle
  /\ op' = [op EXCEPT ![p] = Idle]
  /\ UNCHANGED <<created, children, buf, unfinished, held, closed>>

Calls(p) ==
  \E q \in Queue :
    \/ \E ev \in Event : Enqueue(p, q, ev)
    \/ \E deep \in BOOLEAN : ClearEvents(p, q, deep)
    \/ CloseImmediate(p, q)
    \/ CloseGraceful(p, q)

\* What p does once its call is made: the event loop runs each of these when
\* it can run.
Goes(p) ==
  \/ ResumePut(p)
  \/ PutRaises(p)
  \/ \E c \in Queue : ClearChild(p, c) \/ CloseChild(p, c) \/ StartJoin(p, c)
  \/ ClearedAll(p)
  \/ CloseReturns(p)

QueueSteps ==
  \/ \E q \in Queue : Create(q) \/ Dequeue(q) \/ TaskDone(q)
  \/ \E q, c \in Queue : q # c /\ Tap(q, c)
  \/ \E p \in Proc : Calls(p) \/ Goes(p)

QueueNext == QueueSteps \/ \E p \in Proc : Cancel(p)

QueueSpec == QueueInit /\ [][QueueNext]_queueVars

(* A coroutine that can go on does (asyncio starves nobody), and every     *)
(* queue has a consumer that keeps reading and acknowledging.              *)
QueueFairness ==
  /\ \A p \in Proc : WF_queueVars(Goes(p))
  /\ \A q \in Queue : WF_queueVars(Dequeue(q)) /\ WF_queueVars(TaskDone(q))

\* Where every call goes on to its end.
FairQueueSpec == QueueInit /\ [][QueueSteps]_queueVars /\ QueueFairness
-----------------------------------------------------------------------------
(* Properties.                                                             *)

\* Every variable keeps its shape; a child is tapped from a queue that
\* exists and nobody is suspended at a target that is not there.
QueueTypeOK ==
  /\ created \subseteq Queue
  /\ children \in [Queue -> Seq(Queue)]
  /\ buf \in [Queue -> Seq(Event)]
  /\ unfinished \in [Queue -> Nat]
  /\ held \in [Queue -> Nat]
  /\ closed \in [Queue -> BOOLEAN]
  /\ op \in [Proc -> Ops]
  /\ \A p \in Proc :
       op[p].kind = "put" => op[p].at <= Len(children[op[p].q]) + 1

\* The count join() waits on is exactly what is still to be consumed, across
\* partial publications, clears that race with consumers that hold an event,
\* and puts that resume late: task_done() never raises, and a close neither
\* returns early nor waits for an event nobody has.
UnfinishedExact ==
  \A q \in Queue : unfinished[q] = Len(buf[q]) + held[q]

\* asyncio.Queue's maxsize holds for every tap, not just for the queue that
\* was published to.
WithinCapacity == \A q \in Queue : Len(buf[q]) <= MaxSize

\* "Once closed, no new events can be enqueued" (docstring of close): also
\* not by a put that passed the check of _is_closed and then waited.
ClosedQueueNeverGrows ==
  [][\A q \in Queue : closed[q] => Len(buf'[q]) <= Len(buf[q])]_queueVars

\* The close of q is somewhere between its first and its last step.
Closing(q) ==
  \E p \in Proc : /\ op[p].kind \in {"clear", "join"}
                  /\ op[p].q = q
                  /\ op[p].kind = "clear" => op[p].closing

\* close() "also closes all child queues": once no close of a closed queue is
\* under way, none of its taps is left open, whatever the order in which
\* graceful and immediate closes of the queue and of the taps overlapped.
NoTapOutlivesItsQueue ==
  \A q \in Queue :
    closed[q] /\ ~Closing(q) => \A c \in Kids(q) : closed[c]

\* A graceful close returns on a drained queue: nothing waits in it and no
\* consumer still holds one of its events.
GracefulCloseDrains ==
  [][\A p \in Proc :
       op[p].kind = "join" /\ op'[p] = Idle =>
         buf[op[p].q] = <<>> /\ unfinished[op[p].q] = 0]_queueVars

\* While consumers keep reading, no close hangs: each join() is woken, however
\* late a task_done(), a clear or another close of the same queues comes.
ClosesReturn ==
  \A p \in Proc : op[p].kind \in {"clear", "join"} ~> op[p] = Idle
=============================================================================
