--------------------------- MODULE RequestHandler ---------------------------
(***************************************************************************)
(* Requests on tasks, from the handler to the agent and back:              *)
(* DefaultRequestHandler with InMemoryQueueManager, EventConsumer and      *)
(* ResultAggregator (src/a2a/server), over the event queues of EventQueue. *)
(*                                                                         *)
(* A request makes at most one queue, so queues are named after requests.  *)
(* A request has up to three coroutines: its consumer, which also runs the *)
(* handler method, the agent it started, and the cleanup of that agent.    *)
(* Each action is the code between two points where the coroutine can      *)
(* suspend.  The store may suspend in every call (DatabaseTaskStore does), *)
(* and before Python 3.12 wait_for suspends between the dequeue of an event *)
(* and its task_done().                                                    *)
(*                                                                         *)
(* Of an event only its effect on the control is kept: the state it gives  *)
(* the task, and whether it ends the stream.  Of a stored task its state   *)
(* is kept and, as history, whether the event that gave it was final.      *)
(* Push notifications are not here.                                        *)
(***************************************************************************)
EXTENDS EventQueue

CONSTANTS
  Task,
  None,          \* neither a request nor a task
  Kinds,         \* the methods clients call
  AgentEvents,   \* what agents publish
  MaxEvents,     \* how much of it an agent publishes at most
  Known,         \* what tasks may be in the store to begin with
  TakeTurns,     \* a client sends to a task when its last send is dealt with
  AgentsRaise,   \* execute() may raise
  StoreFails,    \* process() may raise (store error, ids that do not match)
  ClientsLeave   \* clients may disconnect from a stream

\* A request stands for the queue it makes.
Request == Queue

\* "poll" is message/send with configuration.blocking = False.
Senders == {"send", "poll", "stream"}
Outcomes == {"result", "error", "left"}
Terminal == {"completed", "canceled"}

\* An update says by a field of its own whether it is final; a Message always
\* is, and a Task is if it is in one of these states, or waits for input.
Update(state, final) == [state |-> state, final |-> final]
Message == Update("message", TRUE)
Absent == Update("absent", FALSE)
EventKind == [state : {"working", "auth", "input"} \union Terminal, final : BOOLEAN]
               \union {Message}
Coroutine == {"consumer", "agent", "cleanup"} \X Request

ASSUME HandlerAssumption ==
  /\ Proc = Coroutine /\ Event = EventKind /\ Readers = 1
  /\ Cancellable = Proc /\ LateTap
  /\ None \notin Request \union Task \union EventKind \union Outcomes
  /\ Kinds \subseteq Senders \union {"resubscribe", "cancel"}
  /\ AgentEvents \subseteq EventKind
  /\ Known \subseteq EventKind \union {Absent}
  /\ MaxEvents \in Nat
  /\ {TakeTurns, AgentsRaise, StoreFails, ClientsLeave} \subseteq BOOLEAN

VARIABLES
  kind, task,  \* what a request is, and the task it is about
  pc,          \* where its consumer is
  ev,          \* the event its consumer took last
  answer,      \* what its client has got: nothing, a result, an error, or left
  agent,       \* the producer task it started
  emitted,     \* how many events that agent has published
  said,        \* history: what it published last, up to its final event
  clean,       \* where the cleanup of that agent is
  taskQueue,   \* InMemoryQueueManager._task_queue
  lock,        \* whose cleanup holds InMemoryQueueManager._lock
  running,     \* _running_agents
  stored       \* what gave each task in the store its state

requestVars == <<kind, task, pc, ev, answer>>
agentVars == <<agent, emitted, said>>
managerVars == <<taskQueue, lock, running>>
vars == <<queueVars, requestVars, agentVars, clean, managerVars, stored>>

Final(e) == e # None /\ e.final

Consumer(r) == <<"consumer", r>>
Agent(r) == <<"agent", r>>
Cleanup(r) == <<"cleanup", r>>

HandlerInit ==
  /\ QueueInit
  /\ kind = [r \in Request |-> None]
  /\ task = [r \in Request |-> None]
  /\ pc = [r \in Request |-> "new"]
  /\ ev = [r \in Request |-> None]
  /\ answer = [r \in Request |-> None]
  /\ agent = [r \in Request |-> "none"]
  /\ emitted = [r \in Request |-> 0]
  /\ said = [r \in Request |-> None]
  /\ clean = [r \in Request |-> "none"]
  /\ taskQueue = [t \in Task |-> None]
  /\ lock = None
  /\ running = [t \in Task |-> None]
  /\ stored \in [Task -> Known]

-----------------------------------------------------------------------------
(* A request comes in: the task is looked up and its state checked.        *)

\* A message without a task id gets a new one.
Fresh(t) == stored[t] = Absent /\ \A s \in Request : task[s] # t

\* The request is dealt with: refused, or answered and its cleanup over.
Finished(s) == pc[s] = "ended" /\ clean[s] \in {"none", "done", "raised"}

MyTurn(t) ==
  \A s \in Request : task[s] = t /\ kind[s] \in Senders => Finished(s)

\* Slip: the state of the task is not looked at.
AcceptsAny(k, t) == (k \in Senders /\ Fresh(t)) \/ stored[t] # Absent

Accepts(k, t) ==
  \/ k \in Senders /\ Fresh(t)
  \/ stored[t] # Absent /\ stored[t].state \notin Terminal

Receive(r, k, t) ==
  /\ pc[r] = "new"
  /\ TakeTurns /\ k \in Senders => MyTurn(t)
  /\ kind' = [kind EXCEPT ![r] = k]
  /\ task' = [task EXCEPT ![r] = t]
  /\ \/ Accepts(k, t) /\ pc' = [pc EXCEPT ![r] = "setup"] /\ UNCHANGED answer
     \/ /\ ~Accepts(k, t)
        /\ pc' = [pc EXCEPT ![r] = "ended"]
        /\ answer' = [answer EXCEPT ![r] = "error"]
  /\ UNCHANGED <<queueVars, ev, agentVars, clean, managerVars, stored>>

\* Slip: a new queue is not registered.
CreateOrTapUnregistered(r) ==
  LET t == task[r] IN
  /\ pc[r] = "setup" /\ kind[r] \in Senders
  /\ lock = None
  /\ IF taskQueue[t] = None THEN Create(r) ELSE Tap(taskQueue[t], r)
  /\ agent' = [agent EXCEPT ![r] = "runs"]
  /\ running' = [running EXCEPT ![t] = r]
  /\ pc' = [pc EXCEPT ![r] = "top"]
  /\ UNCHANGED <<kind, task, ev, answer, emitted, said, clean, taskQueue, lock, stored>>

\* message/send and message/stream: create_or_tap, then the agent is started
\* and registered.
CreateOrTap(r) ==
  LET t == task[r] IN
  /\ pc[r] = "setup" /\ kind[r] \in Senders
  /\ lock = None
  /\ \/ /\ taskQueue[t] = None /\ Create(r)
        /\ taskQueue' = [taskQueue EXCEPT ![t] = r]
     \/ taskQueue[t] # None /\ Tap(taskQueue[t], r) /\ UNCHANGED taskQueue
  /\ agent' = [agent EXCEPT ![r] = "runs"]
  /\ running' = [running EXCEPT ![t] = r]
  /\ pc' = [pc EXCEPT ![r] = "top"]
  /\ UNCHANGED <<kind, task, ev, answer, emitted, said, clean, lock, stored>>

\* tasks/resubscribe and tasks/cancel: tap the queue of the task.  Without
\* one, resubscribe fails and cancel makes a queue nobody else knows.
TapTask(r) ==
  LET q == taskQueue[task[r]] IN
  /\ pc[r] = "setup" /\ kind[r] \in {"resubscribe", "cancel"}
  /\ lock = None
  /\ \/ /\ q # None /\ Tap(q, r)
        /\ pc' = [pc EXCEPT ![r] = IF kind[r] = "cancel" THEN "cancel" ELSE "top"]
        /\ said' = [said EXCEPT ![r] = said[q]]
        /\ UNCHANGED answer
     \/ /\ q = None /\ kind[r] = "cancel" /\ Create(r)
        /\ pc' = [pc EXCEPT ![r] = "cancel"]
        /\ UNCHANGED <<answer, said>>
     \/ /\ q = None /\ kind[r] = "resubscribe"
        /\ pc' = [pc EXCEPT ![r] = "ended"]
        /\ answer' = [answer EXCEPT ![r] = "error"]
        /\ UNCHANGED <<queueVars, said>>
  /\ UNCHANGED <<kind, task, ev, agent, emitted, clean, managerVars, stored>>

\* AgentExecutor.cancel publishes that the task is canceled (TaskUpdater.cancel
\* marks that final).
ExecutorCancels(r) ==
  /\ pc[r] = "cancel"
  /\ Enqueue(Consumer(r), r, Update("canceled", TRUE))
  /\ pc' = [pc EXCEPT ![r] = "stop"]
  /\ UNCHANGED <<kind, task, ev, answer, agentVars, clean, managerVars, stored>>

\* The producer task registered for the task is cancelled where it is.
StopAgent(r) ==
  LET s == running[task[r]]
      stops == s # None /\ agent[s] \in {"runs", "closes"}
  IN
  /\ pc[r] = "stop" /\ op[Consumer(r)] = Idle
  /\ pc' = [pc EXCEPT ![r] = "top"]
  /\ \/ /\ stops
        /\ agent' = [agent EXCEPT ![s] = "cancelled"]
        /\ op' = [op EXCEPT ![Agent(s)] = Idle]
     \/ ~stops /\ UNCHANGED <<agent, op>>
  /\ UNCHANGED <<created, children, buf, unfinished, held, closed, kind, task, ev,
                 answer, emitted, said, clean, managerVars, stored>>

-----------------------------------------------------------------------------
(* The consumer: EventConsumer.consume_all inside the aggregator's loop.    *)

\* agent_task_callback has handed the agent's exception to the consumer.
Raised(r) == agent[r] = "failed"

\* The loop of r is over.  A request that was answered before went on in the
\* background; message/send waits for its cleanup before it answers, and
\* message/stream leaves the cleanup to a background task.
StreamEnds(r, result) ==
  \/ /\ answer[r] # None
     /\ pc' = [pc EXCEPT ![r] = "ended"]
     /\ UNCHANGED <<answer, clean>>
  \/ /\ answer[r] = None /\ kind[r] \in {"send", "poll"}
     /\ pc' = [pc EXCEPT ![r] = IF result = "result" THEN "finishing" ELSE "failing"]
     /\ clean' = [clean EXCEPT ![r] = "await"]
     /\ UNCHANGED answer
  \/ /\ answer[r] = None /\ kind[r] \notin {"send", "poll"}
     /\ pc' = [pc EXCEPT ![r] = "ended"]
     /\ answer' = [answer EXCEPT ![r] = result]
     /\ clean' = IF kind[r] = "stream" THEN [clean EXCEPT ![r] = "await"] ELSE clean

\* What there is to answer when the stream ended after event e.
ResultAfter(r, e) ==
  IF \/ kind[r] \in {"send", "poll"} /\ e # Message /\ stored'[task[r]] = Absent
     \/ kind[r] = "cancel" /\ (e = Message \/ stored'[task[r]].state # "canceled")
  THEN "error" ELSE "result"

Look(r) ==
  /\ pc[r] = "top"
  /\ \/ Raised(r) /\ StreamEnds(r, "error")
     \/ /\ ~Raised(r)
        /\ pc' = [pc EXCEPT ![r] = "wait"]
        /\ UNCHANGED <<answer, clean>>
  /\ UNCHANGED <<queueVars, kind, task, ev, agentVars, managerVars, stored>>

\* The wait for an event is given up every half second; that matters only
\* when the loop then finds an exception.
TimesOut(r) ==
  /\ pc[r] = "wait" /\ Raised(r)
  /\ pc' = [pc EXCEPT ![r] = "top"]
  /\ UNCHANGED <<queueVars, kind, task, ev, answer, agentVars, clean, managerVars, stored>>

Take(r) ==
  /\ pc[r] = "wait"
  /\ Dequeue(r)
  /\ ev' = [ev EXCEPT ![r] = Head(buf[r])]
  /\ pc' = [pc EXCEPT ![r] = "got"]
  /\ UNCHANGED <<kind, task, answer, agentVars, clean, managerVars, stored>>

\* Slip: a closed queue ends the loop although events are left in it.
FindsClosedUndrained(r) ==
  /\ pc[r] = "wait" /\ closed[r]
  /\ UNCHANGED <<queueVars, kind, task, ev, agentVars, managerVars, stored>>
  /\ StreamEnds(r, ResultAfter(r, ev[r]))

FindsClosed(r) ==
  /\ pc[r] = "wait" /\ closed[r] /\ buf[r] = <<>>
  /\ UNCHANGED <<queueVars, kind, task, ev, agentVars, managerVars, stored>>
  /\ StreamEnds(r, ResultAfter(r, ev[r]))

Acknowledge(r) ==
  /\ pc[r] = "got" /\ ~Final(ev[r])
  /\ TaskDone(r)
  /\ pc' = [pc EXCEPT ![r] = "process"]
  /\ UNCHANGED <<kind, task, ev, answer, agentVars, clean, managerVars, stored>>

\* close(True) of the queue of r, after acked of its events are marked done.
CloseNow(r, acked) ==
  LET left == unfinished[r] - acked - Len(buf[r])
  IN  /\ closed' = [closed EXCEPT ![r] = TRUE]
      /\ buf' = [buf EXCEPT ![r] = <<>>]
      /\ unfinished' = [unfinished EXCEPT ![r] = left]
      /\ op' = [Woken(IF left = 0 THEN {r} ELSE {}) EXCEPT ![Consumer(r)] =
                  IF Kids(r) # {} THEN ClearOp(r, Kids(r), TRUE) ELSE Idle]

\* task_done() and close(True) on the final event, without suspension; the
\* close suspends when it clears the taps.
AcknowledgeLast(r) ==
  /\ pc[r] = "got" /\ Final(ev[r])
  /\ held' = [held EXCEPT ![r] = @ - 1]
  /\ CloseNow(r, 1)
  /\ UNCHANGED <<created, children>>
  /\ pc' = [pc EXCEPT ![r] = "process"]
  /\ UNCHANGED <<kind, task, ev, answer, agentVars, clean, managerVars, stored>>

\* message/send breaks off and leaves the rest to the background.
Interrupts(r) ==
  /\ answer[r] = None
  /\ \/ kind[r] = "poll" /\ ev[r] # Message
     \/ kind[r] = "send" /\ ev[r].state = "auth"

\* TaskManager.process stores the event; then the loop goes on or is over.
Process(r) ==
  /\ pc[r] = "process" /\ op[Consumer(r)] = Idle
  /\ stored' = IF ev[r] = Message THEN stored ELSE [stored EXCEPT ![task[r]] = ev[r]]
  /\ \/ /\ Interrupts(r)
        /\ answer' = [answer EXCEPT ![r] = "result"]
        /\ clean' = [clean EXCEPT ![r] = "await"]
        /\ pc' = [pc EXCEPT ![r] = IF Final(ev[r]) THEN "ended" ELSE "top"]
     \/ ~Interrupts(r) /\ Final(ev[r]) /\ StreamEnds(r, ResultAfter(r, ev[r]))
     \/ /\ ~Interrupts(r) /\ ~Final(ev[r])
        /\ pc' = [pc EXCEPT ![r] = "top"]
        /\ UNCHANGED <<answer, clean>>
  /\ UNCHANGED <<queueVars, kind, task, ev, agentVars, managerVars>>

ProcessFails(r) ==
  /\ StoreFails
  /\ pc[r] = "process" /\ op[Consumer(r)] = Idle /\ ev[r] # Message
  /\ StreamEnds(r, "error")
  /\ UNCHANGED <<queueVars, kind, task, ev, agentVars, managerVars, stored>>

\* What suspends the consumer itself goes on: the publication of a cancel
\* and the clearing of the taps.
ConsumerGoes(r) ==
  /\ \/ ResumePut(Consumer(r))
     \/ \E c \in Request : ClearChild(Consumer(r), c)
     \/ ClearedAll(Consumer(r))
  /\ UNCHANGED <<requestVars, agentVars, clean, managerVars, stored>>

CancelRaises(r) ==
  /\ PutRaises(Consumer(r))
  /\ pc' = [pc EXCEPT ![r] = "ended"]
  /\ answer' = [answer EXCEPT ![r] = "error"]
  /\ UNCHANGED <<kind, task, ev, agentVars, clean, managerVars, stored>>

\* The client of a stream disconnects: message/stream goes on in the
\* background with a new loop on the same queue, resubscribe just stops.
Disconnect(r) ==
  /\ ClientsLeave
  /\ kind[r] \in {"stream", "resubscribe"} /\ answer[r] = None
  /\ pc[r] \in {"top", "wait", "process"}
  /\ answer' = [answer EXCEPT ![r] = "left"]
  /\ op' = [op EXCEPT ![Consumer(r)] = Idle]
  /\ \/ /\ kind[r] = "stream"
        /\ pc' = [pc EXCEPT ![r] = "top"]
        /\ clean' = [clean EXCEPT ![r] = "await"]
     \/ /\ kind[r] = "resubscribe"
        /\ pc' = [pc EXCEPT ![r] = "ended"]
        /\ UNCHANGED clean
  /\ UNCHANGED <<created, children, buf, unfinished, held, closed, kind, task, ev,
                 agentVars, managerVars, stored>>

-----------------------------------------------------------------------------
(* The producer: _run_event_stream runs the agent, then closes its queue.   *)

AgentPublishes(r, e) ==
  /\ agent[r] = "runs" /\ emitted[r] < MaxEvents
  /\ Enqueue(Agent(r), r, e)
  /\ emitted' = [emitted EXCEPT ![r] = @ + 1]
  /\ said' = IF Final(said[r]) THEN said ELSE [said EXCEPT ![r] = e]
  /\ UNCHANGED <<requestVars, agent, clean, managerVars, stored>>

\* Slip: the producer ends without closing the queue.
AgentReturnsOpen(r) ==
  /\ agent[r] = "runs" /\ op[Agent(r)] = Idle
  /\ agent' = [agent EXCEPT ![r] = "done"]
  /\ UNCHANGED <<queueVars, requestVars, emitted, said, clean, managerVars, stored>>

AgentReturns(r) ==
  /\ agent[r] = "runs"
  /\ CloseGraceful(Agent(r), r)
  /\ agent' = [agent EXCEPT ![r] = IF closed[r] THEN "done" ELSE "closes"]
  /\ UNCHANGED <<requestVars, emitted, said, clean, managerVars, stored>>

AgentFails(r) ==
  /\ agent[r] = "runs"
  /\ \/ AgentsRaise /\ op[Agent(r)] = Idle /\ UNCHANGED queueVars
     \/ PutRaises(Agent(r))
  /\ agent' = [agent EXCEPT ![r] = "failed"]
  /\ UNCHANGED <<requestVars, emitted, said, clean, managerVars, stored>>

AgentGoes(r) ==
  /\ \/ ResumePut(Agent(r))
     \/ \E c \in Request : CloseChild(Agent(r), c) \/ StartJoin(Agent(r), c)
  /\ UNCHANGED <<requestVars, agentVars, clean, managerVars, stored>>

AgentEnds(r) ==
  /\ CloseReturns(Agent(r))
  /\ agent' = [agent EXCEPT ![r] = "done"]
  /\ UNCHANGED <<requestVars, emitted, said, clean, managerVars, stored>>

-----------------------------------------------------------------------------
(* _cleanup_producer: await the producer, which raises what it raised, then *)
(* close the queue registered for the task and forget the agent.           *)

\* Slip: the cleanup forgets the agent but keeps the queue registered.
CleanUpHalf(r) ==
  /\ clean[r] = "await" /\ agent[r] = "done" /\ lock = None
  /\ running' = [running EXCEPT ![task[r]] = None]
  /\ clean' = [clean EXCEPT ![r] = "done"]
  /\ UNCHANGED <<queueVars, requestVars, agentVars, taskQueue, lock, stored>>

\* Slip: the cleanup does not wait for the producer.
CleanUpEarly(r) ==
  LET t == task[r]
      q == taskQueue[t]
  IN
  /\ clean[r] = "await" /\ lock = None /\ q # None
  /\ taskQueue' = [taskQueue EXCEPT ![t] = None]
  /\ CloseGraceful(Cleanup(r), q)
  /\ clean' = [clean EXCEPT ![r] = IF closed[q] THEN "done" ELSE "closes"]
  /\ running' = IF closed[q] THEN [running EXCEPT ![t] = None] ELSE running
  /\ lock' = IF closed[q] THEN None ELSE r
  /\ UNCHANGED <<requestVars, agentVars, stored>>

CleanUp(r) ==
  LET t == task[r]
      q == taskQueue[t]
  IN
  /\ clean[r] = "await"
  /\ \/ /\ agent[r] \in {"failed", "cancelled"} \/ (agent[r] = "done" /\ lock = None /\ q = None)
        /\ clean' = [clean EXCEPT ![r] = "raised"]
        /\ UNCHANGED <<queueVars, managerVars>>
     \/ /\ agent[r] = "done" /\ lock = None /\ q # None
        /\ taskQueue' = [taskQueue EXCEPT ![t] = None]
        /\ CloseGraceful(Cleanup(r), q)
        /\ \/ /\ closed[q]
              /\ clean' = [clean EXCEPT ![r] = "done"]
              /\ running' = [running EXCEPT ![t] = None]
              /\ UNCHANGED lock
           \/ /\ ~closed[q]
              /\ clean' = [clean EXCEPT ![r] = "closes"]
              /\ lock' = r
              /\ UNCHANGED running
  /\ UNCHANGED <<requestVars, agentVars, stored>>

CleanupGoes(r) ==
  /\ \E c \in Request : CloseChild(Cleanup(r), c) \/ StartJoin(Cleanup(r), c)
  /\ UNCHANGED <<requestVars, agentVars, clean, managerVars, stored>>

CleanupEnds(r) ==
  /\ CloseReturns(Cleanup(r))
  /\ lock' = None
  /\ running' = [running EXCEPT ![task[r]] = None]
  /\ clean' = [clean EXCEPT ![r] = "done"]
  /\ UNCHANGED <<requestVars, agentVars, taskQueue, stored>>

\* message/send has awaited its cleanup: an exception of the cleanup replaces
\* the result.
Answer(r) ==
  /\ pc[r] \in {"finishing", "failing"} /\ clean[r] \in {"done", "raised"}
  /\ pc' = [pc EXCEPT ![r] = "ended"]
  /\ answer' = [answer EXCEPT ![r] =
       IF pc[r] = "finishing" /\ clean[r] = "done" THEN "result" ELSE "error"]
  /\ UNCHANGED <<queueVars, kind, task, ev, agentVars, clean, managerVars, stored>>
-----------------------------------------------------------------------------
HandlerStep(r) ==
  \/ CreateOrTap(r) \/ TapTask(r) \/ ExecutorCancels(r) \/ StopAgent(r)
  \/ Look(r) \/ TimesOut(r) \/ Take(r) \/ FindsClosed(r)
  \/ Acknowledge(r) \/ AcknowledgeLast(r) \/ Process(r)
  \/ ConsumerGoes(r) \/ CancelRaises(r) \/ Answer(r)

AgentStep(r) ==
  AgentReturns(r) \/ AgentGoes(r) \/ AgentEnds(r)

CleanupStep(r) == CleanUp(r) \/ CleanupGoes(r) \/ CleanupEnds(r)

HandlerNext ==
  \E r \in Request :
    \/ \E k \in Kinds, t \in Task : Receive(r, k, t)
    \/ HandlerStep(r)
    \/ ProcessFails(r) \/ Disconnect(r)
    \/ \E e \in AgentEvents : AgentPublishes(r, e)
    \/ AgentStep(r) \/ AgentFails(r)
    \/ CleanupStep(r)

HandlerSpec == HandlerInit /\ [][HandlerNext]_vars

(* asyncio runs what can run, agents come to an end, and a client reads the *)
(* stream it has not left.                                                 *)
HandlerFairness ==
  \A r \in Request :
    WF_vars(HandlerStep(r)) /\ WF_vars(AgentStep(r)) /\ WF_vars(CleanupStep(r))

FairHandlerSpec == HandlerSpec /\ HandlerFairness
-----------------------------------------------------------------------------
(* Properties.                                                             *)

\* Every variable keeps its shape, and the handler's variables agree on which
\* requests have an agent.
HandlerTypeOK ==
  /\ QueueTypeOK
  /\ kind \in [Request -> Kinds \union {None}]
  /\ task \in [Request -> Task \union {None}]
  /\ pc \in [Request -> {"new", "setup", "cancel", "stop", "top", "wait", "got",
                         "process", "finishing", "failing", "ended"}]
  /\ ev \in [Request -> EventKind \union {None}]
  /\ answer \in [Request -> Outcomes \union {None}]
  /\ agent \in [Request -> {"none", "runs", "closes", "done", "failed", "cancelled"}]
  /\ emitted \in [Request -> 0..MaxEvents]
  /\ said \in [Request -> EventKind \union {None}]
  /\ clean \in [Request -> {"none", "await", "closes", "done", "raised"}]
  /\ taskQueue \in [Task -> Request \union {None}]
  /\ lock \in Request \union {None}
  /\ running \in [Task -> Request \union {None}]
  /\ stored \in [Task -> EventKind \union {Absent}]
  /\ \A r \in Request :
       agent[r] # "none" <=> kind[r] \in Senders /\ pc[r] # "setup" /\ r \in created

\* Whatever the requests on a task do to each other, a cleanup that succeeds
\* leaves nothing of its request behind: its queue is not registered, its
\* agent is not registered, and that agent is not at work.
NothingOutlivesCleanup ==
  \A r \in Request : clean[r] = "done" =>
    /\ agent[r] = "done"
    /\ \A t \in Task : taskQueue[t] # r /\ running[t] # r

\* The queue manager registers only queues that were created as roots, for
\* the task of their request, so no queue is reached from two tasks.
EntriesAreRoots ==
  \A t \in Task : taskQueue[t] # None =>
    /\ task[taskQueue[t]] = t
    /\ IsRoot(taskQueue[t])
    /\ kind[taskQueue[t]] \in Senders

\* When a request is over and its cleanup was clean, the store holds what its
\* agent published last, up to its final event (a message is not stored):
\* nothing an agent says is refused by a queue that closed too early, or left
\* unread when the request is answered before the agent ends.
FinishedMeansStored ==
  [][\A r \in Request :
       ~Finished(r) /\ Finished(r)' /\ clean'[r] = "done" =>
         said'[r] \in {stored'[task[r]], Message, None}]_vars

\* message/send answers with the result when its agent came to an end and
\* there is one (docstring of on_message_send: it "waits for the final
\* result"): no other request on the task turns it into an error.
SuccessIsNotAnError ==
  \A r \in Request :
    kind[r] \in {"send", "poll"} /\ answer[r] = "error" /\ agent[r] = "done" =>
      said[r] = None

Ended(t) == stored[t].state \in Terminal

\* A task that came to its end by an event marked final, as TaskUpdater marks
\* every terminal status, keeps its state: no message restarts it and no late
\* event overwrites it.  (The loop goes on after a terminal status that an agent
\* does not mark: EndsStay below.)
TerminalIsForever ==
  [][\A t \in Task : Ended(t) /\ Final(stored[t]) => stored'[t] = stored[t]]_vars

\* Every accepted request is answered, whatever else happens to its task, once
\* its agent ends.
EveryRequestAnswered == \A r \in Request : pc[r] = "setup" ~> answer[r] # None

\* The lock of the queue manager is held while a queue drains; it is let go in
\* the end, or no request on any task could start.
LockFreed == lock # None ~> lock = None

\* The cleanup of an agent that ended comes to an end as well, with no client
\* left to wait for it.
CleanedUp == \A r \in Request : agent[r] = "closes" ~> clean[r] \in {"done", "raised"}

-----------------------------------------------------------------------------
(* What docstrings promise and the code does not keep; README.md names the *)
(* cfg that shows each.                                                    *)

\* A tap "receives all future events" (docstring of tap): a resubscribed
\* client whose stream the server ends has got the final event published
\* since it subscribed.
ResubscriberSeesFinal ==
  \A r, s \in Request :
    /\ kind[r] = "resubscribe" /\ answer[r] = "result" /\ ~Final(said[r])
    /\ kind[s] \in Senders /\ task[s] = task[r] /\ Final(said[s])
    => Final(ev[r])

\* on_resubscribe_to_task "requires the task and its queue to still be active":
\* it taps no queue that is closed.
ResubscribesToOpenQueue ==
  [][\A r \in Request :
       kind[r] = "resubscribe" /\ r \in created' \ created =>
         ~closed[taskQueue[task[r]]]]_vars

\* A task in a terminal state stays in one, also when the agent did not mark the
\* status final that brought it there.
EndsStay == [][\A t \in Task : Ended(t) => Ended(t)']_vars

\* A blocking message/send "waits for a terminal state" (docstring of
\* consume_and_break_on_interrupt), and no longer.
TerminalIsAnswered ==
  \A r \in Request :
    kind[r] = "send" /\ agent[r] # "none" /\ Ended(task[r])
      ~> answer[r] # None
=============================================================================
