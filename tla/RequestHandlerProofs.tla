------------------------ MODULE RequestHandlerProofs ------------------------
(***************************************************************************)
(* What a cleanup leaves behind, for any number of requests, tasks and     *)
(* events, whatever fails and whichever clients leave; and what sends that *)
(* take turns on their tasks can rely on; and that its queues are queues   *)
(* of EventQueue, with their counts and bounds.                            *)
(***************************************************************************)
EXTENDS RequestHandler, EventQueueProofs

Places == {"new", "setup", "cancel", "stop", "top", "wait", "got", "process", "finishing",
           "failing", "ended"}
Cleans == {"none", "await", "closes", "done", "raised"}
Agents == {"none", "runs", "closes", "done", "failed", "cancelled"}

\* The variables the argument is about are functions of requests, tasks and
\* coroutines.
HandlerShape ==
  /\ op = [p \in Proc |-> op[p]]
  /\ pc \in [Request -> Places]
  /\ clean \in [Request -> Cleans]
  /\ agent \in [Request -> Agents]
  /\ answer \in [Request -> Outcomes \union {None}]
  /\ task \in [Request -> Task \union {None}]
  /\ taskQueue \in [Task -> Request \union {None}]
  /\ running \in [Task -> Request \union {None}]

\* A request is registered for its own task only, and once it has been set up.
OwnEntries ==
  \A t \in Task, r \in Request :
    taskQueue[t] = r \/ running[t] = r => task[r] = t /\ pc[r] \notin {"new", "setup"}

\* The cleanup of a request comes once: when its answer is there or on its way.
CleanupOnce ==
  \A r \in Request : clean[r] # "none" =>
    /\ pc[r] \notin {"new", "setup"}
    /\ answer[r] # None \/ pc[r] \in {"finishing", "failing"}

\* A cleanup closes a queue only after the agent came to its end and its entry
\* was taken out, ...
TakenOut ==
  \A r \in Request :
    /\ clean[r] \in {"closes", "done"} => agent[r] = "done" /\ \A t \in Task : taskQueue[t] # r
    /\ clean[r] = "done" => \A t \in Task : running[t] # r

\* ... and waits in no other close.
CleanupJoins ==
  \A r \in Request : op[Cleanup(r)].kind = "join" => clean[r] = "closes"

HandlerInv == HandlerShape /\ OwnEntries /\ CleanupOnce /\ TakenOut /\ CleanupJoins

\* No cleanup begins to wait.
JoinsNoMore ==
  /\ op' = [p \in Proc |-> op'[p]]
  /\ \A r \in Request : op'[Cleanup(r)].kind = "join" => op[Cleanup(r)].kind = "join"

-----------------------------------------------------------------------------
(* Calls of the other coroutines.                                          *)

\* What is published: updates and Messages, which are final.
LEMMA EventsAre ==
  /\ Event = EventKind /\ Update("canceled", TRUE) \in Event /\ AgentEvents \subseteq Event
  /\ Message \in EventKind /\ Final(Message)
  /\ Absent \notin EventKind /\ Absent.state \notin Terminal
<1>1. Event = EventKind /\ AgentEvents \subseteq EventKind /\ None \notin EventKind
  BY HandlerAssumption
<1>2. Message \in EventKind /\ Message.final = TRUE
  BY DEF EventKind, Message, Update
<1>3. Final(Message)
  BY <1>1, <1>2 DEF Final
<1>4. \A e \in EventKind : e.state # "absent"
  BY DEF EventKind, Message, Update, Terminal
<1>5. Absent.state = "absent"
  BY DEF Absent, Update
<1>6. Update("canceled", TRUE) \in EventKind
  BY DEF Update, EventKind, Terminal
<1>7. "absent" \notin Terminal
  BY DEF Terminal
<1>8. QED
  BY <1>1, <1>2, <1>3, <1>4, <1>5, <1>6, <1>7

\* Coroutines are consumers, agents and cleanups, which are different.
LEMMA Coroutines ==
  /\ Request = Queue
  /\ \A r \in Request : Consumer(r) \in Proc /\ Agent(r) \in Proc /\ Cleanup(r) \in Proc
  /\ \A r, s \in Request : Consumer(r) # Cleanup(s) /\ Agent(r) # Cleanup(s)
  /\ \A r, s \in Request : Cleanup(r) = Cleanup(s) => r = s
BY HandlerAssumption DEF Request, Coroutine, Consumer, Agent, Cleanup

\* What a coroutine writes in its own place, and waking those that wait for a
\* queue to be drained, makes no other wait.
LEMMA OwnPlace ==
  ASSUME HandlerShape, NEW p \in Proc, \A r \in Request : p # Cleanup(r), NEW o, NEW zero,
         \/ op' = op \/ op' = [op EXCEPT ![p] = o]
         \/ op' = Woken(zero) \/ op' = [Woken(zero) EXCEPT ![p] = o]
  PROVE  JoinsNoMore
<1>1. \A q \in Proc : Woken(zero)[q].kind = "join" => op[q].kind = "join"
  BY DEF Woken
<1>2. Woken(zero) = [q \in Proc |-> Woken(zero)[q]]
  BY DEF Woken
<1>3. /\ op' = [q \in Proc |-> op'[q]]
      /\ \A q \in Proc : q = p \/ op'[q] = op[q] \/ op'[q] = Woken(zero)[q]
  BY <1>2 DEF HandlerShape
<1>4. QED
  BY <1>1, <1>3, Coroutines DEF JoinsNoMore

\* A publication suspends, goes on, ends or raises.
LEMMA PutsJoinNothing ==
  ASSUME HandlerShape, NEW p \in Proc, \A r \in Request : p # Cleanup(r),
         \/ \E q \in Queue, e \in Event : Enqueue(p, q, e)
         \/ ResumePut(p) \/ PutRaises(p)
  PROVE  JoinsNoMore
<1>1. \/ UNCHANGED op \/ op' = [op EXCEPT ![p] = Idle]
      \/ \E q, e, i : op' = [op EXCEPT ![p] = PutOp(q, i, e)]
  BY DEF Enqueue, ResumePut, PutRaises, PutFrom, queueVars
<1>2. QED
  BY <1>1, OwnPlace

\* So do the consumer's close(True) and the agent's close().
LEMMA ClosesJoinNothing ==
  ASSUME HandlerShape, NEW p \in Proc, \A r \in Request : p # Cleanup(r),
         \/ \E c \in Queue : ClearChild(p, c) \/ CloseChild(p, c) \/ StartJoin(p, c)
         \/ \E q \in Queue : CloseGraceful(p, q)
         \/ ClearedAll(p) \/ CloseReturns(p)
  PROVE  JoinsNoMore
<1>1. ASSUME NEW c \in Queue, ClearChild(p, c) PROVE JoinsNoMore
  <2> DEFINE w == Woken(Emptied({c}))
  <2>1. op' = [w EXCEPT ![p] = ClearOp(w[p].q, w[p].todo \ {c}, w[p].closing)]
    BY <1>1 DEF ClearChild
  <2>2. QED
    BY <2>1, OwnPlace
<1>2. ASSUME NEW c \in Queue, CloseChild(p, c) \/ StartJoin(p, c) PROVE JoinsNoMore
  <2>1. \/ op' = [op EXCEPT ![p] = JoinOp(op[p].q, op[p].shut \ {c},
                     IF closed[c] THEN op[p].start ELSE op[p].start \union {c}, op[p].wait)]
        \/ op' = [op EXCEPT ![p] = JoinOp(op[p].q, op[p].shut, op[p].start \ {c},
                     IF unfinished[c] = 0 THEN op[p].wait ELSE op[p].wait \union {c})]
    BY <1>2 DEF CloseChild, StartJoin
  <2>2. QED
    BY <2>1, OwnPlace
<1>3. ASSUME NEW q \in Queue, CloseGraceful(p, q) PROVE JoinsNoMore
  <2>1. UNCHANGED op \/ op' = [op EXCEPT ![p] = JoinOp(q, Kids(q), {q}, {})]
    BY <1>3 DEF CloseGraceful, queueVars
  <2>2. QED
    BY <2>1, OwnPlace
<1>4. CASE ClearedAll(p)
  <2>1. PICK cs : op' = [Woken(Emptied(cs)) EXCEPT ![p] = Idle]
    BY <1>4 DEF ClearedAll
  <2>2. QED
    BY <2>1, OwnPlace
<1>5. CASE CloseReturns(p)
  <2>1. op' = [op EXCEPT ![p] = Idle]
    BY <1>5 DEF CloseReturns
  <2>2. QED
    BY <2>1, OwnPlace
<1>6. QED
  BY <1>1, <1>2, <1>3, <1>4, <1>5

-----------------------------------------------------------------------------
(* The invariant.                                                          *)

\* Nothing is registered and nothing runs at first.
LEMMA HandlerInitInv == HandlerInit => HandlerInv
BY HandlerAssumption, Coroutines
   DEF HandlerInit, QueueInit, HandlerInv, HandlerShape, OwnEntries, CleanupOnce, TakenOut,
       CleanupJoins, Places, Cleans, Agents, Idle

\* A step that leaves the entries alone: requests go on in their own places, and a
\* cleanup may begin.
LEMMA HandlerFrame ==
  ASSUME HandlerInv, JoinsNoMore, UNCHANGED <<task, taskQueue, running>>,
         pc' \in [Request -> Places], clean' \in [Request -> Cleans],
         agent' \in [Request -> Agents], answer' \in [Request -> Outcomes \union {None}],
         \A r \in Request :
           /\ pc[r] \notin {"new", "setup"} => pc'[r] \notin {"new", "setup"}
           /\ agent[r] = "done" => agent'[r] = "done"
           /\ clean'[r] # clean[r] =>
                clean[r] = "none" /\ clean'[r] = "await" /\ pc[r] \notin {"new", "setup"}
           /\ clean'[r] # "none" => answer'[r] # None \/ pc'[r] \in {"finishing", "failing"}
  PROVE  HandlerInv'
<1> USE DEF HandlerInv
<1>1. HandlerShape'
  BY DEF HandlerShape, JoinsNoMore
<1>2. OwnEntries' /\ CleanupOnce'
  BY DEF OwnEntries, CleanupOnce
<1>3. TakenOut'
  BY DEF TakenOut
<1>4. CleanupJoins'
  BY DEF CleanupJoins, JoinsNoMore
<1>5. QED
  BY <1>1, <1>2, <1>3, <1>4

\* The end of a stream: its cleanup begins if its answer was not there yet.
LEMMA StreamEndsInv ==
  ASSUME HandlerInv, NEW r \in Request, NEW result \in Outcomes, StreamEnds(r, result),
         pc[r] \in {"top", "wait", "process"},
         JoinsNoMore, UNCHANGED <<task, taskQueue, running, agent>>
  PROVE  HandlerInv'
<1>1. result # None /\ None \notin Outcomes
  BY HandlerAssumption
<1>2. answer[r] = None => clean[r] = "none"
  BY DEF HandlerInv, CleanupOnce
<1>3. pc[r] \notin {"new", "setup", "finishing", "failing"}
  OBVIOUS
<1>4. /\ pc' \in [Request -> Places] /\ clean' \in [Request -> Cleans]
      /\ answer' \in [Request -> Outcomes \union {None}]
  BY DEF StreamEnds, HandlerInv, HandlerShape, Places, Cleans
<1>5. ASSUME NEW s \in Request
      PROVE  /\ pc[s] \notin {"new", "setup"} => pc'[s] \notin {"new", "setup"}
             /\ clean'[s] # clean[s] =>
                  clean[s] = "none" /\ clean'[s] = "await" /\ pc[s] \notin {"new", "setup"}
             /\ clean'[s] # "none" => answer'[s] # None \/ pc'[s] \in {"finishing", "failing"}
  <2>1. CASE s # r
    BY <2>1 DEF StreamEnds, HandlerInv, HandlerShape, CleanupOnce
  <2>2. CASE s = r
    BY <1>1, <1>2, <1>3, <2>2 DEF StreamEnds, HandlerInv, HandlerShape, CleanupOnce
  <2>3. QED
    BY <2>1, <2>2
<1>6. QED
  BY <1>4, <1>5, HandlerFrame DEF HandlerInv, HandlerShape

\* A request comes in.
LEMMA ReceiveInv ==
  ASSUME HandlerInv, NEW r \in Request, NEW k \in Kinds, NEW t \in Task, Receive(r, k, t)
  PROVE  HandlerInv'
<1> USE DEF HandlerInv
<1>1. /\ pc[r] = "new" /\ clean[r] = "none" /\ op' = op
      /\ task' = [task EXCEPT ![r] = t]
      /\ UNCHANGED <<taskQueue, running, clean, agent>>
      /\ pc' = [pc EXCEPT ![r] = pc'[r]] /\ pc'[r] \in {"setup", "ended"}
      /\ answer' = answer \/ answer' = [answer EXCEPT ![r] = "error"]
  BY DEF Receive, CleanupOnce, HandlerShape, queueVars, managerVars, agentVars
<1>2. HandlerShape'
  BY <1>1 DEF HandlerShape, Places, Outcomes
<1>3. \A u \in Task : taskQueue[u] # r /\ running[u] # r
  BY <1>1 DEF OwnEntries
<1>4. OwnEntries'
  BY <1>1, <1>3 DEF HandlerShape, OwnEntries
<1>5. CleanupOnce'
  <2>1. \A s \in Request : s # r => pc'[s] = pc[s] /\ answer'[s] = answer[s]
    BY <1>1 DEF HandlerShape
  <2>2. QED
    BY <1>1, <2>1 DEF CleanupOnce
<1>6. TakenOut' /\ CleanupJoins'
  BY <1>1 DEF TakenOut, CleanupJoins
<1>7. QED
  BY <1>2, <1>4, <1>5, <1>6

\* A sender registers its queue and its agent, long before its cleanup.
LEMMA CreateOrTapInv ==
  ASSUME HandlerInv, NEW r \in Request, CreateOrTap(r)
  PROVE  HandlerInv'
<1> USE DEF HandlerInv
<1>1. /\ pc[r] = "setup" /\ clean[r] = "none"
      /\ pc' = [pc EXCEPT ![r] = "top"] /\ agent' = [agent EXCEPT ![r] = "runs"]
      /\ running' = [running EXCEPT ![task[r]] = r]
      /\ taskQueue' = taskQueue \/ taskQueue' = [taskQueue EXCEPT ![task[r]] = r]
      /\ UNCHANGED <<op, task, answer, clean>>
  BY DEF CreateOrTap, Create, Tap, CleanupOnce
<1>2. HandlerShape'
  BY <1>1 DEF HandlerShape, Places, Agents
<1>3. OwnEntries' /\ CleanupOnce'
  BY <1>1 DEF HandlerShape, OwnEntries, CleanupOnce
<1>4. TakenOut' /\ CleanupJoins'
  BY <1>1 DEF HandlerShape, TakenOut, CleanupJoins
<1>5. QED
  BY <1>2, <1>3, <1>4

\* A cleanup takes the entry of its task out: its own is that one, if any.
LEMMA CleanUpInv ==
  ASSUME HandlerInv, NEW r \in Request, CleanUp(r)
  PROVE  HandlerInv'
<1> USE DEF HandlerInv
<1> DEFINE t == task[r]
           q == taskQueue[t]
<1>1. clean[r] = "await" /\ UNCHANGED <<pc, agent, answer, task>>
  BY DEF CleanUp, requestVars, agentVars
<1>2. None \notin Request
  BY HandlerAssumption
<1>3. CASE clean' = [clean EXCEPT ![r] = "raised"] /\ UNCHANGED <<op, taskQueue, running>>
  <2>1. HandlerShape'
    BY <1>1, <1>3 DEF HandlerShape, Cleans
  <2>2. OwnEntries' /\ CleanupOnce' /\ TakenOut'
    BY <1>1, <1>3 DEF HandlerShape, OwnEntries, CleanupOnce, TakenOut
  <2>3. CleanupJoins'
    BY <1>1, <1>3 DEF HandlerShape, CleanupJoins
  <2>4. QED
    BY <2>1, <2>2, <2>3
<1>4. ASSUME agent[r] = "done", taskQueue' = [taskQueue EXCEPT ![t] = None],
             CloseGraceful(Cleanup(r), q),
             \/ /\ closed[q] /\ clean' = [clean EXCEPT ![r] = "done"]
                /\ running' = [running EXCEPT ![t] = None]
             \/ ~closed[q] /\ clean' = [clean EXCEPT ![r] = "closes"] /\ running' = running
      PROVE  HandlerInv'
  <2>1. op[Cleanup(r)] = Idle /\ Cleanup(r) \in Proc
    BY <1>4, Coroutines DEF CloseGraceful
  <2>2. \/ op' = op
        \/ ~closed[q] /\ op' = [op EXCEPT ![Cleanup(r)] = JoinOp(q, Kids(q), {q}, {})]
    BY <1>4 DEF CloseGraceful, queueVars
  <2>3. /\ op' = [p \in Proc |-> op'[p]]
        /\ \A s \in Request : s # r => op'[Cleanup(s)] = op[Cleanup(s)]
    BY <2>2, Coroutines DEF HandlerShape
  <2>4. HandlerShape'
    BY <1>1, <1>4, <2>3 DEF HandlerShape, Cleans
  <2>5. OwnEntries' /\ CleanupOnce'
    BY <1>1, <1>2, <1>4 DEF HandlerShape, OwnEntries, CleanupOnce
  <2>6. \A u \in Task : taskQueue'[u] # r /\ (closed[q] => running'[u] # r)
    BY <1>2, <1>4 DEF HandlerShape, OwnEntries
  <2>7. TakenOut'
    BY <1>1, <1>2, <1>4, <2>6 DEF HandlerShape, TakenOut
  <2>8. op'[Cleanup(r)].kind = "join" => clean'[r] = "closes"
    BY <1>4, <2>1, <2>2 DEF HandlerShape, Idle
  <2>9. CleanupJoins'
    BY <1>4, <2>3, <2>8 DEF HandlerShape, CleanupJoins
  <2>10. QED
    BY <2>4, <2>5, <2>7, <2>9
<1>5. QED
  BY <1>3, <1>4 DEF CleanUp, queueVars, managerVars

\* Its close goes on.
LEMMA CleanupGoesInv ==
  ASSUME HandlerInv, NEW r \in Request, CleanupGoes(r)
  PROVE  HandlerInv'
<1>1. UNCHANGED <<pc, agent, answer, task, clean, taskQueue, running>>
  BY DEF CleanupGoes, requestVars, agentVars, managerVars
<1>2. PICK o : op' = [op EXCEPT ![Cleanup(r)] = o] /\ op[Cleanup(r)].kind = "join"
  <2>1. PICK c \in Request : CloseChild(Cleanup(r), c) \/ StartJoin(Cleanup(r), c)
    BY DEF CleanupGoes
  <2> DEFINE j == op[Cleanup(r)]
  <2>2. \/ op' = [op EXCEPT ![Cleanup(r)] = JoinOp(j.q, j.shut \ {c},
                     IF closed[c] THEN j.start ELSE j.start \union {c}, j.wait)]
        \/ op' = [op EXCEPT ![Cleanup(r)] = JoinOp(j.q, j.shut, j.start \ {c},
                     IF unfinished[c] = 0 THEN j.wait ELSE j.wait \union {c})]
    BY <2>1 DEF CloseChild, StartJoin
  <2>3. j.kind = "join"
    BY <2>1 DEF CloseChild, StartJoin
  <2>4. QED
    BY <2>2, <2>3
<1>3. JoinsNoMore
  BY <1>2, Coroutines DEF JoinsNoMore, HandlerInv, HandlerShape
<1>4. QED
  BY <1>1, <1>3, HandlerFrame DEF HandlerInv, HandlerShape, CleanupOnce

\* It returns, and the agent is forgotten.
LEMMA CleanupEndsInv ==
  ASSUME HandlerInv, NEW r \in Request, CleanupEnds(r)
  PROVE  HandlerInv'
<1> USE DEF HandlerInv
<1>1. /\ clean[r] = "closes" /\ op' = [op EXCEPT ![Cleanup(r)] = Idle]
      /\ running' = [running EXCEPT ![task[r]] = None]
      /\ clean' = [clean EXCEPT ![r] = "done"]
      /\ UNCHANGED <<pc, agent, answer, task, taskQueue>>
  BY DEF CleanupEnds, CloseReturns, CleanupJoins, requestVars, agentVars
<1>2. None \notin Request
  BY HandlerAssumption
<1>3. HandlerShape'
  BY <1>1 DEF HandlerShape, Cleans
<1>4. OwnEntries' /\ CleanupOnce'
  BY <1>1, <1>2 DEF HandlerShape, OwnEntries, CleanupOnce
<1>5. \A u \in Task : running'[u] # r
  BY <1>1, <1>2 DEF HandlerShape, OwnEntries
<1>6. TakenOut'
  BY <1>1, <1>2, <1>5 DEF HandlerShape, TakenOut
<1>7. CleanupJoins'
  BY <1>1, Coroutines DEF HandlerShape, CleanupJoins, Idle
<1>8. QED
  BY <1>3, <1>4, <1>6, <1>7

\* The steps of a request's consumer that begin no cleanup.
LEMMA ConsumerInv ==
  ASSUME HandlerInv, NEW r \in Request,
         \/ TapTask(r) \/ ExecutorCancels(r) \/ StopAgent(r) \/ TimesOut(r) \/ Take(r)
         \/ Acknowledge(r) \/ AcknowledgeLast(r) \/ ConsumerGoes(r) \/ CancelRaises(r)
         \/ Answer(r)
  PROVE  HandlerInv'
<1> USE DEF HandlerInv
<1>1. Consumer(r) \in Proc /\ \A s \in Request : Consumer(r) # Cleanup(s)
  BY Coroutines
<1>2. JoinsNoMore
  <2>1. CASE TapTask(r) \/ TimesOut(r) \/ Take(r) \/ Answer(r)
    <3>1. UNCHANGED op
      BY <2>1 DEF TapTask, Tap, Create, TimesOut, Take, Dequeue, Answer, queueVars
    <3>2. QED
      BY <1>1, <3>1, OwnPlace
  <2>2. CASE ExecutorCancels(r) \/ CancelRaises(r)
    <3>1. (\E e \in Event : Enqueue(Consumer(r), r, e)) \/ PutRaises(Consumer(r))
      BY <2>2, EventsAre DEF ExecutorCancels, CancelRaises
    <3>2. QED
      BY <1>1, <3>1, PutsJoinNothing, Coroutines
  <2>3. CASE StopAgent(r)
    <3>1. op' = op \/ \E s : op' = [op EXCEPT ![Agent(s)] = Idle] /\ s # None /\ s = running[task[r]]
      BY <2>3 DEF StopAgent
    <3>2. CASE op' = op
      BY <1>1, <3>2, OwnPlace
    <3>3. CASE op' # op
      <4>1. PICK s : op' = [op EXCEPT ![Agent(s)] = Idle]
        BY <3>1, <3>3
      <4>2. op' = [p \in Proc |-> op'[p]]
        BY <4>1 DEF HandlerShape
      <4>3. ASSUME NEW u \in Request PROVE op'[Cleanup(u)] = op[Cleanup(u)]
        <5>1. Agent(s) # Cleanup(u)
          BY DEF Agent, Cleanup
        <5>2. QED
          BY <4>1, <5>1, Coroutines DEF HandlerShape
      <4>4. QED
        BY <4>2, <4>3 DEF JoinsNoMore
    <3>4. QED
      BY <3>2, <3>3
  <2>4. CASE Acknowledge(r)
    <3>1. op' = op \/ op' = Woken({r})
      BY <2>4 DEF Acknowledge, TaskDone
    <3>2. QED
      BY <1>1, <3>1, OwnPlace
  <2>5. CASE AcknowledgeLast(r)
    <3>1. PICK zero, o : op' = [Woken(zero) EXCEPT ![Consumer(r)] = o]
      BY <2>5 DEF AcknowledgeLast, CloseNow
    <3>2. QED
      BY <1>1, <3>1, OwnPlace
  <2>6. CASE ConsumerGoes(r)
    <3>1. \/ ResumePut(Consumer(r)) \/ ClearedAll(Consumer(r))
          \/ \E c \in Queue : ClearChild(Consumer(r), c)
      BY <2>6, Coroutines DEF ConsumerGoes
    <3>2. QED
      BY <1>1, <3>1, PutsJoinNothing, ClosesJoinNothing
  <2>7. QED
    BY <2>1, <2>2, <2>3, <2>4, <2>5, <2>6
<1>3. UNCHANGED <<task, taskQueue, running, clean>>
  BY DEF TapTask, ExecutorCancels, StopAgent, TimesOut, Take, Acknowledge, AcknowledgeLast,
         ConsumerGoes, CancelRaises, Answer, requestVars, managerVars
<1>4. /\ agent' \in [Request -> Agents]
      /\ \A s \in Request : agent[s] = "done" => agent'[s] = "done"
  <2>1. \/ agent' = agent
        \/ \E s : agent[s] \in {"runs", "closes"} /\ agent' = [agent EXCEPT ![s] = "cancelled"]
    <3>1. CASE StopAgent(r)
      BY <3>1 DEF StopAgent
    <3>2. CASE ~StopAgent(r)
      BY <3>2 DEF TapTask, ExecutorCancels, TimesOut, Take, Acknowledge, AcknowledgeLast,
                  ConsumerGoes, CancelRaises, Answer, agentVars
    <3>3. QED
      BY <3>1, <3>2
  <2>2. QED
    BY <2>1 DEF HandlerShape, Agents
<1>5. /\ pc' = pc \/ pc' = [pc EXCEPT ![r] = pc'[r]]
      /\ pc'[r] # pc[r] => pc'[r] \in Places \ {"new", "setup"}
      /\ pc[r] \in {"finishing", "failing"} => answer'[r] # None \/ pc'[r] = pc[r]
      /\ answer' = answer \/ answer' = [answer EXCEPT ![r] = answer'[r]]
      /\ answer'[r] # answer[r] => answer'[r] \in Outcomes
  BY HandlerAssumption
     DEF TapTask, ExecutorCancels, StopAgent, TimesOut, Take, Acknowledge, AcknowledgeLast,
         ConsumerGoes, CancelRaises, Answer, requestVars, HandlerShape, Places, Outcomes
<1>6. None \notin Outcomes
  BY HandlerAssumption
<1>7. pc' \in [Request -> Places] /\ answer' \in [Request -> Outcomes \union {None}]
  BY <1>5 DEF HandlerShape
<1>8. ASSUME NEW s \in Request
      PROVE  /\ pc[s] \notin {"new", "setup"} => pc'[s] \notin {"new", "setup"}
             /\ clean'[s] # "none" => answer'[s] # None \/ pc'[s] \in {"finishing", "failing"}
  <2>1. pc'[s] = pc[s] \/ s = r
    BY <1>5 DEF HandlerShape
  <2>2. answer'[s] = answer[s] \/ s = r
    BY <1>5 DEF HandlerShape
  <2>3. QED
    BY <1>3, <1>5, <1>6, <2>1, <2>2 DEF CleanupOnce
<1>9. QED
  BY <1>2, <1>3, <1>4, <1>7, <1>8, HandlerFrame DEF HandlerShape

\* Those at the end of which a cleanup may begin.
LEMMA LoopInv ==
  ASSUME HandlerInv, NEW r \in Request,
         Look(r) \/ FindsClosed(r) \/ Process(r) \/ ProcessFails(r) \/ Disconnect(r)
  PROVE  HandlerInv'
<1>1. Consumer(r) \in Proc /\ \A s \in Request : Consumer(r) # Cleanup(s)
  BY Coroutines
<1>2. op' = op \/ op' = [op EXCEPT ![Consumer(r)] = Idle]
  BY DEF Look, FindsClosed, Process, ProcessFails, Disconnect, queueVars
<1>3. JoinsNoMore
  BY <1>1, <1>2, OwnPlace DEF HandlerInv
<1>4. UNCHANGED <<task, taskQueue, running, agent>>
  BY DEF Look, FindsClosed, Process, ProcessFails, Disconnect, agentVars, managerVars
<1>5. pc[r] \in {"top", "wait", "process"}
  BY DEF Look, FindsClosed, Process, ProcessFails, Disconnect
<1>6. \A e : ResultAfter(r, e) \in Outcomes
  BY DEF ResultAfter, Outcomes
<1>7. CASE \E result \in Outcomes : StreamEnds(r, result)
  BY <1>3, <1>4, <1>5, <1>7, StreamEndsInv
<1>8. CASE ~\E result \in Outcomes : StreamEnds(r, result)
  <2>1. /\ pc' = [pc EXCEPT ![r] = pc'[r]] /\ pc'[r] \in {"wait", "top", "ended"}
        /\ \/ UNCHANGED <<answer, clean>>
           \/ /\ answer[r] = None
              /\ \E a \in Outcomes : answer' = [answer EXCEPT ![r] = a]
              /\ clean' = clean \/ clean' = [clean EXCEPT ![r] = "await"]
    BY <1>6, <1>8 DEF Look, FindsClosed, Process, ProcessFails, Disconnect, Interrupts, Outcomes,
                      HandlerInv, HandlerShape
  <2>2. /\ pc' \in [Request -> Places] /\ clean' \in [Request -> Cleans]
        /\ answer' \in [Request -> Outcomes \union {None}]
    BY <2>1 DEF HandlerInv, HandlerShape, Places, Cleans
  <2>3. None \notin Outcomes
    BY HandlerAssumption
  <2>4. ASSUME NEW s \in Request
        PROVE  /\ pc[s] \notin {"new", "setup"} => pc'[s] \notin {"new", "setup"}
               /\ clean'[s] # clean[s] =>
                    clean[s] = "none" /\ clean'[s] = "await" /\ pc[s] \notin {"new", "setup"}
               /\ clean'[s] # "none" =>
                    answer'[s] # None \/ pc'[s] \in {"finishing", "failing"}
    <3>1. CASE s # r
      BY <2>1, <3>1 DEF HandlerInv, HandlerShape, CleanupOnce
    <3>2. CASE s = r
      BY <1>5, <2>1, <2>3, <3>2 DEF HandlerInv, HandlerShape, CleanupOnce
    <3>3. QED
      BY <3>1, <3>2
  <2>5. QED
    BY <1>3, <1>4, <2>2, <2>4, HandlerFrame DEF HandlerInv, HandlerShape
<1>9. QED
  BY <1>7, <1>8

\* The agent and its close.
LEMMA AgentInv ==
  ASSUME HandlerInv, NEW r \in Request,
         \/ \E e \in AgentEvents : AgentPublishes(r, e)
         \/ AgentStep(r) \/ AgentFails(r)
  PROVE  HandlerInv'
<1>1. Agent(r) \in Proc /\ \A s \in Request : Agent(r) # Cleanup(s)
  BY Coroutines
<1>2. JoinsNoMore
  <2>1. \/ \E q \in Queue, e \in Event : Enqueue(Agent(r), q, e)
        \/ ResumePut(Agent(r)) \/ PutRaises(Agent(r))
        \/ \E c \in Queue : CloseChild(Agent(r), c) \/ StartJoin(Agent(r), c)
        \/ \E q \in Queue : CloseGraceful(Agent(r), q)
        \/ CloseReturns(Agent(r)) \/ UNCHANGED op
    BY HandlerAssumption, Coroutines
       DEF AgentPublishes, AgentStep, AgentReturns, AgentGoes, AgentEnds, AgentFails, queueVars
  <2>2. QED
    BY <1>1, <2>1, PutsJoinNothing, ClosesJoinNothing, OwnPlace DEF HandlerInv
<1>3. UNCHANGED <<pc, answer, task, clean, taskQueue, running>>
  BY DEF AgentPublishes, AgentStep, AgentReturns, AgentGoes, AgentEnds, AgentFails, requestVars,
         agentVars, managerVars
<1>4. \/ agent' = agent
      \/ \E a \in Agents : agent' = [agent EXCEPT ![r] = a] /\ (agent[r] = "runs" \/ a = "done")
  BY DEF AgentPublishes, AgentStep, AgentReturns, AgentGoes, AgentEnds, AgentFails, agentVars, Agents
<1>5. /\ agent' \in [Request -> Agents]
      /\ \A s \in Request : agent[s] = "done" => agent'[s] = "done"
  BY <1>4 DEF HandlerInv, HandlerShape
<1>6. QED
  BY <1>2, <1>3, <1>5, HandlerFrame DEF HandlerInv, HandlerShape, CleanupOnce

\* Every step of a request, an agent or a cleanup keeps the invariant.
LEMMA HandlerStepInv ==
  ASSUME HandlerInv, [HandlerNext]_vars
  PROVE  HandlerInv'
<1>1. ASSUME NEW r \in Request, HandlerStep(r) PROVE HandlerInv'
  BY <1>1, CreateOrTapInv, ConsumerInv, LoopInv DEF HandlerStep
<1>2. ASSUME NEW r \in Request, CleanupStep(r) PROVE HandlerInv'
  BY <1>2, CleanUpInv, CleanupGoesInv, CleanupEndsInv DEF CleanupStep
<1>3. CASE UNCHANGED vars
  <2>1. UNCHANGED <<op, pc, clean, agent, answer, task, taskQueue, running>>
    BY <1>3 DEF vars, queueVars, requestVars, agentVars, managerVars
  <2>2. HandlerShape'
    BY <2>1 DEF HandlerInv, HandlerShape
  <2>3. OwnEntries' /\ CleanupOnce'
    BY <2>1 DEF HandlerInv, OwnEntries, CleanupOnce
  <2>4. TakenOut' /\ CleanupJoins'
    BY <2>1 DEF HandlerInv, TakenOut, CleanupJoins
  <2>5. QED
    BY <2>2, <2>3, <2>4 DEF HandlerInv
<1>4. QED
  BY <1>1, <1>2, <1>3, ReceiveInv, LoopInv, AgentInv DEF HandlerNext

\* Whatever requests on a task do to each other, and whatever fails, a cleanup that
\* succeeds leaves nothing of its request registered or at work.
THEOREM CleanupsLeaveNothing == HandlerSpec => []NothingOutlivesCleanup
<1>1. HandlerInv => NothingOutlivesCleanup
  BY DEF HandlerInv, TakenOut, NothingOutlivesCleanup
<1>2. QED
  BY HandlerInitInv, HandlerStepInv, <1>1, PTL DEF HandlerSpec

-----------------------------------------------------------------------------
(* Sends that take turns: a client sends to a task when its last send is   *)
(* dealt with, and nobody resubscribes or cancels.                         *)

OneByOne == TakeTurns /\ Kinds \subseteq Senders

TurnShape ==
  /\ kind \in [Request -> Senders \union {None}]
  /\ ev \in [Request -> EventKind \union {None}]
  /\ said \in [Request -> EventKind \union {None}]
  /\ stored \in [Task -> EventKind \union {Absent}]
  /\ buf \in [Queue -> Seq(Event)]
  /\ children \in [Queue -> Seq(Queue)]
  /\ closed \in [Queue -> BOOLEAN]

InLoop(r) == pc[r] \in {"top", "wait", "got", "process"}

\* A request that has not been set up has done nothing; one without an agent was
\* refused; one with an agent has a cleanup once it is answered.
Stages ==
  \A r \in Request :
    /\ pc[r] \notin {"cancel", "stop"}
    /\ pc[r] # "new" => kind[r] \in Senders /\ task[r] \in Task
    /\ pc[r] \in {"new", "setup"} =>
         /\ agent[r] = "none" /\ answer[r] = None /\ said[r] = None
         /\ r \notin created /\ ~closed[r] /\ buf[r] = <<>>
    /\ agent[r] = "none" /\ pc[r] \notin {"new", "setup"} =>
         pc[r] = "ended" /\ clean[r] = "none"
    /\ agent[r] # "none" =>
         /\ r \in created
         /\ answer[r] # None \/ pc[r] \in {"finishing", "failing", "ended"} =>
              clean[r] # "none"
    /\ pc[r] \in {"got", "process"} => ev[r] \in EventKind
    /\ agent[r] # "cancelled"
    /\ clean[r] = "raised" => agent[r] = "failed"

\* A coroutine waits in calls of its own queue only, the cleanup in those of a
\* queue of its task; no consumer has taps to clear.
Joins(p) == op[p] = JoinOp(op[p].q, op[p].shut, op[p].start, op[p].wait)

\* What a coroutine of r may write in its own place.
AgentPlace(r) ==
  /\ op[Agent(r)].kind \in {"idle", "put", "join"}
  /\ op[Agent(r)].kind = "put" =>
       /\ agent[r] = "runs" /\ op[Agent(r)].ev \in Event
       /\ op[Agent(r)] = PutOp(r, 1, op[Agent(r)].ev)
  /\ op[Agent(r)].kind = "join" =>
       agent[r] = "closes" /\ Joins(Agent(r)) /\ op[Agent(r)].shut = {}

CleanupPlace(r) ==
  /\ op[Cleanup(r)].kind \in {"idle", "join"}
  /\ op[Cleanup(r)].kind = "join" =>
       /\ Joins(Cleanup(r))
       /\ \A c \in op[Cleanup(r)].shut :
            c \in Request /\ c \in created /\ task[c] = task[r]

OwnCalls ==
  \A r \in Request :
    op[Consumer(r)].kind = "idle" /\ AgentPlace(r) /\ CleanupPlace(r)

\* Only the queue of a request that is dealt with is tapped, by one on its task.
TapsLater ==
  \A q \in Queue : \A c \in Kids(q) :
    c \in Request /\ c \in created /\ task[c] = task[q] /\ Finished(q)

InTurn ==
  \A r, s \in Request :
    r # s /\ task[r] = task[s] /\ pc[r] # "new" /\ pc[s] # "new" => Finished(r) \/ Finished(s)

\* The task of a request that is not dealt with has a queue, until its cleanup
\* takes it.
Registered ==
  \A r \in Request :
    agent[r] # "none" /\ clean[r] \in {"none", "await"} => taskQueue[task[r]] # None

\* A request at work is on a task that has not come to its end.
EndsTask(e) == e.state \in Terminal /\ Final(e)
NotOver ==
  \A r \in Request : InLoop(r) \/ pc[r] = "setup" => ~EndsTask(stored[task[r]])

TurnInv == TurnShape /\ Stages /\ OwnCalls /\ TapsLater /\ InTurn /\ Registered /\ NotOver

\* What a step leaves of the call of p.
SameCall(p) ==
  /\ op'[p].kind = op[p].kind
  /\ op[p].kind = "put" => op'[p] = op[p]
  /\ op[p].kind = "join" /\ Joins(p) => Joins(p)' /\ op'[p].q = op[p].q /\ op'[p].shut = op[p].shut

\* The coroutines of requests are different.
LEMMA Apart ==
  /\ \A r \in Request : Consumer(r) \in Proc /\ Agent(r) \in Proc /\ Cleanup(r) \in Proc
  /\ \A r, s \in Request :
       Consumer(r) # Agent(s) /\ Consumer(r) # Cleanup(s) /\ Agent(r) # Cleanup(s)
  /\ \A r, s \in Request :
       r # s => Agent(r) # Agent(s) /\ Cleanup(r) # Cleanup(s) /\ Consumer(r) # Consumer(s)
BY HandlerAssumption DEF Coroutine, Consumer, Agent, Cleanup

\* Being woken leaves a call what it is.
LEMMA WokenSame ==
  ASSUME NEW p \in Proc, NEW zero, op'[p] = Woken(zero)[p] \/ op'[p] = op[p]
  PROVE  SameCall(p)
<1>1. CASE op'[p] = op[p]
  BY <1>1 DEF SameCall, Joins
<1>2. CASE op'[p] = Woken(zero)[p] /\ op[p].kind # "join"
  BY <1>1, <1>2 DEF Woken
<1>3. CASE op'[p] = Woken(zero)[p] /\ op[p].kind = "join"
  <2> DEFINE w == op[p].wait \ zero
  <2>1. op'[p] = [op[p] EXCEPT !.wait = w]
    BY <1>3 DEF Woken
  <2>2. op'[p].kind = "join"
    BY <1>3, <2>1
  <2>3. ASSUME Joins(p)
        PROVE  op'[p] = JoinOp(op[p].q, op[p].shut, op[p].start, w)
    BY <2>1, <2>3 DEF Joins, JoinOp
  <2>4. QED
    BY <1>3, <2>2, <2>3 DEF SameCall, Joins, JoinOp
<1>4. QED
  BY <1>1, <1>2, <1>3

\* A request that waits for its turn is alone on its task.
LEMMA NoTaps ==
  ASSUME TurnInv, NEW r \in Request, ~Finished(r)
  PROVE  Kids(r) = {}
BY Coroutines DEF TurnInv, TapsLater

\* Whoever is dealt with is at rest.
LEMMA FinishedRests ==
  ASSUME HandlerInv, TurnInv, NEW r \in Request, Finished(r)
  PROVE  /\ agent[r] \in {"none", "done", "failed"}
         /\ op[Agent(r)].kind = "idle" /\ op[Cleanup(r)].kind = "idle"
<1>1. agent[r] \in {"none", "done", "failed"}
  BY DEF HandlerInv, TakenOut, TurnInv, Stages, Finished
<1>2. op[Agent(r)].kind = "idle"
  BY <1>1 DEF TurnInv, OwnCalls, AgentPlace
<1>3. op[Cleanup(r)].kind = "idle"
  BY DEF HandlerInv, CleanupJoins, TurnInv, OwnCalls, CleanupPlace, Finished
<1>4. QED
  BY <1>1, <1>2, <1>3

\* A step of the loop of r, or its answer.
LoopFrame(r) ==
  /\ InLoop(r) \/ pc[r] \in {"finishing", "failing"}
  /\ UNCHANGED <<kind, task, agent, said, taskQueue, created, children>>
  /\ \A p \in Proc : SameCall(p)
  /\ pc'[r] \in {"got", "process"} => ev'[r] \in EventKind
  /\ \A s \in Request \ {r} :
       /\ pc'[s] = pc[s] /\ ev'[s] = ev[s] /\ answer'[s] = answer[s] /\ clean'[s] = clean[s]
       /\ buf'[s] = buf[s] /\ closed'[s] = closed[s]
  /\ pc'[r] \in {"top", "wait", "got", "process", "finishing", "failing", "ended"}
  /\ InLoop(r)' => InLoop(r)
  /\ answer'[r] # None \/ pc'[r] \in {"finishing", "failing", "ended"} => clean'[r] # "none"
  /\ clean'[r] = clean[r] \/ (clean[r] = "none" /\ clean'[r] = "await")
  /\ \A t \in Task : \/ stored'[t] = stored[t]
                     \/ t = task[r] /\ (~EndsTask(stored'[t]) \/ ~InLoop(r)')

LEMMA LoopTurn ==
  ASSUME HandlerInv, TurnInv, TurnShape', NEW r \in Request, LoopFrame(r)
  PROVE  TurnInv'
<1> USE DEF TurnInv, LoopFrame
<1>1. pc[r] \notin {"new", "setup", "ended"} /\ ~Finished(r)
  BY DEF InLoop, Finished
<1>2. \A s \in Request : Finished(s) => Finished(s)'
  BY <1>1 DEF Finished
<1>3. Stages'
  BY <1>1 DEF Stages
<1>4. OwnCalls'
  <2>1. \A s \in Request : SameCall(Consumer(s)) /\ SameCall(Agent(s)) /\ SameCall(Cleanup(s))
    BY Coroutines
  <2>2. QED
    BY <2>1 DEF OwnCalls, AgentPlace, CleanupPlace, SameCall
<1>5. TapsLater'
  BY <1>2, Coroutines DEF TapsLater, Kids
<1>6. InTurn'
  BY <1>1, <1>2 DEF InTurn
<1>7. Registered'
  BY DEF Registered
<1>8. NotOver'
  <2> SUFFICES ASSUME NEW s \in Request, InLoop(s)' \/ pc'[s] = "setup"
               PROVE  ~EndsTask(stored'[task[s]])
    BY DEF NotOver
  <2>1. CASE s = r
    BY <1>1, <2>1 DEF NotOver, Stages
  <2>2. CASE s # r
    <3>1. (InLoop(s) \/ pc[s] = "setup") /\ pc[s] # "ended"
      BY <2>2 DEF InLoop
    <3>2. task[s] # task[r] /\ task[s] \in Task
      BY <1>1, <2>2, <3>1 DEF InTurn, Finished, Stages, InLoop
    <3>3. QED
      BY <3>1, <3>2 DEF NotOver
  <2>3. QED
    BY <2>1, <2>2
<1>9. QED
  BY <1>3, <1>4, <1>5, <1>6, <1>7, <1>8

\* A step of the agent of r.
AgentFrame(r) ==
  /\ agent[r] \in {"runs", "closes"} /\ agent'[r] \in {"runs", "closes", "done", "failed"}
  /\ UNCHANGED <<kind, task, pc, ev, answer, clean, taskQueue, created, children, stored>>
  /\ \A s \in Request \ {r} :
       /\ agent'[s] = agent[s] /\ said'[s] = said[s]
       /\ buf'[s] = buf[s] /\ closed'[s] = closed[s]
  /\ \A p \in Proc \ {Agent(r)} : SameCall(p)
  /\ AgentPlace(r)'

LEMMA AgentTurn ==
  ASSUME HandlerInv, TurnInv, TurnShape', NEW r \in Request, AgentFrame(r)
  PROVE  TurnInv'
<1> USE DEF TurnInv, AgentFrame
<1>1. pc[r] \notin {"new", "setup"} /\ ~Finished(r)
  BY FinishedRests DEF Stages
<1>2. Stages'
  <2>1. clean[r] # "raised"
    BY DEF Stages
  <2>2. QED
    BY <1>1, <2>1 DEF Stages
<1>3. OwnCalls'
  <2>1. \A s \in Request : SameCall(Consumer(s)) /\ SameCall(Cleanup(s))
    BY Apart
  <2>2. \A s \in Request \ {r} : SameCall(Agent(s))
    BY Apart
  <2>3. \A s \in Request \ {r} : OwnCalls => AgentPlace(s)'
    BY <2>2 DEF OwnCalls, AgentPlace, SameCall
  <2>4. \A s \in Request : AgentPlace(s)'
    BY <2>3
  <2>5. QED
    BY <2>1, <2>4 DEF OwnCalls, CleanupPlace, SameCall
<1>4. TapsLater' /\ InTurn' /\ Registered' /\ NotOver'
  <2>1. \A s \in Request : Finished(s)' = Finished(s)
    BY DEF Finished
  <2>2. TapsLater'
    BY <2>1, Coroutines DEF TapsLater, Kids
  <2>3. InTurn' /\ NotOver'
    BY <2>1 DEF InTurn, NotOver, InLoop
  <2>4. Registered'
    BY DEF Registered
  <2>5. QED
    BY <2>2, <2>3, <2>4
<1>5. QED
  BY <1>2, <1>3, <1>4

\* A step of the cleanup of r.
CleanupFrame(r) ==
  /\ clean[r] \in {"await", "closes"} /\ clean'[r] \in {"closes", "done", "raised"}
  /\ clean'[r] = "raised" => agent[r] = "failed"
  /\ UNCHANGED <<kind, task, pc, ev, answer, agent, said, buf, created, children, stored>>
  /\ \A s \in Request \ {r} : clean'[s] = clean[s]
  /\ \A s \in Request :
       \/ closed'[s] = closed[s]
       \/ pc[s] \notin {"new", "setup"} /\ task[s] = task[r] /\ agent[r] = "done"
  /\ \A t \in Task \ {task[r]} : taskQueue'[t] = taskQueue[t]
  /\ \A p \in Proc \ {Cleanup(r)} : SameCall(p)
  /\ CleanupPlace(r)'

LEMMA CleanupTurn ==
  ASSUME HandlerInv, TurnInv, TurnShape', NEW r \in Request, CleanupFrame(r)
  PROVE  TurnInv'
<1> USE DEF TurnInv, CleanupFrame
<1>1. ~Finished(r) /\ pc[r] \notin {"new", "setup"} /\ agent[r] # "none"
  BY DEF Finished, HandlerInv, CleanupOnce, Stages
<1>2. \A s \in Request : Finished(s) => Finished(s)'
  BY <1>1 DEF Finished
<1>3. Stages'
  BY <1>1 DEF Stages
<1>4. OwnCalls'
  <2>1. \A s \in Request : SameCall(Consumer(s)) /\ SameCall(Agent(s))
    BY Apart
  <2>2. \A s \in Request \ {r} : SameCall(Cleanup(s))
    BY Apart
  <2>3. \A s \in Request \ {r} : CleanupPlace(s)'
    BY <2>2 DEF OwnCalls, CleanupPlace, SameCall
  <2>4. \A s \in Request : CleanupPlace(s)'
    BY <2>3
  <2>5. QED
    BY <2>1, <2>4 DEF OwnCalls, SameCall, AgentPlace
<1>5. TapsLater'
  BY <1>2, Coroutines DEF TapsLater, Kids
<1>6. InTurn'
  BY <1>2 DEF InTurn
<1>7. NotOver'
  BY DEF NotOver, InLoop
<1>8. Registered'
  <2> SUFFICES ASSUME NEW s \in Request, agent[s] # "none", clean'[s] \in {"none", "await"}
               PROVE  taskQueue'[task[s]] # None
    BY DEF Registered
  <2>1. s # r /\ clean[s] \in {"none", "await"} /\ pc[s] \notin {"new", "setup"}
    BY DEF Stages
  <2>2. ~Finished(s)
    BY <2>1 DEF Stages, Finished
  <2>3. task[s] \in Task \ {task[r]}
    BY <1>1, <2>1, <2>2 DEF InTurn, Stages
  <2>4. QED
    BY <2>1, <2>3 DEF Registered
<1>9. QED
  BY <1>3, <1>4, <1>5, <1>6, <1>7, <1>8

-----------------------------------------------------------------------------
(* The steps of requests that take turns.                                  *)

\* Nothing has come in at first.
LEMMA TurnInit == HandlerInit => TurnInv
<1> SUFFICES ASSUME HandlerInit PROVE TurnInv
  OBVIOUS
<1> USE HandlerAssumption DEF HandlerInit, QueueInit
<1>1. TurnShape
  BY DEF TurnShape, Request
<1>2. Stages /\ InTurn /\ Registered /\ NotOver
  BY DEF Stages, InTurn, Registered, NotOver, InLoop, Request
<1>3. OwnCalls
  BY Apart DEF OwnCalls, AgentPlace, CleanupPlace, Idle
<1>4. TapsLater
  BY DEF TapsLater, Kids
<1>5. QED
  BY <1>1, <1>2, <1>3, <1>4 DEF TurnInv

\* A request comes in when the last send to its task is dealt with.
LEMMA ReceiveTurn ==
  ASSUME OneByOne, HandlerInv, TurnInv, NEW r \in Request, NEW k \in Kinds, NEW t \in Task,
         Receive(r, k, t)
  PROVE  TurnInv'
<1> USE DEF TurnInv
<1>1. /\ pc[r] = "new" /\ clean[r] = "none" /\ k \in Senders /\ MyTurn(t)
      /\ kind' = [kind EXCEPT ![r] = k] /\ task' = [task EXCEPT ![r] = t]
      /\ UNCHANGED <<queueVars, ev, agentVars, clean, managerVars, stored>>
  BY DEF Receive, OneByOne, HandlerInv, CleanupOnce
<1>2. /\ \A s \in Request \ {r} : pc'[s] = pc[s] /\ answer'[s] = answer[s] /\ task'[s] = task[s]
      /\ task'[r] = t /\ kind'[r] = k
      /\ \/ pc'[r] = "setup" /\ answer'[r] = answer[r] /\ Accepts(k, t)
         \/ pc'[r] = "ended"
  BY <1>1 DEF Receive, HandlerInv, HandlerShape, TurnShape
<1>3. ~Finished(r) /\ \A s \in Request : Finished(s) => Finished(s)'
  BY <1>1, <1>2 DEF Finished
<1>4. TurnShape'
  BY <1>1 DEF TurnShape, queueVars, agentVars
<1>5. Stages'
  BY <1>1, <1>2 DEF Stages, TurnShape, queueVars, agentVars
<1>6. r \notin created
  BY <1>1 DEF Stages
<1>7. OwnCalls'
  <2>1. \A s \in Request : op[Cleanup(s)].kind = "join" => s # r
    BY <1>1 DEF HandlerInv, CleanupJoins
  <2>2. QED
    BY <1>1, <1>2, <1>6, <2>1 DEF OwnCalls, AgentPlace, CleanupPlace, Joins, queueVars, agentVars
<1>8. TapsLater'
  BY <1>1, <1>2, <1>3, <1>6, Coroutines DEF TapsLater, Kids, queueVars
<1>9. InTurn'
  <2> SUFFICES ASSUME NEW s \in Request, NEW u \in Request, s # u, task'[s] = task'[u],
                      pc'[s] # "new", pc'[u] # "new"
               PROVE  Finished(s)' \/ Finished(u)'
    BY DEF InTurn
  <2>1. \A v \in Request \ {r} : task[v] = t /\ pc[v] # "new" => Finished(v)
    BY <1>1 DEF MyTurn, Stages
  <2>2. QED
    BY <1>2, <1>3, <2>1 DEF InTurn
<1>10. Registered'
  BY <1>1, <1>2 DEF Registered, Stages, agentVars, managerVars
<1>11. NotOver'
  <2>1. Accepts(k, t) => ~EndsTask(stored[t])
    BY EventsAre DEF Accepts, Fresh, EndsTask
  <2>2. QED
    BY <1>1, <1>2, <2>1 DEF NotOver, InLoop
<1>12. QED
  BY <1>4, <1>5, <1>7, <1>8, <1>9, <1>10, <1>11

\* Its queue is made, or tapped from one that is dealt with.
LEMMA CreateOrTapTurn ==
  ASSUME HandlerInv, TurnInv, NEW r \in Request, CreateOrTap(r)
  PROVE  TurnInv'
<1> USE DEF TurnInv
<1> DEFINE t == task[r]
           q == taskQueue[t]
<1>1. /\ pc[r] = "setup" /\ t \in Task /\ clean[r] = "none"
      /\ pc' = [pc EXCEPT ![r] = "top"] /\ agent' = [agent EXCEPT ![r] = "runs"]
      /\ created' = created \union {r}
      /\ UNCHANGED <<kind, task, ev, answer, said, clean, stored, op, buf, closed>>
  BY DEF CreateOrTap, Create, Tap, Stages, HandlerInv, CleanupOnce
<1>2. \/ q = None /\ taskQueue' = [taskQueue EXCEPT ![t] = r] /\ children' = children
      \/ /\ q # None /\ taskQueue' = taskQueue
         /\ children' = [children EXCEPT ![q] = Append(@, r)]
  BY DEF CreateOrTap, Create, Tap
<1>3. \A s \in Request \ {r} : pc'[s] = pc[s] /\ agent'[s] = agent[s]
  BY <1>1 DEF HandlerInv, HandlerShape
<1>4. pc'[r] = "top" /\ agent'[r] = "runs"
  BY <1>1 DEF HandlerInv, HandlerShape
<1>5. ~Finished(r) /\ \A s \in Request : Finished(s) => Finished(s)'
  BY <1>1, <1>3 DEF Finished
<1>6. q # None => q \in Request /\ task[q] = t /\ Finished(q)
  <2>1. q # None => q \in Request /\ task[q] = t /\ pc[q] \notin {"new", "setup"}
    BY <1>1 DEF HandlerInv, HandlerShape, OwnEntries
  <2>2. QED
    BY <1>1, <1>5, <2>1 DEF InTurn
<1>7. TurnShape'
  <2>1. children' \in [Queue -> Seq(Queue)]
    <3>1. CASE q = None
      BY <1>2, <3>1 DEF TurnShape
    <3>2. CASE q # None
      <4>1. q \in Queue /\ r \in Queue
        BY <1>6, <3>2, Coroutines
      <4>2. children[q] \in Seq(Queue) /\ Append(children[q], r) \in Seq(Queue)
        BY <4>1 DEF TurnShape
      <4>3. QED
        BY <1>2, <3>2, <4>1, <4>2 DEF TurnShape
    <3>3. QED
      BY <3>1, <3>2
  <2>2. QED
    BY <1>1, <2>1 DEF TurnShape
<1>8. Stages'
  BY <1>1, <1>3, <1>4 DEF Stages
<1>9. OwnCalls'
  <2>1. op[Agent(r)].kind = "idle"
    BY <1>1 DEF OwnCalls, AgentPlace, Stages
  <2>2. QED
    BY <1>1, <1>3, <2>1 DEF OwnCalls, AgentPlace, CleanupPlace, Joins
<1>10. TapsLater'
  <2>1. ASSUME NEW p \in Queue, NEW c \in Kids(p)'
        PROVE  c \in Kids(p) \/ (c = r /\ p = q /\ q # None)
    <3>1. CASE q = None \/ p # q
      BY <1>2, <1>6, <3>1, Coroutines DEF Kids, TurnShape
    <3>2. CASE q # None /\ p = q
      <4>1. children[q] \in Seq(Queue)
        BY <3>2 DEF TurnShape
      <4>2. children'[q] = Append(children[q], r)
        BY <1>2, <3>2 DEF TurnShape
      <4>3. QED
        BY <3>2, <4>1, <4>2 DEF Kids
    <3>3. QED
      BY <3>1, <3>2
  <2>2. QED
    BY <1>1, <1>5, <1>6, <2>1, Coroutines DEF TapsLater
<1>11. InTurn'
  BY <1>1, <1>3, <1>5 DEF InTurn
<1>12. Registered'
  <2>1. None \notin Request
    BY HandlerAssumption
  <2>2. taskQueue'[t] # None /\ \A u \in Task : taskQueue[u] # None => taskQueue'[u] # None
    BY <1>1, <1>2, <2>1 DEF HandlerInv, HandlerShape
  <2>3. QED
    BY <1>1, <1>3, <2>2 DEF Registered, Stages
<1>13. NotOver'
  BY <1>1, <1>3 DEF NotOver, InLoop
<1>14. QED
  BY <1>7, <1>8, <1>9, <1>10, <1>11, <1>12, <1>13

\* What the end of a stream does.
LEMMA StreamEndsTurn ==
  ASSUME HandlerInv, TurnInv, NEW r \in Request, NEW result, StreamEnds(r, result),
         InLoop(r), kind[r] \in Senders
  PROVE  /\ \A s \in Request \ {r} :
              pc'[s] = pc[s] /\ answer'[s] = answer[s] /\ clean'[s] = clean[s]
         /\ pc'[r] \in {"finishing", "failing", "ended"} /\ clean'[r] # "none"
         /\ clean'[r] = clean[r] \/ (clean[r] = "none" /\ clean'[r] = "await")
<1>1. agent[r] # "none" /\ (answer[r] # None => clean[r] # "none")
  BY DEF TurnInv, Stages, InLoop
<1>2. answer[r] = None => clean[r] = "none"
  BY DEF HandlerInv, CleanupOnce, InLoop
<1>3. QED
  BY <1>1, <1>2 DEF StreamEnds, HandlerInv, HandlerShape, Senders

\* The steps of the loop leave the calls of the others, and their requests, alone.
LEMMA LoopStepTurn ==
  ASSUME HandlerInv, TurnInv, NEW r \in Request,
         \/ Look(r) \/ TimesOut(r) \/ Take(r) \/ FindsClosed(r)
         \/ Acknowledge(r) \/ AcknowledgeLast(r) \/ Process(r) \/ ProcessFails(r)
         \/ Disconnect(r) \/ Answer(r)
  PROVE  LoopFrame(r) /\ TurnInv'
<1>1. /\ InLoop(r) \/ pc[r] \in {"finishing", "failing"}
      /\ ~Answer(r) => InLoop(r)
  BY DEF InLoop, Look, TimesOut, Take, FindsClosed, Acknowledge, AcknowledgeLast, Process,
         ProcessFails, Disconnect, Answer
<1>2. ~Finished(r) /\ kind[r] \in Senders /\ task[r] \in Task /\ agent[r] # "none"
  BY <1>1 DEF Finished, InLoop, TurnInv, Stages
<1>3. UNCHANGED <<kind, task, agent, said, taskQueue, created, children>>
  BY DEF Look, TimesOut, Take, FindsClosed, Acknowledge, AcknowledgeLast, Process, ProcessFails,
         Disconnect, Answer, Dequeue, TaskDone, queueVars, agentVars, managerVars
<1>4. \A p \in Proc : SameCall(p)
  <2>1. CASE UNCHANGED op
    BY <2>1 DEF SameCall, Joins
  <2>2. ASSUME NEW zero, op' = Woken(zero) PROVE \A p \in Proc : SameCall(p)
    BY <2>2, WokenSame
  <2>3. CASE AcknowledgeLast(r) \/ Disconnect(r)
    <3>1. op[Consumer(r)].kind = "idle" /\ Kids(r) = {} /\ Consumer(r) \in Proc
      BY <1>2, NoTaps, Apart DEF TurnInv, OwnCalls
    <3>2. PICK zero : \/ op' = [Woken(zero) EXCEPT ![Consumer(r)] = Idle]
                      \/ op' = [op EXCEPT ![Consumer(r)] = Idle]
      BY <2>3, <3>1 DEF AcknowledgeLast, CloseNow, Disconnect
    <3>3. op'[Consumer(r)] = Idle
      BY <3>1, <3>2 DEF Woken, HandlerInv, HandlerShape
    <3>4. \A p \in Proc \ {Consumer(r)} : op'[p] = Woken(zero)[p] \/ op'[p] = op[p]
      BY <3>2 DEF Woken, HandlerInv, HandlerShape
    <3>5. SameCall(Consumer(r))
      BY <3>1, <3>3 DEF SameCall, Idle
    <3>6. QED
      BY <3>4, <3>5, WokenSame
  <2>4. QED
    BY <2>1, <2>2, <2>3 DEF Look, TimesOut, Take, FindsClosed, Acknowledge, Process, ProcessFails,
                            Answer, Dequeue, TaskDone, queueVars
<1>5. /\ \A s \in Request \ {r} :
           pc'[s] = pc[s] /\ answer'[s] = answer[s] /\ clean'[s] = clean[s]
      /\ pc'[r] \in {"top", "wait", "got", "process", "finishing", "failing", "ended"}
      /\ InLoop(r)' => InLoop(r)
      /\ answer'[r] # None \/ pc'[r] \in {"finishing", "failing", "ended"} => clean'[r] # "none"
      /\ clean'[r] = clean[r] \/ (clean[r] = "none" /\ clean'[r] = "await")
  <2>1. CASE (\E result : StreamEnds(r, result)) /\ InLoop(r)
    <3>1. ~InLoop(r)'
      BY <1>2, <2>1, StreamEndsTurn DEF InLoop
    <3>2. QED
      BY <1>2, <2>1, <3>1, StreamEndsTurn
  <2>2. CASE Answer(r)
    BY <2>2, HandlerAssumption DEF Answer, HandlerInv, HandlerShape, InLoop
  <2>3. CASE ~((\E result : StreamEnds(r, result)) /\ InLoop(r)) /\ ~Answer(r)
    <3>1. answer[r] = None => clean[r] = "none"
      BY <1>1, <2>3 DEF HandlerInv, CleanupOnce, InLoop
    <3>2. answer[r] # None => clean[r] # "none"
      BY <1>2 DEF TurnInv, Stages
    <3>3. kind[r] # "resubscribe" /\ InLoop(r)
      BY <1>1, <1>2, <2>3 DEF Senders
    <3>4. /\ pc' = [pc EXCEPT ![r] = pc'[r]]
          /\ pc'[r] \in {"top", "wait", "got", "process", "ended"}
          /\ \/ UNCHANGED <<answer, clean>> /\ pc'[r] # "ended"
             \/ /\ answer[r] = None
                /\ answer' = [answer EXCEPT ![r] = answer'[r]]
                /\ clean' = [clean EXCEPT ![r] = "await"]
      BY <2>3, <3>3 DEF Look, TimesOut, Take, FindsClosed, Acknowledge, AcknowledgeLast, Process,
           ProcessFails, Disconnect, Interrupts, HandlerInv, HandlerShape
    <3>5. /\ \A s \in Request \ {r} :
               pc'[s] = pc[s] /\ answer'[s] = answer[s] /\ clean'[s] = clean[s]
          /\ \/ UNCHANGED <<answer, clean>> /\ pc'[r] # "ended"
             \/ answer[r] = None /\ clean'[r] = "await"
      BY <3>4 DEF HandlerInv, HandlerShape
    <3>6. QED
      BY <3>1, <3>2, <3>3, <3>4, <3>5
  <2>4. QED
    BY <2>1, <2>2, <2>3
<1>6. \A s \in Request \ {r} : buf'[s] = buf[s] /\ closed'[s] = closed[s] /\ ev'[s] = ev[s]
  BY Coroutines
     DEF Look, TimesOut, Take, FindsClosed, Acknowledge, AcknowledgeLast, Process, ProcessFails,
         Disconnect, Answer, Dequeue, TaskDone, CloseNow, queueVars, TurnInv, TurnShape
<1>7. /\ \A t \in Task : \/ stored'[t] = stored[t]
                         \/ t = task[r] /\ (~EndsTask(stored'[t]) \/ ~InLoop(r)')
      /\ stored' \in [Task -> EventKind \union {Absent}]
  <2>1. CASE ~Process(r)
    BY <2>1 DEF Look, TimesOut, Take, FindsClosed, Acknowledge, AcknowledgeLast, ProcessFails,
                Disconnect, Answer, TurnInv, TurnShape
  <2>2. CASE Process(r)
    <3>1. ev[r] \in EventKind
      BY <2>2 DEF Process, TurnInv, Stages
    <3>2. stored' = stored \/ stored' = [stored EXCEPT ![task[r]] = ev[r]]
      BY <2>2 DEF Process
    <3>3. EndsTask(ev[r]) => ~InLoop(r)'
      <4>1. ASSUME NEW result, StreamEnds(r, result) PROVE ~InLoop(r)'
        BY <1>1, <1>2, <2>2, <4>1, StreamEndsTurn DEF InLoop, Process
      <4>2. EndsTask(ev[r]) => Final(ev[r])
        BY DEF EndsTask
      <4>3. QED
        BY <2>2, <4>1, <4>2 DEF Process, InLoop, HandlerInv, HandlerShape
    <3>4. QED
      BY <3>1, <3>2, <3>3 DEF TurnInv, TurnShape
  <2>3. QED
    BY <2>1, <2>2
<1>8. /\ buf' \in [Queue -> Seq(Event)] /\ closed' \in [Queue -> BOOLEAN]
      /\ ev' \in [Request -> EventKind \union {None}]
      /\ pc'[r] \in {"got", "process"} => ev'[r] \in EventKind
  <2>1. CASE Take(r)
    <3>1. buf[r] \in Seq(Event) /\ buf[r] # <<>> /\ Event = EventKind
      BY <2>1, HandlerAssumption, Coroutines DEF Take, Dequeue, TurnInv, TurnShape
    <3>2. Head(buf[r]) \in EventKind /\ Tail(buf[r]) \in Seq(Event)
      BY <3>1
    <3>3. QED
      BY <2>1, <3>2 DEF Take, Dequeue, TurnInv, TurnShape
  <2>2. CASE ~Take(r)
    <3>1. ev' = ev /\ (pc'[r] \in {"got", "process"} => pc[r] \in {"got", "process"})
      <4>1. ev' = ev
        BY <2>2 DEF Look, TimesOut, FindsClosed, Acknowledge, AcknowledgeLast, Process,
                    ProcessFails, Disconnect, Answer
      <4>2. CASE (\E result : StreamEnds(r, result)) /\ InLoop(r)
        BY <1>2, <4>1, <4>2, StreamEndsTurn
      <4>3. CASE ~((\E result : StreamEnds(r, result)) /\ InLoop(r))
        BY <1>1, <2>2, <4>1, <4>3
           DEF Look, TimesOut, FindsClosed, Acknowledge, AcknowledgeLast, Process, ProcessFails,
               Disconnect, Answer, HandlerInv, HandlerShape
      <4>4. QED
        BY <4>1, <4>2, <4>3
    <3>2. buf' = buf \/ buf' = [buf EXCEPT ![r] = <<>>]
      BY <2>2 DEF Look, TimesOut, FindsClosed, Acknowledge, AcknowledgeLast, Process, CloseNow,
                  ProcessFails, Disconnect, Answer, TaskDone, queueVars
    <3>3. closed' = closed \/ closed' = [closed EXCEPT ![r] = TRUE]
      BY <2>2 DEF Look, TimesOut, FindsClosed, Acknowledge, AcknowledgeLast, Process, CloseNow,
                  ProcessFails, Disconnect, Answer, TaskDone, queueVars
    <3>4. buf' \in [Queue -> Seq(Event)]
      <4>1. <<>> \in Seq(Event)
        OBVIOUS
      <4>2. QED
        BY <3>2, <4>1 DEF TurnInv, TurnShape
    <3>5. closed' \in [Queue -> BOOLEAN]
      BY <3>3 DEF TurnInv, TurnShape
    <3>6. QED
      BY <3>1, <3>4, <3>5 DEF TurnInv, TurnShape, Stages
  <2>3. QED
    BY <2>1, <2>2
<1>9. TurnShape'
  BY <1>3, <1>7, <1>8 DEF TurnInv, TurnShape
<1>10. LoopFrame(r)
  BY <1>1, <1>2, <1>3, <1>4, <1>5, <1>6, <1>7, <1>8 DEF LoopFrame
<1>11. QED
  BY <1>9, <1>10, LoopTurn

\* An agent at work publishes to its own queue, which has no taps yet.
LEMMA SoleTarget ==
  ASSUME TurnInv, NEW r \in Request, ~Finished(r)
  PROVE  /\ Targets(r) = <<r>> /\ Stops(r, 2) = {}
         /\ Stops(r, 1) = IF ~closed[r] /\ Full(r) THEN {1} ELSE {}
<1>1. children[r] \in Seq(Queue) /\ Kids(r) = {}
  BY NoTaps, Coroutines DEF TurnInv, TurnShape
<1>2. children[r] = <<>>
  <2>1. Len(children[r]) \in Nat /\ DOMAIN children[r] = 1..Len(children[r])
    BY <1>1
  <2>2. ~(1 \in DOMAIN children[r])
    BY <1>1 DEF Kids
  <2>3. Len(children[r]) = 0
    BY <2>1, <2>2
  <2>4. QED
    BY <1>1, <2>3
<1>3. Targets(r) = <<r>>
  BY <1>2 DEF Targets
<1>4. Len(Targets(r)) = 1 /\ Targets(r)[1] = r
  BY <1>3
<1>5. Stops(r, 2) = {}
  BY <1>4 DEF Stops
<1>6. Stops(r, 1) = IF ~closed[r] /\ Full(r) THEN {1} ELSE {}
  BY <1>4 DEF Stops, Open
<1>7. QED
  BY <1>3, <1>5, <1>6

\* What it publishes is refused, waits for a slot, or is in its queue.
LEMMA AgentPuts ==
  ASSUME TurnInv, NEW r \in Request, ~Finished(r), NEW e, Enqueue(Agent(r), r, e)
  PROVE  /\ op[Agent(r)] = Idle /\ UNCHANGED <<created, children, closed>>
         /\ \/ closed[r] /\ UNCHANGED <<buf, op>>
            \/ /\ ~closed[r] /\ buf[r] # <<>> /\ UNCHANGED buf
               /\ op' = [op EXCEPT ![Agent(r)] = PutOp(r, 1, e)]
            \/ /\ ~closed[r] /\ buf' = [buf EXCEPT ![r] = Append(@, e)]
               /\ op' = [op EXCEPT ![Agent(r)] = Idle]
<1>1. CASE closed[r]
  BY <1>1 DEF Enqueue, queueVars
<1>2. CASE ~closed[r]
  <2>1. PutFrom(Agent(r), r, e, 1, {}) /\ op[Agent(r)] = Idle
    BY <1>2 DEF Enqueue
  <2>2. CASE Full(r)
    <3>1. /\ PutUpTo(r, e, 1, 1, {}) /\ op' = [op EXCEPT ![Agent(r)] = PutOp(r, 1, e)]
      BY <1>2, <2>1, <2>2, SoleTarget DEF PutFrom
    <3>2. buf' = [t \in Queue |-> IF t \in {} THEN Append(buf[t], e) ELSE buf[t]]
      BY <3>1 DEF PutUpTo
    <3>3. buf[r] # <<>>
      BY <2>2, QueueAssumption DEF Full
    <3>4. QED
      BY <1>2, <2>1, <3>1, <3>2, <3>3 DEF PutFrom, TurnInv, TurnShape
  <2>3. CASE ~Full(r)
    <3>1. /\ PutUpTo(r, e, 1, Len(Targets(r)) + 1, {}) /\ op' = [op EXCEPT ![Agent(r)] = Idle]
      BY <2>1, <2>3, SoleTarget DEF PutFrom
    <3>2. Len(Targets(r)) = 1 /\ Targets(r)[1] = r
      BY SoleTarget
    <3>3. {Targets(r)[k] : k \in {k \in 1..1 : Open(r, k)}} = {r}
      BY <1>2, <3>2 DEF Open
    <3>4. buf' = [t \in Queue |-> IF t \in {r} THEN Append(buf[t], e) ELSE buf[t]]
      BY <3>1, <3>2, <3>3 DEF PutUpTo
    <3>5. buf' = [buf EXCEPT ![r] = Append(@, e)]
      BY <3>4, Coroutines DEF TurnInv, TurnShape
    <3>6. QED
      BY <1>2, <2>1, <3>1, <3>5 DEF PutFrom
  <2>4. QED
    BY <2>2, <2>3
<1>3. QED
  BY <1>1, <1>2

\* What has waited is in it at last.
LEMMA AgentResumes ==
  ASSUME TurnInv, NEW r \in Request, ~Finished(r), ResumePut(Agent(r))
  PROVE  /\ op[Agent(r)].kind = "put" /\ ~(Py313 /\ closed[r])
         /\ buf' = [buf EXCEPT ![r] = Append(@, op[Agent(r)].ev)]
         /\ op' = [op EXCEPT ![Agent(r)] = Idle]
         /\ UNCHANGED <<created, children, closed>>
<1> DEFINE e == op[Agent(r)].ev
<1>1. op[Agent(r)].kind = "put" /\ op[Agent(r)].q = r /\ op[Agent(r)].at = 1
  <2>1. op[Agent(r)].kind = "put" /\ op[Agent(r)] = PutOp(r, 1, e)
    BY DEF ResumePut, TurnInv, OwnCalls, AgentPlace
  <2>2. PutOp(r, 1, e).q = r /\ PutOp(r, 1, e).at = 1
    BY DEF PutOp
  <2>3. QED
    BY <2>1, <2>2
<1>2. Targets(r)[1] = r /\ Len(Targets(r)) = 1
  BY SoleTarget
<1>3. PutFrom(Agent(r), r, e, 2, {r}) /\ ~(Py313 /\ closed[r])
  BY <1>1, <1>2 DEF ResumePut
<1>4. /\ PutUpTo(r, e, 2, 2, {r}) /\ op' = [op EXCEPT ![Agent(r)] = Idle]
  BY <1>2, <1>3, SoleTarget DEF PutFrom
<1>5. {r} \union {Targets(r)[k] : k \in {k \in 2..1 : Open(r, k)}} = {r}
  OBVIOUS
<1>6. buf' = [t \in Queue |-> IF t \in {r} THEN Append(buf[t], e) ELSE buf[t]]
  BY <1>4, <1>5 DEF PutUpTo
<1>7. buf' = [buf EXCEPT ![r] = Append(@, e)]
  BY <1>6, Coroutines DEF TurnInv, TurnShape
<1>8. QED
  BY <1>1, <1>3, <1>4, <1>7 DEF PutFrom

\* The steps of an agent.
LEMMA AgentStepTurn ==
  ASSUME HandlerInv, TurnInv, NEW r \in Request,
         \/ \E e \in AgentEvents : AgentPublishes(r, e)
         \/ AgentStep(r) \/ AgentFails(r)
  PROVE  AgentFrame(r) /\ TurnInv'
<1> DEFINE p == Agent(r)
<1>1. agent[r] \in {"runs", "closes"}
  BY DEF AgentPublishes, AgentStep, AgentReturns, AgentGoes, AgentEnds, AgentFails, ResumePut,
         CloseChild, StartJoin, CloseReturns, TurnInv, OwnCalls, AgentPlace
<1>2. ~Finished(r) /\ p \in Proc /\ Kids(r) = {} /\ r \in Queue
  BY <1>1, FinishedRests, Apart, NoTaps, Coroutines
<1>3. UNCHANGED <<kind, task, pc, ev, answer, clean, taskQueue, stored>>
  BY DEF AgentPublishes, AgentStep, AgentReturns, AgentGoes, AgentEnds, AgentFails, requestVars,
         managerVars, agentVars
<1>4. ASSUME NEW o, op' = [op EXCEPT ![p] = o]
      PROVE  op'[p] = o /\ \A s \in Proc \ {p} : SameCall(s)
  BY <1>2, <1>4 DEF HandlerInv, HandlerShape, SameCall, Joins
<1>5. UNCHANGED op => \A s \in Proc : SameCall(s)
  BY DEF SameCall, Joins
<1>6. agent'[r] \in {"runs", "closes", "done", "failed"} /\ \A s \in Request \ {r} : agent'[s] = agent[s]
  BY <1>1 DEF AgentPublishes, AgentStep, AgentReturns, AgentGoes, AgentEnds, AgentFails, agentVars,
              HandlerInv, HandlerShape
<1>7. ASSUME NEW e \in Event, buf' = buf \/ buf' = [buf EXCEPT ![r] = Append(@, e)]
      PROVE  buf' \in [Queue -> Seq(Event)] /\ \A s \in Request \ {r} : buf'[s] = buf[s]
  <2>1. buf[r] \in Seq(Event) /\ Append(buf[r], e) \in Seq(Event)
    BY <1>2 DEF TurnInv, TurnShape
  <2>2. buf \in [Queue -> Seq(Event)] /\ Request = Queue
    BY Coroutines DEF TurnInv, TurnShape
  <2>3. CASE buf' = buf
    BY <2>2, <2>3
  <2>4. CASE buf' = [buf EXCEPT ![r] = Append(@, e)]
    BY <2>1, <2>2, <2>4
  <2>5. QED
    BY <1>7, <2>3, <2>4
<1>8. ASSUME NEW e \in AgentEvents, AgentPublishes(r, e) PROVE AgentFrame(r) /\ TurnShape'
  <2>1. e \in Event /\ e \in EventKind
    BY HandlerAssumption
  <2>2. /\ UNCHANGED <<created, children, closed, agent>>
        /\ buf' = buf \/ buf' = [buf EXCEPT ![r] = Append(@, e)]
        /\ agent[r] = "runs"
    BY <1>2, <1>8, AgentPuts DEF AgentPublishes
  <2>3. said' = said \/ said' = [said EXCEPT ![r] = e]
    BY <1>8 DEF AgentPublishes
  <2>4. TurnShape'
    BY <1>3, <1>7, <2>1, <2>2, <2>3 DEF TurnInv, TurnShape
  <2>5. AgentPlace(r)' /\ \A s \in Proc \ {p} : SameCall(s)
    <3>1. op[p] = Idle
      BY <1>2, <1>8, AgentPuts DEF AgentPublishes
    <3>2. CASE UNCHANGED op
      BY <1>5, <2>2, <3>1, <3>2 DEF AgentPlace, Idle
    <3>3. CASE op' = [op EXCEPT ![p] = PutOp(r, 1, e)]
      <4>1. op'[p] = PutOp(r, 1, e) /\ \A s \in Proc \ {p} : SameCall(s)
        BY <1>4, <3>3
      <4>2. QED
        BY <2>1, <2>2, <4>1 DEF AgentPlace, PutOp
    <3>4. CASE op' = [op EXCEPT ![p] = Idle]
      <4>1. op'[p] = Idle /\ \A s \in Proc \ {p} : SameCall(s)
        BY <1>4, <3>4
      <4>2. QED
        BY <4>1 DEF AgentPlace, Idle
    <3>5. QED
      BY <1>2, <1>8, <3>2, <3>3, <3>4, AgentPuts DEF AgentPublishes
  <2>6. \A s \in Request \ {r} : said'[s] = said[s]
    BY <2>3 DEF TurnInv, TurnShape
  <2>7. QED
    BY <1>1, <1>3, <1>6, <1>7, <2>1, <2>2, <2>4, <2>5, <2>6 DEF AgentFrame
<1>9. ASSUME AgentGoes(r), ResumePut(p) PROVE AgentFrame(r) /\ TurnShape'
  <2> DEFINE e == op[p].ev
  <2>1. /\ UNCHANGED <<created, children, closed, agent, said>>
        /\ buf' = [buf EXCEPT ![r] = Append(@, e)] /\ op' = [op EXCEPT ![p] = Idle]
        /\ op[p].kind = "put"
    BY <1>2, <1>9, AgentResumes DEF AgentGoes, agentVars
  <2>2. e \in Event
    BY <2>1 DEF TurnInv, OwnCalls, AgentPlace
  <2>3. TurnShape'
    BY <1>3, <1>7, <2>1, <2>2 DEF TurnInv, TurnShape
  <2>4. op'[p] = Idle /\ \A s \in Proc \ {p} : SameCall(s)
    BY <1>4, <2>1
  <2>5. AgentPlace(r)'
    BY <2>4 DEF AgentPlace, Idle
  <2>6. \A s \in Request \ {r} : buf'[s] = buf[s]
    BY <1>7, <2>1, <2>2
  <2>7. QED
    BY <1>1, <1>3, <1>6, <2>1, <2>3, <2>4, <2>5, <2>6 DEF AgentFrame
<1>10. ASSUME AgentReturns(r) \/ (AgentGoes(r) /\ ~ResumePut(p)) \/ AgentEnds(r) \/ AgentFails(r)
       PROVE  AgentFrame(r) /\ TurnShape'
  <2>1. /\ UNCHANGED <<created, children, buf, said>>
        /\ closed' = closed \/ closed' = [closed EXCEPT ![r] = TRUE]
    <3>1. ASSUME NEW c PROVE ~CloseChild(p, c)
      BY DEF CloseChild, TurnInv, OwnCalls, AgentPlace
    <3>2. QED
      BY <1>10, <3>1 DEF AgentReturns, AgentGoes, AgentEnds, AgentFails, CloseGraceful, StartJoin,
           CloseReturns, PutRaises, queueVars, agentVars
  <2>2. TurnShape' /\ \A s \in Request \ {r} : closed'[s] = closed[s]
    BY <1>2, <1>3, <2>1, Coroutines DEF TurnInv, TurnShape
  <2>3. AgentPlace(r)' /\ \A s \in Proc \ {p} : SameCall(s)
    <3>1. CASE AgentReturns(r)
      <4>1. op[p] = Idle /\ agent'[r] = IF closed[r] THEN "done" ELSE "closes"
        BY <3>1 DEF AgentReturns, CloseGraceful, HandlerInv, HandlerShape
      <4>2. CASE closed[r]
        <5>1. UNCHANGED op
          BY <3>1, <4>2 DEF AgentReturns, CloseGraceful, queueVars
        <5>2. QED
          BY <1>5, <4>1, <5>1 DEF AgentPlace, Idle
      <4>3. CASE ~closed[r]
        <5>1. op' = [op EXCEPT ![p] = JoinOp(r, {}, {r}, {})]
          BY <1>2, <3>1, <4>3 DEF AgentReturns, CloseGraceful
        <5>2. op'[p] = JoinOp(r, {}, {r}, {}) /\ \A s \in Proc \ {p} : SameCall(s)
          BY <1>4, <5>1
        <5>3. QED
          BY <4>1, <4>3, <5>2 DEF AgentPlace, Joins, JoinOp
      <4>4. QED
        BY <4>2, <4>3
    <3>2. CASE AgentGoes(r) /\ ~ResumePut(p)
      <4> DEFINE j == op[p]
      <4>1. PICK c \in Request : StartJoin(p, c)
        BY <3>2 DEF AgentGoes, CloseChild, TurnInv, OwnCalls, AgentPlace
      <4>2. PICK w : op' = [op EXCEPT ![p] = JoinOp(j.q, j.shut, j.start \ {c}, w)]
        BY <4>1 DEF StartJoin
      <4>3. op'[p] = JoinOp(j.q, j.shut, j.start \ {c}, w) /\ \A s \in Proc \ {p} : SameCall(s)
        BY <1>4, <4>2
      <4>4. j.kind = "join" /\ j.shut = {} /\ agent[r] = "closes" /\ agent' = agent
        BY <3>2, <4>1 DEF StartJoin, AgentGoes, TurnInv, OwnCalls, AgentPlace, agentVars
      <4>5. QED
        BY <4>3, <4>4 DEF AgentPlace, Joins, JoinOp
    <3>3. CASE AgentEnds(r) \/ (AgentFails(r) /\ PutRaises(p))
      <4>1. op' = [op EXCEPT ![p] = Idle]
        BY <3>3 DEF AgentEnds, AgentFails, CloseReturns, PutRaises
      <4>2. op'[p] = Idle /\ \A s \in Proc \ {p} : SameCall(s)
        BY <1>4, <4>1
      <4>3. QED
        BY <4>2 DEF AgentPlace, Idle
    <3>4. CASE AgentFails(r) /\ ~PutRaises(p)
      BY <1>5, <3>4 DEF AgentFails, AgentPlace, Idle, queueVars
    <3>5. QED
      BY <1>10, <3>1, <3>2, <3>3, <3>4
  <2>4. QED
    BY <1>1, <1>3, <1>6, <2>1, <2>2, <2>3 DEF AgentFrame
<1>11. AgentFrame(r) /\ TurnShape'
  BY <1>8, <1>9, <1>10 DEF AgentStep
<1>12. QED
  BY <1>11, AgentTurn

\* The steps of a cleanup.
LEMMA CleanupStepTurn ==
  ASSUME HandlerInv, TurnInv, NEW r \in Request, CleanupStep(r)
  PROVE  CleanupFrame(r) /\ TurnInv'
<1> DEFINE p == Cleanup(r)
           t == task[r]
           q == taskQueue[t]
           Raises == clean' = [clean EXCEPT ![r] = "raised"] /\ UNCHANGED <<queueVars, managerVars>>
           Closes ==
             /\ agent[r] = "done" /\ clean[r] = "await" /\ q # None
             /\ taskQueue' = [taskQueue EXCEPT ![t] = None] /\ CloseGraceful(p, q)
             /\ clean' = [clean EXCEPT ![r] = IF closed[q] THEN "done" ELSE "closes"]
<1> HIDE DEF q
<1>1. /\ clean[r] \in {"await", "closes"} /\ p \in Proc
      /\ agent[r] # "none" /\ t \in Task /\ pc[r] \notin {"new", "setup"}
  <2>1. clean[r] \in {"await", "closes"} /\ p \in Proc
    BY Apart DEF CleanupStep, CleanUp, CleanupGoes, CleanupEnds, CloseChild, StartJoin, CloseReturns,
                 HandlerInv, CleanupJoins
  <2>2. agent[r] # "none" /\ t \in Task /\ pc[r] \notin {"new", "setup"}
    BY <2>1 DEF HandlerInv, CleanupOnce, TurnInv, Stages
  <2>3. QED
    BY <2>1, <2>2
<1>2. /\ UNCHANGED <<kind, task, pc, ev, answer, agent, said, buf, created, children, stored>>
  BY DEF CleanupStep, CleanUp, CleanupGoes, CleanupEnds, CloseChild, StartJoin, CloseReturns,
         CloseGraceful, queueVars, requestVars, agentVars
<1>3. ASSUME NEW o, op' = [op EXCEPT ![p] = o]
      PROVE  op'[p] = o /\ \A s \in Proc \ {p} : SameCall(s)
  BY <1>1, <1>3 DEF HandlerInv, HandlerShape, SameCall, Joins
<1>4. UNCHANGED op => \A s \in Proc : SameCall(s)
  BY DEF SameCall, Joins
<1>5. CleanupPlace(r) /\ (op[p].kind = "join" => clean[r] = "closes")
  BY DEF TurnInv, OwnCalls, HandlerInv, CleanupJoins
<1>6. ASSUME CleanUp(r), Raises PROVE CleanupFrame(r) /\ TurnShape'
  <2>1. clean[r] = "await" /\ q # None
    BY <1>1, <1>6 DEF CleanUp, TurnInv, Registered, q
  <2>2. agent[r] \in {"failed", "cancelled", "done"} /\ agent[r] # "cancelled"
    BY <1>6 DEF CleanUp, TurnInv, Stages
  <2>3. agent[r] = "failed"
    <3>1. CASE agent[r] # "done"
      BY <2>2, <3>1
    <3>2. CASE agent[r] = "done"
      <4>1. taskQueue'[t] = None
        BY <1>6, <2>1, <3>2, HandlerAssumption, <1>1 DEF CleanUp, managerVars, HandlerInv, HandlerShape, q
      <4>2. QED
        BY <1>6, <2>1, <4>1 DEF managerVars, q
    <3>3. QED
      BY <3>1, <3>2
  <2>4. clean'[r] = "raised" /\ \A s \in Request \ {r} : clean'[s] = clean[s]
    BY <1>6 DEF HandlerInv, HandlerShape
  <2>5. TurnShape' /\ CleanupPlace(r)'
    BY <1>2, <1>5, <1>6 DEF TurnInv, TurnShape, CleanupPlace, Joins, queueVars
  <2>6. UNCHANGED <<op, closed, taskQueue>>
    BY <1>6 DEF queueVars, managerVars
  <2>7. QED
    BY <1>1, <1>2, <1>4, <2>3, <2>4, <2>5, <2>6 DEF CleanupFrame
<1>7. ASSUME Closes PROVE CleanupFrame(r) /\ TurnShape'
  <2>1. q \in Request /\ q \in Queue /\ task[q] = t /\ pc[q] \notin {"new", "setup"}
    BY <1>1, <1>7, Coroutines DEF HandlerInv, HandlerShape, OwnEntries, q
  <2>2. clean'[r] \in {"done", "closes"} /\ \A s \in Request \ {r} : clean'[s] = clean[s]
    BY <1>7 DEF HandlerInv, HandlerShape
  <2>3. op[p] = Idle /\ (closed' = closed \/ closed' = [closed EXCEPT ![q] = TRUE])
    BY <1>7 DEF CloseGraceful, queueVars
  <2>4. /\ TurnShape'
        /\ \A s \in Request :
             closed'[s] = closed[s] \/ (pc[s] \notin {"new", "setup"} /\ task[s] = t)
    BY <1>2, <2>1, <2>3, Coroutines DEF TurnInv, TurnShape
  <2>5. \A u \in Task \ {t} : taskQueue'[u] = taskQueue[u]
    BY <1>7 DEF HandlerInv, HandlerShape
  <2>6. CleanupPlace(r)' /\ \A s \in Proc \ {p} : SameCall(s)
    <3>1. CASE UNCHANGED op
      BY <1>4, <2>3, <3>1 DEF CleanupPlace, Idle
    <3>2. CASE op' = [op EXCEPT ![p] = JoinOp(q, Kids(q), {q}, {})]
      <4>1. op'[p] = JoinOp(q, Kids(q), {q}, {}) /\ \A s \in Proc \ {p} : SameCall(s)
        BY <1>3, <3>2
      <4>2. \A c \in Kids(q) : c \in Request /\ c \in created /\ task[c] = t
        BY <2>1 DEF TurnInv, TapsLater
      <4>3. QED
        BY <1>2, <4>1, <4>2 DEF CleanupPlace, Joins, JoinOp
    <3>3. QED
      BY <1>7, <3>1, <3>2 DEF CloseGraceful, queueVars
  <2>7. QED
    BY <1>1, <1>2, <1>7, <2>2, <2>4, <2>5, <2>6 DEF CleanupFrame
<1>8. ASSUME CleanupGoes(r) PROVE CleanupFrame(r) /\ TurnShape'
  <2> DEFINE j == op[p]
  <2>1. PICK c \in Request : CloseChild(p, c) \/ StartJoin(p, c)
    BY <1>8 DEF CleanupGoes
  <2>2. j.kind = "join" /\ clean[r] = "closes"
    BY <1>5, <2>1 DEF CloseChild, StartJoin
  <2>3. PICK shut, start, wait :
          shut \subseteq j.shut /\ op' = [op EXCEPT ![p] = JoinOp(j.q, shut, start, wait)]
    <3>1. CASE CloseChild(p, c)
      <4>1. op' = [op EXCEPT ![p] = JoinOp(j.q, j.shut \ {c},
                     IF closed[c] THEN j.start ELSE j.start \union {c}, j.wait)]
        BY <3>1 DEF CloseChild
      <4>2. j.shut \ {c} \subseteq j.shut
        OBVIOUS
      <4>3. QED
        BY <4>1, <4>2
    <3>2. CASE StartJoin(p, c)
      <4>1. op' = [op EXCEPT ![p] = JoinOp(j.q, j.shut, j.start \ {c},
                     IF unfinished[c] = 0 THEN j.wait ELSE j.wait \union {c})]
        BY <3>2 DEF StartJoin
      <4>2. j.shut \subseteq j.shut
        OBVIOUS
      <4>3. QED
        BY <4>1, <4>2
    <3>3. QED
      BY <2>1, <3>1, <3>2
  <2>4. op'[p] = JoinOp(j.q, shut, start, wait) /\ \A s \in Proc \ {p} : SameCall(s)
    BY <1>3, <2>3
  <2>5. CleanupPlace(r)'
    <3>1. op'[p].kind = "join" /\ Joins(p)' /\ op'[p].shut = shut
      BY <2>4 DEF Joins, JoinOp
    <3>2. \A d \in shut : d \in Request /\ d \in created /\ task[d] = task[r]
      BY <1>5, <2>2, <2>3 DEF CleanupPlace
    <3>3. QED
      BY <1>2, <3>1, <3>2 DEF CleanupPlace
  <2>6. closed' = closed \/ (closed' = [closed EXCEPT ![c] = TRUE] /\ c \in j.shut)
    BY <2>1 DEF CloseChild, StartJoin
  <2>7. c \in j.shut => pc[c] \notin {"new", "setup"} /\ task[c] = t
    BY <1>5, <2>2 DEF CleanupPlace, TurnInv, Stages
  <2>8. /\ TurnShape'
        /\ \A s \in Request :
             closed'[s] = closed[s] \/ (pc[s] \notin {"new", "setup"} /\ task[s] = t)
    BY <1>2, <2>6, <2>7, Coroutines DEF TurnInv, TurnShape
  <2>9. UNCHANGED <<clean, taskQueue>> /\ agent[r] = "done"
    BY <1>8, <2>2 DEF CleanupGoes, managerVars, HandlerInv, TakenOut
  <2>10. QED
    BY <1>1, <1>2, <2>2, <2>4, <2>5, <2>8, <2>9 DEF CleanupFrame
<1>9. ASSUME CleanupEnds(r) PROVE CleanupFrame(r) /\ TurnShape'
  <2>1. /\ clean' = [clean EXCEPT ![r] = "done"] /\ op' = [op EXCEPT ![p] = Idle]
        /\ UNCHANGED <<closed, taskQueue>>
    BY <1>9 DEF CleanupEnds, CloseReturns
  <2>2. op'[p] = Idle /\ \A s \in Proc \ {p} : SameCall(s)
    BY <1>3, <2>1
  <2>3. CleanupPlace(r)'
    BY <2>2 DEF CleanupPlace, Idle
  <2>4. clean'[r] = "done" /\ \A s \in Request \ {r} : clean'[s] = clean[s]
    BY <2>1 DEF HandlerInv, HandlerShape
  <2>5. TurnShape'
    BY <1>2, <2>1 DEF TurnInv, TurnShape
  <2>6. QED
    BY <1>1, <1>2, <2>1, <2>2, <2>3, <2>4, <2>5 DEF CleanupFrame
<1>10. CleanUp(r) => Raises \/ Closes
  BY DEF CleanUp, q
<1>11. CleanupFrame(r) /\ TurnShape'
  BY <1>6, <1>7, <1>8, <1>9, <1>10 DEF CleanupStep
<1>12. QED
  BY <1>11, CleanupTurn

\* The rest cannot happen: nobody cancels, taps without a request of its own, or
\* waits as a consumer.
LEMMA NoOthers ==
  ASSUME TurnInv, NEW r \in Request
  PROVE  ~(TapTask(r) \/ ExecutorCancels(r) \/ StopAgent(r) \/ ConsumerGoes(r) \/ CancelRaises(r))
<1>1. pc[r] \notin {"cancel", "stop"} /\ (pc[r] = "setup" => kind[r] \notin {"resubscribe", "cancel"})
  BY DEF TurnInv, Stages, Senders
<1>2. op[Consumer(r)].kind = "idle"
  BY DEF TurnInv, OwnCalls
<1>3. QED
  BY <1>1, <1>2 DEF TapTask, ExecutorCancels, StopAgent, ConsumerGoes, CancelRaises, ResumePut,
                    ClearChild, ClearedAll, PutRaises

\* What a step is, when sends take turns.
LEMMA TurnSteps ==
  ASSUME TurnInv, HandlerNext
  PROVE  \E r \in Request :
           \/ \E k \in Kinds, t \in Task : Receive(r, k, t)
           \/ CreateOrTap(r)
           \/ \/ Look(r) \/ TimesOut(r) \/ Take(r) \/ FindsClosed(r)
              \/ Acknowledge(r) \/ AcknowledgeLast(r) \/ Process(r) \/ ProcessFails(r)
              \/ Disconnect(r) \/ Answer(r)
           \/ \/ \E e \in AgentEvents : AgentPublishes(r, e)
              \/ AgentStep(r) \/ AgentFails(r)
           \/ CleanupStep(r)
BY NoOthers DEF HandlerNext, HandlerStep

\* Every step keeps the invariant.
LEMMA TurnStep ==
  ASSUME OneByOne, HandlerInv, TurnInv, [HandlerNext]_vars
  PROVE  TurnInv'
<1>1. CASE HandlerNext
  BY <1>1, TurnSteps, ReceiveTurn, CreateOrTapTurn, LoopStepTurn, AgentStepTurn, CleanupStepTurn
<1>2. CASE UNCHANGED vars
  BY <1>2 DEF vars, queueVars, requestVars, agentVars, managerVars, TurnInv, TurnShape, Stages,
       OwnCalls, AgentPlace, CleanupPlace, Joins, TapsLater, Kids, Finished, InTurn, Registered,
       NotOver, InLoop
<1>3. QED
  BY <1>1, <1>2

\* A task that came to its end keeps its state, whatever fails and whoever leaves:
\* the request that stores an event is alone at work on the task, and has looked
\* at its state before.
THEOREM EndedStaysEnded ==
  ASSUME OneByOne
  PROVE  HandlerSpec => TerminalIsForever
<1>1. ASSUME TurnInv, [HandlerNext]_vars
      PROVE  [\A t \in Task : Ended(t) /\ Final(stored[t]) => stored'[t] = stored[t]]_vars
  <2>1. CASE \E r \in Request : Process(r)
    <3>1. PICK r \in Request : Process(r)
      BY <2>1
    <3>2. pc[r] = "process"
      BY <3>1 DEF Process
    <3>3. ~EndsTask(stored[task[r]])
      BY <1>1, <3>2 DEF TurnInv, NotOver, InLoop
    <3>4. \A t \in Task : t # task[r] => stored'[t] = stored[t]
      BY <1>1, <3>1 DEF Process, TurnInv, TurnShape
    <3>5. QED
      BY <3>3, <3>4 DEF EndsTask, Ended
  <2>2. CASE ~\E r \in Request : Process(r)
    <3>1. UNCHANGED stored
      BY <1>1, <2>2, TurnSteps
         DEF Receive, CreateOrTap, Look, TimesOut, Take, FindsClosed, Acknowledge, AcknowledgeLast,
             ProcessFails, Disconnect, Answer, AgentPublishes, AgentStep, AgentReturns, AgentGoes,
             AgentEnds, AgentFails, CleanupStep, CleanUp, CleanupGoes, CleanupEnds, vars
    <3>2. QED
      BY <3>1
  <2>3. QED
    BY <2>1, <2>2
<1>2. HandlerSpec => [](HandlerInv /\ TurnInv)
  BY HandlerInitInv, HandlerStepInv, TurnInit, TurnStep, PTL DEF HandlerSpec
<1>3. QED
  BY <1>1, <1>2, PTL DEF HandlerSpec, TerminalIsForever
-----------------------------------------------------------------------------
(* What an agent says reaches the store, and its client is told so, when   *)
(* sends take turns and the store does not fail.                           *)

\* The events on their way: in the hand of the consumer, in the queue, and in a put
\* that waits for a slot.
Hand(r) == pc[r] \in {"got", "process"}
Late(r) == op[Agent(r)].kind = "put"
NoFinal(s) == \A i \in DOMAIN s : ~Final(s[i])
FirstFinal(s, e) == \E i \in DOMAIN s : s[i] = e /\ \A j \in DOMAIN s : j < i => ~Final(s[j])

\* None of them is final, and what was said last is the last of them or is stored.
NotYet(r) ==
  /\ Hand(r) => ~Final(ev[r])
  /\ NoFinal(buf[r])
  /\ Late(r) => op[Agent(r)].ev = said[r]
  /\ ~Late(r) /\ buf[r] # <<>> => buf[r][Len(buf[r])] = said[r]
  /\ ~Late(r) /\ buf[r] = <<>> =>
       IF Hand(r) THEN ev[r] = said[r] ELSE said[r] \in {None, stored[task[r]]}

\* The first of them that is final is what was said.
Coming(r) ==
  \/ Hand(r) /\ ev[r] = said[r]
  \/ /\ Hand(r) => ~Final(ev[r])
     /\ \/ FirstFinal(buf[r], said[r])
        \/ NoFinal(buf[r]) /\ Late(r) /\ op[Agent(r)].ev = said[r]

\* The loop of r is over.
Over(r) == agent[r] # "none" /\ pc[r] \in {"finishing", "failing", "ended"}
Kept(r) == said[r] \in {None, Message, stored[task[r]]}

\* Nothing that was said gets lost, up to the first final event.
Told(r) ==
  answer[r] # "left" /\ agent[r] # "failed" =>
    /\ InLoop(r) => IF Final(said[r]) THEN Coming(r) ELSE NotYet(r)
    /\ Over(r) /\ ~Finished(r) => Kept(r)
    /\ Over(r) /\ agent[r] = "runs" => Final(said[r])

\* A queue is closed by its agent, or when the final event was taken from it.
ClosedBy(r) ==
  answer[r] # "left" /\ closed[r] =>
    /\ Final(said[r]) \/ agent[r] # "runs"
    /\ InLoop(r) /\ ~(pc[r] = "process" /\ Final(ev[r])) => agent[r] \in {"closes", "done"}

\* An answer that waits for the cleanup is not there yet; an error is told of an
\* agent that failed, or one that said nothing.
Excused(r) ==
  /\ pc[r] \in {"finishing", "failing"} => answer[r] = None
  /\ pc[r] = "failing" \/ (kind[r] \in {"send", "poll"} /\ answer[r] = "error") =>
       agent[r] = "failed" \/ (said[r] = None /\ agent[r] # "runs")

Tells(r) == Told(r) /\ ClosedBy(r) /\ Excused(r)

ToldInv == \A r \in Request : Tells(r)

\* When the loop of r ends, what was said is stored.
Settles(r) == Over(r)' /\ answer'[r] # "left" /\ agent[r] # "failed" => Kept(r)'

\* What an append and a dequeue leave of the order.
LEMMA AppendKeeps ==
  ASSUME NEW s \in Seq(Event), NEW e, NEW x
  PROVE  /\ FirstFinal(s, x) => FirstFinal(Append(s, e), x)
         /\ NoFinal(s) => IF Final(e) THEN FirstFinal(Append(s, e), e) ELSE NoFinal(Append(s, e))
         /\ Append(s, e) # <<>> /\ Append(s, e)[Len(Append(s, e))] = e
<1> DEFINE a == Append(s, e)
<1>1. /\ Len(s) \in Nat /\ DOMAIN s = 1..Len(s) /\ DOMAIN a = 1..(Len(s) + 1)
      /\ Len(a) = Len(s) + 1 /\ a[Len(s) + 1] = e /\ \A i \in 1..Len(s) : a[i] = s[i]
  OBVIOUS
<1> HIDE DEF a
<1>2. a # <<>> /\ a[Len(a)] = e
  BY <1>1
<1>3. FirstFinal(s, x) => FirstFinal(a, x)
  <2> SUFFICES ASSUME FirstFinal(s, x) PROVE FirstFinal(a, x)
    OBVIOUS
  <2>1. PICK i \in 1..Len(s) : s[i] = x /\ \A j \in 1..Len(s) : j < i => ~Final(s[j])
    BY <1>1 DEF FirstFinal
  <2>2. i \in DOMAIN a /\ a[i] = x /\ \A j \in DOMAIN a : j < i => ~Final(a[j])
    BY <1>1, <2>1
  <2>3. QED
    BY <2>2 DEF FirstFinal
<1>4. NoFinal(s) => IF Final(e) THEN FirstFinal(a, e) ELSE NoFinal(a)
  <2> SUFFICES ASSUME NoFinal(s) PROVE IF Final(e) THEN FirstFinal(a, e) ELSE NoFinal(a)
    OBVIOUS
  <2>1. \A j \in 1..Len(s) : ~Final(a[j])
    BY <1>1 DEF NoFinal
  <2>2. \A j \in 1..(Len(s) + 1) : j \in 1..Len(s) \/ j = Len(s) + 1
    BY <1>1
  <2>3. ~Final(e) => NoFinal(a)
    BY <1>1, <2>1, <2>2 DEF NoFinal
  <2>4. FirstFinal(a, e)
    BY <1>1, <2>1 DEF FirstFinal
  <2>5. QED
    BY <2>3, <2>4
<1>5. QED
  BY <1>2, <1>3, <1>4 DEF a

LEMMA TailKeeps ==
  ASSUME NEW s \in Seq(Event), s # <<>>, NEW x
  PROVE  /\ NoFinal(s) => ~Final(Head(s)) /\ NoFinal(Tail(s))
         /\ FirstFinal(s, x) => Head(s) = x \/ (~Final(Head(s)) /\ FirstFinal(Tail(s), x))
         /\ IF Tail(s) = <<>> THEN Head(s) = s[Len(s)] ELSE Tail(s)[Len(Tail(s))] = s[Len(s)]
<1> DEFINE a == Tail(s)
<1>1. /\ Len(s) \in Nat /\ Len(s) >= 1 /\ DOMAIN s = 1..Len(s) /\ DOMAIN a = 1..(Len(s) - 1)
      /\ Len(a) = Len(s) - 1 /\ Head(s) = s[1] /\ \A i \in 1..(Len(s) - 1) : a[i] = s[i + 1]
  OBVIOUS
<1>2. a = <<>> <=> Len(s) = 1
  <2>1. a \in Seq(Event)
    OBVIOUS
  <2>2. QED
    BY <1>1, <2>1
<1> HIDE DEF a
<1>3. NoFinal(s) => ~Final(Head(s)) /\ NoFinal(a)
  BY <1>1 DEF NoFinal
<1>4. FirstFinal(s, x) => Head(s) = x \/ (~Final(Head(s)) /\ FirstFinal(a, x))
  <2> SUFFICES ASSUME FirstFinal(s, x), Head(s) # x PROVE ~Final(Head(s)) /\ FirstFinal(a, x)
    OBVIOUS
  <2>1. PICK i \in 1..Len(s) : s[i] = x /\ \A j \in 1..Len(s) : j < i => ~Final(s[j])
    BY <1>1 DEF FirstFinal
  <2>2. i > 1
    BY <1>1, <2>1
  <2>3. ~Final(Head(s))
    BY <1>1, <2>1, <2>2
  <2>4. i - 1 \in DOMAIN a /\ a[i - 1] = x
    BY <1>1, <2>1, <2>2
  <2>5. \A j \in DOMAIN a : j < i - 1 => ~Final(a[j])
    BY <1>1, <2>1, <2>2
  <2>6. QED
    BY <2>3, <2>4, <2>5 DEF FirstFinal
<1>5. IF a = <<>> THEN Head(s) = s[Len(s)] ELSE a[Len(a)] = s[Len(s)]
  BY <1>1, <1>2
<1>6. QED
  BY <1>3, <1>4, <1>5 DEF a

\* Nothing is said and nothing goes wrong at first.
LEMMA ToldInit == HandlerInit => ToldInv
<1> SUFFICES ASSUME HandlerInit, NEW r \in Request PROVE Tells(r)
  BY DEF ToldInv
<1>1. /\ pc[r] = "new" /\ agent[r] = "none" /\ ~closed[r] /\ answer[r] = None
  BY Coroutines DEF HandlerInit, QueueInit
<1>2. None # "error"
  BY HandlerAssumption DEF Outcomes
<1>3. QED
  BY <1>1, <1>2 DEF Tells, Told, ClosedBy, Excused, InLoop, Over

\* A request keeps this as long as nobody touches what is its own, and its task.
LEMMA TellsSame ==
  ASSUME NEW s \in Request, Tells(s),
         kind'[s] = kind[s], task'[s] = task[s], pc'[s] = pc[s], ev'[s] = ev[s],
         answer'[s] = answer[s], agent'[s] = agent[s], said'[s] = said[s], buf'[s] = buf[s],
         \/ closed'[s] = closed[s]
         \/ agent[s] # "runs" /\ (InLoop(s) => agent[s] \in {"closes", "done"}),
         SameCall(Agent(s)), Finished(s) => Finished(s)',
         InLoop(s) \/ (Over(s) /\ ~Finished(s)) => stored'[task[s]] = stored[task[s]]
  PROVE  Tells(s)'
<1>1. Hand(s)' = Hand(s) /\ Over(s)' = Over(s) /\ InLoop(s)' = InLoop(s)
  BY DEF Hand, Over, InLoop
<1>2. Late(s)' = Late(s) /\ (Late(s) => op'[Agent(s)].ev = op[Agent(s)].ev)
  BY DEF Late, SameCall
<1>3. ClosedBy(s)'
  BY <1>1 DEF Tells, ClosedBy
<1>4. Excused(s)'
  BY DEF Tells, Excused
<1>5. InLoop(s) => (Coming(s) => Coming(s)') /\ (NotYet(s) => NotYet(s)')
  BY <1>1, <1>2 DEF Coming, NotYet
<1>6. Over(s) /\ ~Finished(s) /\ Kept(s) => Kept(s)'
  BY DEF Kept
<1>7. Told(s)'
  BY <1>1, <1>5, <1>6 DEF Tells, Told
<1>8. QED
  BY <1>3, <1>4, <1>7 DEF Tells

\* The others, when r reads its queue, answers, ...
LEMMA LoopTells ==
  ASSUME HandlerInv, TurnInv, ToldInv, NEW r \in Request, LoopFrame(r), ~Finished(r),
         pc[r] # "new", NEW s \in Request \ {r}
  PROVE  Tells(s)'
<1> USE DEF LoopFrame
<1>1. Tells(s) /\ (Finished(s) => Finished(s)')
  BY DEF ToldInv, Finished
<1>2. SameCall(Agent(s))
  BY Apart
<1>3. InLoop(s) \/ (Over(s) /\ ~Finished(s)) => stored'[task[s]] = stored[task[s]]
  <2> SUFFICES ASSUME InLoop(s) \/ (Over(s) /\ ~Finished(s))
               PROVE  stored'[task[s]] = stored[task[s]]
    OBVIOUS
  <2>1. pc[s] # "new" /\ ~Finished(s)
    BY DEF InLoop, Over, Finished
  <2>2. task[s] # task[r] /\ task[s] \in Task
    BY <2>1 DEF TurnInv, InTurn, Stages
  <2>3. QED
    BY <2>2
<1>4. QED
  BY <1>1, <1>2, <1>3, TellsSame

\* ... or when its agent goes on.
LEMMA AgentTells ==
  ASSUME TurnInv, ToldInv, NEW r \in Request, AgentFrame(r), NEW s \in Request \ {r}
  PROVE  Tells(s)'
<1> USE DEF AgentFrame
<1>1. Tells(s) /\ (Finished(s) => Finished(s)')
  BY DEF ToldInv, Finished
<1>2. SameCall(Agent(s))
  BY Apart
<1>3. QED
  BY <1>1, <1>2, TellsSame

\* A cleanup closes a queue whose agent is done: its own, or that of a request
\* which is dealt with.
LEMMA CleanupTells ==
  ASSUME HandlerInv, TurnInv, ToldInv, NEW r \in Request, CleanupFrame(r), NEW s \in Request
  PROVE  Tells(s)'
<1> USE DEF CleanupFrame
<1>1. Tells(s) /\ (Finished(s) => Finished(s)')
  BY DEF ToldInv, Finished
<1>2. SameCall(Agent(s))
  BY Apart
<1>3. \/ closed'[s] = closed[s]
      \/ agent[s] # "runs" /\ (InLoop(s) => agent[s] \in {"closes", "done"})
  <2> SUFFICES ASSUME closed'[s] # closed[s]
               PROVE  agent[s] # "runs" /\ (InLoop(s) => agent[s] \in {"closes", "done"})
    OBVIOUS
  <2>1. CASE s = r
    BY <2>1
  <2>2. CASE s # r
    <3>1. ~Finished(r) /\ pc[r] # "new"
      BY DEF Finished, HandlerInv, CleanupOnce
    <3>2. Finished(s)
      BY <2>2, <3>1 DEF TurnInv, InTurn
    <3>3. agent[s] # "runs" /\ ~InLoop(s)
      BY <3>2, FinishedRests DEF Finished, InLoop
    <3>4. QED
      BY <3>3
  <2>3. QED
    BY <2>1, <2>2
<1>4. QED
  BY <1>1, <1>2, <1>3, TellsSame

\* A request that comes in, or is set up, has said nothing.
LEMMA SetUpTells ==
  ASSUME HandlerInv, TurnInv, TurnInv', ToldInv, NEW r \in Request,
         (\E k \in Kinds, t \in Task : Receive(r, k, t)) \/ CreateOrTap(r), NEW s \in Request
  PROVE  Tells(s)'
<1>1. UNCHANGED <<ev, said, clean, stored, op, buf, closed>>
  BY DEF Receive, CreateOrTap, Create, Tap, queueVars, agentVars
<1>2. CASE s # r
  <2>1. /\ kind'[s] = kind[s] /\ task'[s] = task[s] /\ pc'[s] = pc[s]
        /\ answer'[s] = answer[s] /\ agent'[s] = agent[s]
    BY <1>2 DEF Receive, CreateOrTap, agentVars, HandlerInv, HandlerShape, TurnInv, TurnShape
  <2>2. SameCall(Agent(s)) /\ (Finished(s) => Finished(s)')
    BY <1>1, <2>1 DEF SameCall, Joins, Finished
  <2>3. QED
    BY <1>1, <2>1, <2>2, TellsSame DEF ToldInv
<1>3. CASE s = r
  <2>1. /\ agent[r] = "none" /\ answer[r] = None /\ said[r] = None /\ ~closed[r] /\ buf[r] = <<>>
        /\ op[Agent(r)].kind = "idle" /\ pc[r] \in {"new", "setup"}
    BY DEF TurnInv, Stages, OwnCalls, AgentPlace, Receive, CreateOrTap
  <2>2. None # "error" /\ ~Final(None)
    BY HandlerAssumption DEF Outcomes, Final
  <2>3. CASE CreateOrTap(r)
    <3>1. pc'[r] = "top" /\ agent'[r] = "runs" /\ answer' = answer
      BY <2>3 DEF CreateOrTap, HandlerInv, HandlerShape
    <3>2. NotYet(r)'
      BY <1>1, <2>1, <3>1 DEF NotYet, Hand, Late, NoFinal
    <3>3. Told(r)'
      BY <1>1, <2>1, <2>2, <3>1, <3>2 DEF Told, Over
    <3>4. QED
      BY <1>1, <1>3, <2>1, <2>2, <3>1, <3>3 DEF Tells, ClosedBy, Excused
  <2>4. CASE ~CreateOrTap(r)
    <3>1. pc'[r] \in {"setup", "ended"} /\ agent' = agent
      BY <2>4 DEF Receive, agentVars, HandlerInv, HandlerShape
    <3>2. QED
      BY <1>1, <1>3, <2>1, <3>1 DEF Tells, Told, ClosedBy, Excused, InLoop, Over
  <2>5. QED
    BY <2>3, <2>4
<1>4. QED
  BY <1>2, <1>3

\* The agent publishes: what it says is on its way, unless it has said its last.
LEMMA PublishTells ==
  ASSUME HandlerInv, TurnInv, ToldInv, NEW r \in Request, NEW e \in AgentEvents,
         AgentPublishes(r, e), ~Finished(r), AgentFrame(r)
  PROVE  Tells(r)'
<1> USE DEF AgentFrame
<1>1. /\ agent[r] = "runs" /\ agent' = agent /\ Enqueue(Agent(r), r, e)
      /\ said' = IF Final(said[r]) THEN said ELSE [said EXCEPT ![r] = e]
  BY DEF AgentPublishes
<1>2. /\ op[Agent(r)] = Idle /\ closed' = closed
      /\ \/ closed[r] /\ UNCHANGED <<buf, op>>
         \/ /\ ~closed[r] /\ buf[r] # <<>> /\ UNCHANGED buf
            /\ op' = [op EXCEPT ![Agent(r)] = PutOp(r, 1, e)]
         \/ /\ ~closed[r] /\ buf' = [buf EXCEPT ![r] = Append(@, e)]
            /\ op' = [op EXCEPT ![Agent(r)] = Idle]
  BY <1>1, AgentPuts
<1>3. IF Final(said[r]) THEN said'[r] = said[r] ELSE said'[r] = e
  BY <1>1 DEF TurnInv, TurnShape
<1>4. Agent(r) \in Proc /\ buf[r] \in Seq(Event) /\ r \in DOMAIN buf
  BY Apart, Coroutines DEF TurnInv, TurnShape
<1>5. answer[r] # "left" /\ closed[r] => Final(said[r])
  BY <1>1 DEF ToldInv, Tells, ClosedBy
<1>6. ~Late(r)
  BY <1>2 DEF Late, Idle
<1>7. \/ buf'[r] = Append(buf[r], e) /\ ~Late(r)'
      \/ closed[r] /\ buf' = buf /\ ~Late(r)'
      \/ ~closed[r] /\ buf' = buf /\ Late(r)' /\ op'[Agent(r)].ev = e
  <2>1. CASE closed[r] /\ UNCHANGED <<buf, op>>
    BY <1>6, <2>1 DEF Late
  <2>2. CASE op' = [op EXCEPT ![Agent(r)] = PutOp(r, 1, e)] /\ UNCHANGED buf /\ ~closed[r]
    <3>1. op'[Agent(r)] = PutOp(r, 1, e)
      BY <1>4, <2>2 DEF HandlerInv, HandlerShape
    <3>2. QED
      BY <2>2, <3>1 DEF Late, PutOp
  <2>3. CASE op' = [op EXCEPT ![Agent(r)] = Idle] /\ buf' = [buf EXCEPT ![r] = Append(@, e)]
    <3>1. op'[Agent(r)] = Idle /\ buf'[r] = Append(buf[r], e)
      BY <1>4, <2>3 DEF HandlerInv, HandlerShape
    <3>2. QED
      BY <3>1 DEF Late, Idle
  <2>4. QED
    BY <1>2, <2>1, <2>2, <2>3
<1>8. LET a == Append(buf[r], e) IN
       /\ FirstFinal(buf[r], said[r]) => FirstFinal(a, said[r])
       /\ NoFinal(buf[r]) => IF Final(e) THEN FirstFinal(a, e) ELSE NoFinal(a)
       /\ a # <<>> /\ a[Len(a)] = e
  BY <1>4, AppendKeeps
<1>9. ASSUME answer[r] # "left", InLoop(r), ~Final(said[r])
      PROVE  IF Final(said'[r]) THEN Coming(r)' ELSE NotYet(r)'
  <2>1. NotYet(r) /\ ~closed[r] /\ said'[r] = e
    BY <1>1, <1>3, <1>5, <1>9 DEF ToldInv, Tells, Told
  <2>2. /\ Hand(r)' = Hand(r) /\ ev' = ev /\ NoFinal(buf[r]) /\ (Hand(r) => ~Final(ev[r]))
    BY <2>1 DEF Hand, NotYet
  <2>3. CASE buf'[r] = Append(buf[r], e) /\ ~Late(r)'
    <3>1. /\ IF Final(e) THEN FirstFinal(buf'[r], e) ELSE NoFinal(buf'[r])
          /\ buf'[r] # <<>> /\ buf'[r][Len(buf'[r])] = e
      BY <1>4, <1>8, <2>2, <2>3
    <3>2. QED
      BY <2>1, <2>2, <2>3, <3>1 DEF Coming, NotYet
  <2>4. CASE buf' = buf /\ Late(r)' /\ op'[Agent(r)].ev = e
    BY <2>1, <2>2, <2>4 DEF Coming, NotYet
  <2>5. QED
    BY <1>7, <2>1, <2>3, <2>4
<1>10. ASSUME answer[r] # "left", InLoop(r), Final(said[r])
      PROVE  Coming(r)'
  <2>1. Coming(r) /\ said'[r] = said[r]
    BY <1>1, <1>3, <1>10 DEF ToldInv, Tells, Told
  <2>2. Hand(r)' = Hand(r) /\ ev' = ev
    BY DEF Hand
  <2>3. FirstFinal(buf[r], said[r]) => FirstFinal(buf'[r], said[r])
    BY <1>7, <1>8
  <2>4. QED
    BY <1>6, <2>1, <2>2, <2>3 DEF Coming
<1>11. Told(r)'
  <2>1. Over(r)' = Over(r) /\ InLoop(r)' = InLoop(r) /\ Finished(r)' = Finished(r)
    BY <1>1 DEF Over, InLoop, Finished
  <2>2. answer[r] # "left" /\ Over(r) => Final(said[r]) /\ said'[r] = said[r]
    BY <1>1, <1>3 DEF ToldInv, Tells, Told
  <2>3. answer[r] # "left" /\ Over(r) /\ ~Finished(r) => Kept(r)'
    BY <1>1, <2>2 DEF ToldInv, Tells, Told, Kept
  <2>4. QED
    BY <1>1, <1>3, <1>9, <1>10, <2>1, <2>2, <2>3 DEF Told
<1>12. ClosedBy(r)' /\ Excused(r)'
  BY <1>1, <1>2, <1>3 DEF ToldInv, Tells, ClosedBy, Excused, InLoop
<1>13. QED
  BY <1>11, <1>12 DEF Tells

\* What waited for a slot is in the queue.
LEMMA ResumeTells ==
  ASSUME HandlerInv, TurnInv, ToldInv, NEW r \in Request, AgentGoes(r), ResumePut(Agent(r)),
         ~Finished(r), AgentFrame(r)
  PROVE  Tells(r)'
<1> USE DEF AgentFrame
<1> DEFINE e == op[Agent(r)].ev
<1>1. /\ Late(r) /\ agent[r] = "runs" /\ agent' = agent /\ said' = said /\ closed' = closed
      /\ buf' = [buf EXCEPT ![r] = Append(@, e)] /\ op' = [op EXCEPT ![Agent(r)] = Idle]
  BY AgentResumes DEF Late, AgentGoes, agentVars, TurnInv, OwnCalls, AgentPlace
<1>2. buf[r] \in Seq(Event) /\ buf'[r] = Append(buf[r], e)
  BY <1>1, Coroutines DEF TurnInv, TurnShape
<1>3. ~Late(r)'
  BY <1>1, Apart DEF Late, Idle, HandlerInv, HandlerShape
<1>4. Hand(r)' = Hand(r) /\ InLoop(r)' = InLoop(r) /\ Over(r)' = Over(r) /\ Finished(r)' = Finished(r)
  BY <1>1 DEF Hand, InLoop, Over, Finished
<1>5. ASSUME InLoop(r), NotYet(r), ~Final(said[r]) PROVE NotYet(r)'
  <2>1. e = said[r] /\ NoFinal(buf[r]) /\ (Hand(r) => ~Final(ev[r]))
    BY <1>1, <1>5 DEF NotYet
  <2>2. NoFinal(buf'[r]) /\ buf'[r] # <<>> /\ buf'[r][Len(buf'[r])] = e
    BY <1>2, <1>5, <2>1, AppendKeeps
  <2>3. QED
    BY <1>1, <1>3, <1>4, <2>1, <2>2 DEF NotYet
<1>6. ASSUME InLoop(r), Coming(r), Final(said[r]) PROVE Coming(r)'
  <2>1. FirstFinal(buf[r], said[r]) => FirstFinal(buf'[r], said[r])
    BY <1>2, AppendKeeps
  <2>2. NoFinal(buf[r]) /\ e = said[r] => FirstFinal(buf'[r], said[r])
    BY <1>2, <1>6, AppendKeeps
  <2>3. QED
    BY <1>1, <1>4, <1>6, <2>1, <2>2 DEF Coming
<1>7. Told(r)'
  BY <1>1, <1>4, <1>5, <1>6 DEF ToldInv, Tells, Told, Kept
<1>8. ClosedBy(r)' /\ Excused(r)'
  BY <1>1, <1>4 DEF ToldInv, Tells, ClosedBy, Excused
<1>9. QED
  BY <1>7, <1>8 DEF Tells

\* It returns, fails, or its close goes on.
LEMMA AgentRestTells ==
  ASSUME HandlerInv, TurnInv, ToldInv, NEW r \in Request,
         AgentReturns(r) \/ (AgentGoes(r) /\ ~ResumePut(Agent(r))) \/ AgentEnds(r) \/ AgentFails(r),
         ~Finished(r), AgentFrame(r)
  PROVE  Tells(r)'
<1> USE DEF AgentFrame
<1>1. said' = said /\ buf' = buf
  BY DEF AgentReturns, AgentGoes, AgentEnds, AgentFails, CloseGraceful, CloseChild, StartJoin,
         CloseReturns, PutRaises, queueVars, agentVars
<1>2. CASE agent'[r] = "failed"
  <2>1. AgentFails(r) /\ agent[r] = "runs" /\ closed' = closed
    BY <1>2 DEF AgentReturns, AgentGoes, AgentEnds, AgentFails, PutRaises, queueVars, agentVars,
                HandlerInv, HandlerShape
  <2>2. QED
    BY <1>1, <1>2, <2>1 DEF ToldInv, Tells, Told, ClosedBy, Excused, InLoop
<1>3. CASE agent'[r] # "failed"
  <2>1. /\ agent[r] # "failed" /\ agent'[r] \in {"closes", "done"} /\ ~Late(r) /\ ~Late(r)'
    <3>1. CASE AgentReturns(r)
      <4>1. op[Agent(r)] = Idle /\ agent'[r] = IF closed[r] THEN "done" ELSE "closes"
        BY <3>1 DEF AgentReturns, CloseGraceful, HandlerInv, HandlerShape
      <4>2. QED
        BY <4>1 DEF Late, Idle, AgentPlace
    <3>2. CASE AgentGoes(r) /\ ~ResumePut(Agent(r))
      <4>1. op[Agent(r)].kind = "join" /\ agent' = agent
        BY <3>2 DEF AgentGoes, CloseChild, StartJoin, agentVars
      <4>2. agent[r] = "closes"
        BY <4>1 DEF TurnInv, OwnCalls, AgentPlace
      <4>3. QED
        BY <4>1, <4>2 DEF Late, AgentPlace
    <3>3. CASE AgentEnds(r)
      <4>1. op[Agent(r)].kind = "join" /\ agent' = [agent EXCEPT ![r] = "done"]
        BY <3>3 DEF AgentEnds, CloseReturns
      <4>2. agent[r] = "closes" /\ agent'[r] = "done"
        BY <4>1 DEF TurnInv, OwnCalls, AgentPlace, HandlerInv, HandlerShape
      <4>3. QED
        BY <4>1, <4>2 DEF Late, AgentPlace
    <3>4. CASE AgentFails(r)
      BY <1>3, <3>4 DEF AgentFails, HandlerInv, HandlerShape
    <3>5. QED
      BY <3>1, <3>2, <3>3, <3>4
  <2>2. /\ Hand(r)' = Hand(r) /\ InLoop(r)' = InLoop(r) /\ Over(r)' = Over(r)
        /\ Finished(r)' = Finished(r)
    BY <2>1 DEF Hand, InLoop, Over, Finished
  <2>3. (NotYet(r) => NotYet(r)') /\ (Coming(r) => Coming(r)')
    BY <1>1, <2>1, <2>2 DEF NotYet, Coming
  <2>4. QED
    BY <1>1, <2>1, <2>2, <2>3 DEF ToldInv, Tells, Told, Kept, ClosedBy, Excused
<1>4. QED
  BY <1>2, <1>3


-----------------------------------------------------------------------------
(* The steps of the loop of r itself.                                      *)

\* The calls of its agent are left alone.
LEMMA LoopLate ==
  ASSUME NEW r \in Request, LoopFrame(r)
  PROVE  /\ Late(r)' = Late(r) /\ (Late(r) => op'[Agent(r)].ev = op[Agent(r)].ev)
         /\ UNCHANGED <<kind, task, agent, said>>
<1>1. SameCall(Agent(r))
  BY Apart DEF LoopFrame
<1>2. QED
  BY <1>1 DEF Late, SameCall, LoopFrame

\* The end of the stream: what was said is stored by then, and there is a result
\* unless the agent failed or said nothing.
LEMMA EndTells ==
  ASSUME HandlerInv, TurnInv, ToldInv, NEW r \in Request, LoopFrame(r), InLoop(r),
         NEW result \in {"result", "error"}, StreamEnds(r, result), closed'[r] = closed[r],
         answer[r] # "left" /\ agent[r] # "failed" =>
           Kept(r)' /\ (agent[r] = "runs" => Final(said[r])),
         result = "error" /\ answer[r] = None /\ kind[r] \in {"send", "poll"} =>
           agent[r] = "failed" \/ (said[r] = None /\ agent[r] # "runs")
  PROVE  Tells(r)' /\ Settles(r)
<1>1. /\ UNCHANGED <<kind, agent, said>> /\ kind[r] \in Senders /\ agent[r] # "none"
      /\ None \notin Outcomes
  BY HandlerAssumption DEF LoopFrame, TurnInv, Stages, InLoop
<1>2. \/ answer[r] # None /\ pc'[r] = "ended" /\ answer'[r] = answer[r]
      \/ /\ answer[r] = None /\ kind[r] \in {"send", "poll"} /\ answer'[r] = answer[r]
         /\ pc'[r] = IF result = "result" THEN "finishing" ELSE "failing"
      \/ /\ answer[r] = None /\ kind[r] \notin {"send", "poll"} /\ answer'[r] = result
         /\ pc'[r] = "ended"
  BY DEF StreamEnds, HandlerInv, HandlerShape
<1>3. ~InLoop(r)' /\ (answer'[r] # "left" => answer[r] # "left")
  BY <1>1, <1>2 DEF InLoop, Outcomes
<1>4. Told(r)' /\ Settles(r)
  BY <1>1, <1>3 DEF Told, Settles
<1>5. ClosedBy(r)'
  BY <1>1, <1>3 DEF ToldInv, Tells, ClosedBy
<1>6. Excused(r)'
  BY <1>1, <1>2 DEF ToldInv, Tells, Excused, Outcomes
<1>7. QED
  BY <1>4, <1>5, <1>6 DEF Tells

\* It looks at its agent, or waits in vain.
LEMMA LookTells ==
  ASSUME HandlerInv, TurnInv, ToldInv, NEW r \in Request, LoopFrame(r), Look(r) \/ TimesOut(r)
  PROVE  Tells(r)' /\ Settles(r)
<1>1. /\ UNCHANGED <<kind, task, ev, agent, said, buf, closed, op, stored>> /\ InLoop(r)
  BY DEF Look, TimesOut, queueVars, agentVars, InLoop
<1>2. CASE Look(r) /\ Raised(r)
  BY <1>1, <1>2, EndTells DEF Look, Raised
<1>3. CASE ~(Look(r) /\ Raised(r))
  <2>1. /\ pc[r] \in {"top", "wait"} /\ pc'[r] \in {"top", "wait"} /\ answer'[r] = answer[r]
    BY <1>3 DEF Look, TimesOut, HandlerInv, HandlerShape
  <2>2. Hand(r)' = Hand(r) /\ Late(r)' = Late(r) /\ ~Over(r)' /\ InLoop(r)'
    BY <1>1, <2>1 DEF Hand, Late, Over, InLoop
  <2>3. Told(r)' /\ Settles(r)
    BY <1>1, <2>1, <2>2 DEF ToldInv, Tells, Told, Coming, NotYet, Settles
  <2>4. ClosedBy(r)' /\ Excused(r)'
    BY <1>1, <2>1, <2>2 DEF ToldInv, Tells, ClosedBy, Excused
  <2>5. QED
    BY <2>3, <2>4 DEF Tells
<1>4. QED
  BY <1>2, <1>3

\* It takes the oldest event.
LEMMA TakeTells ==
  ASSUME HandlerInv, TurnInv, ToldInv, NEW r \in Request, LoopFrame(r), Take(r)
  PROVE  Tells(r)' /\ Settles(r)
<1> DEFINE b == buf[r]
<1>1. /\ b # <<>> /\ b \in Seq(Event) /\ buf'[r] = Tail(b) /\ ev'[r] = Head(b)
      /\ pc[r] = "wait" /\ pc'[r] = "got" /\ answer'[r] = answer[r] /\ closed' = closed
  BY Coroutines DEF Take, Dequeue, TurnInv, TurnShape, HandlerInv, HandlerShape
<1>2. /\ NoFinal(b) => ~Final(Head(b)) /\ NoFinal(Tail(b))
      /\ FirstFinal(b, said[r]) =>
           Head(b) = said[r] \/ (~Final(Head(b)) /\ FirstFinal(Tail(b), said[r]))
      /\ IF Tail(b) = <<>> THEN Head(b) = b[Len(b)] ELSE Tail(b)[Len(Tail(b))] = b[Len(b)]
  BY <1>1, TailKeeps
<1>3. ~Hand(r) /\ Hand(r)' /\ ~Over(r)' /\ InLoop(r) /\ InLoop(r)'
  BY <1>1 DEF Hand, Over, InLoop
<1> HIDE DEF b
<1>4. NotYet(r) => NotYet(r)'
  BY <1>1, <1>2, <1>3, LoopLate DEF NotYet, b
<1>5. Coming(r) => Coming(r)'
  BY <1>1, <1>2, <1>3, LoopLate DEF Coming, b
<1>6. Told(r)' /\ Settles(r)
  BY <1>1, <1>3, <1>4, <1>5, LoopLate DEF ToldInv, Tells, Told, Settles
<1>7. ClosedBy(r)' /\ Excused(r)'
  BY <1>1, <1>3, LoopLate DEF ToldInv, Tells, ClosedBy, Excused
<1>8. QED
  BY <1>6, <1>7 DEF Tells

\* It acknowledges the event; the final one is what was said, and closes the queue.
LEMMA AcknowledgeTells ==
  ASSUME HandlerInv, TurnInv, ToldInv, NEW r \in Request, LoopFrame(r),
         Acknowledge(r) \/ AcknowledgeLast(r)
  PROVE  Tells(r)' /\ Settles(r)
<1>1. /\ pc[r] = "got" /\ pc'[r] = "process" /\ answer'[r] = answer[r] /\ ev' = ev
  BY DEF Acknowledge, AcknowledgeLast, HandlerInv, HandlerShape
<1>2. Hand(r) /\ Hand(r)' /\ ~Over(r)' /\ InLoop(r) /\ InLoop(r)'
  BY <1>1 DEF Hand, Over, InLoop
<1>3. Excused(r)' /\ Settles(r)
  BY <1>1, <1>2, LoopLate DEF ToldInv, Tells, Excused, Settles
<1>4. CASE Acknowledge(r)
  <2>1. UNCHANGED <<buf, closed>>
    BY <1>4 DEF Acknowledge, TaskDone
  <2>2. Told(r)'
    BY <1>1, <1>2, <2>1, LoopLate DEF ToldInv, Tells, Told, Coming, NotYet
  <2>3. ClosedBy(r)'
    BY <1>1, <1>2, <2>1, LoopLate DEF ToldInv, Tells, ClosedBy
  <2>4. QED
    BY <1>3, <2>2, <2>3 DEF Tells
<1>5. CASE AcknowledgeLast(r)
  <2>1. Final(ev[r])
    BY <1>5 DEF AcknowledgeLast
  <2>2. answer[r] # "left" /\ agent[r] # "failed" => Final(said[r]) /\ ev[r] = said[r]
    BY <1>2, <2>1 DEF ToldInv, Tells, Told, Coming, NotYet
  <2>3. Told(r)' /\ ClosedBy(r)'
    BY <1>1, <1>2, <2>1, <2>2, LoopLate DEF Told, ClosedBy, Coming
  <2>4. QED
    BY <1>3, <2>3 DEF Tells
<1>6. QED
  BY <1>4, <1>5

\* A queue found closed and empty was closed by its agent: nothing is left of what
\* was said but what is stored.
LEMMA FindsClosedTells ==
  ASSUME HandlerInv, TurnInv, ToldInv, NEW r \in Request, LoopFrame(r), FindsClosed(r)
  PROVE  Tells(r)' /\ Settles(r)
<1> DEFINE result == ResultAfter(r, ev[r])
<1>1. /\ pc[r] = "wait" /\ closed[r] /\ buf[r] = <<>> /\ InLoop(r) /\ ~Hand(r)
      /\ UNCHANGED <<task, said, closed, stored, agent>> /\ StreamEnds(r, result)
  BY DEF FindsClosed, queueVars, agentVars, InLoop, Hand
<1>2. ASSUME answer[r] # "left", agent[r] # "failed"
      PROVE  agent[r] \in {"closes", "done"} /\ said[r] \in {None, stored[task[r]]}
  <2>1. agent[r] \in {"closes", "done"}
    BY <1>1, <1>2 DEF ToldInv, Tells, ClosedBy
  <2>2. ~Late(r)
    BY <2>1 DEF Late, TurnInv, OwnCalls, AgentPlace
  <2>3. ~FirstFinal(buf[r], said[r])
    BY <1>1 DEF FirstFinal
  <2>4. ~Coming(r)
    BY <1>1, <2>2, <2>3 DEF Coming
  <2>5. NotYet(r)
    BY <1>1, <1>2, <2>4 DEF ToldInv, Tells, Told
  <2>6. QED
    BY <1>1, <2>1, <2>2, <2>5 DEF NotYet
<1>3. answer[r] # "left" /\ agent[r] # "failed" =>
        Kept(r)' /\ (agent[r] = "runs" => Final(said[r]))
  BY <1>1, <1>2 DEF Kept
<1>4. result = "error" /\ answer[r] = None /\ kind[r] \in {"send", "poll"} =>
        agent[r] = "failed" \/ (said[r] = None /\ agent[r] # "runs")
  <2> SUFFICES ASSUME result = "error", answer[r] = None, kind[r] \in {"send", "poll"},
                      agent[r] # "failed"
               PROVE  said[r] = None /\ agent[r] # "runs"
    OBVIOUS
  <2>1. stored[task[r]] = Absent
    BY <1>1 DEF ResultAfter
  <2>2. said[r] \in {None, Absent} /\ agent[r] # "runs"
    BY <1>2, <2>1, HandlerAssumption DEF Outcomes
  <2>3. said[r] # Absent \/ said[r] = None
    BY EventsAre DEF TurnInv, TurnShape
  <2>4. QED
    BY <2>2, <2>3
<1>5. result \in {"result", "error"} /\ closed'[r] = closed[r]
  BY <1>1 DEF ResultAfter
<1> HIDE DEF result
<1>6. QED
  BY <1>1, <1>3, <1>4, <1>5, EndTells

\* It stores the event.
LEMMA ProcessTells ==
  ASSUME HandlerInv, TurnInv, ToldInv, NEW r \in Request, LoopFrame(r), Process(r)
  PROVE  Tells(r)' /\ Settles(r)
<1> DEFINE result == ResultAfter(r, ev[r])
<1>1. /\ pc[r] = "process" /\ InLoop(r) /\ Hand(r) /\ ev[r] \in EventKind
      /\ task[r] \in Task /\ UNCHANGED <<ev, buf, closed, task, said, agent>>
  BY DEF Process, InLoop, Hand, TurnInv, Stages, queueVars, agentVars
<1>2. ev[r] # Message => stored'[task[r]] = ev[r]
  BY <1>1 DEF Process, TurnInv, TurnShape
<1>3. CASE Final(ev[r])
  <2>1. answer[r] # "left" /\ agent[r] # "failed" => Final(said[r]) /\ ev[r] = said[r]
    BY <1>1, <1>3 DEF ToldInv, Tells, Told, Coming, NotYet
  <2>2. answer[r] # "left" /\ agent[r] # "failed" =>
          Kept(r)' /\ (agent[r] = "runs" => Final(said[r]))
    BY <1>1, <1>2, <2>1 DEF Kept
  <2>3. CASE Interrupts(r)
    <3>1. pc'[r] = "ended" /\ answer'[r] = "result" /\ answer[r] = None
      BY <1>3, <2>3 DEF Process, Interrupts, HandlerInv, HandlerShape
    <3>2. None # "left" /\ ~InLoop(r)'
      BY <3>1, HandlerAssumption DEF Outcomes, InLoop
    <3>3. Told(r)' /\ Settles(r)
      BY <1>1, <2>2, <3>1, <3>2 DEF Told, Settles
    <3>4. ClosedBy(r)' /\ Excused(r)'
      BY <1>1, <3>1, <3>2 DEF ToldInv, Tells, ClosedBy, Excused
    <3>5. QED
      BY <3>3, <3>4 DEF Tells
  <2>4. CASE ~Interrupts(r)
    <3>1. StreamEnds(r, result)
      BY <1>3, <2>4 DEF Process
    <3>2. result = "error" /\ kind[r] \in {"send", "poll"} => FALSE
      <4>1. ev[r] # Absent
        BY <1>1, EventsAre
      <4>2. QED
        BY <1>2, <4>1 DEF ResultAfter
    <3>3. result \in {"result", "error"} /\ closed'[r] = closed[r]
      BY <1>1 DEF ResultAfter
    <3> HIDE DEF result
    <3>4. QED
      BY <1>1, <2>2, <3>1, <3>2, <3>3, EndTells
  <2>5. QED
    BY <2>3, <2>4
<1>4. CASE ~Final(ev[r])
  <2>1. /\ pc'[r] = "top" /\ stored'[task[r]] = ev[r]
        /\ answer'[r] = answer[r] \/ (answer[r] = None /\ answer'[r] = "result")
    <3>1. ev[r] # Message
      BY <1>4, EventsAre
    <3>2. QED
      BY <1>2, <1>4, <3>1 DEF Process, Interrupts, HandlerInv, HandlerShape
  <2>2. ~Hand(r)' /\ ~Over(r)' /\ InLoop(r)' /\ None # "left"
    BY <2>1, HandlerAssumption DEF Hand, Over, InLoop, Outcomes
  <2>3. NotYet(r) => NotYet(r)'
    BY <1>1, <2>1, <2>2, LoopLate DEF NotYet
  <2>4. Final(said[r]) /\ Coming(r) => Coming(r)'
    BY <1>1, <1>4, <2>2, LoopLate DEF Coming
  <2>5. Told(r)' /\ Settles(r)
    BY <1>1, <2>1, <2>2, <2>3, <2>4 DEF ToldInv, Tells, Told, Settles
  <2>6. ClosedBy(r)' /\ Excused(r)'
    BY <1>1, <1>4, <2>1, <2>2, LoopLate DEF ToldInv, Tells, ClosedBy, Excused
  <2>7. QED
    BY <2>5, <2>6 DEF Tells
<1>5. QED
  BY <1>3, <1>4

\* Its client leaves, or is answered.
LEMMA AnswerTells ==
  ASSUME HandlerInv, TurnInv, ToldInv, NEW r \in Request, LoopFrame(r), Disconnect(r) \/ Answer(r)
  PROVE  Tells(r)' /\ Settles(r)
<1>1. CASE Disconnect(r)
  <2>1. kind[r] = "stream" /\ pc'[r] = "top" /\ answer'[r] = "left" /\ kind' = kind
    <3>1. kind[r] \in Senders
      BY <1>1 DEF Disconnect, TurnInv, Stages
    <3>2. QED
      BY <1>1, <3>1 DEF Disconnect, Senders, HandlerInv, HandlerShape
  <2>2. QED
    BY <2>1 DEF Tells, Told, ClosedBy, Excused, Settles
<1>2. CASE Answer(r)
  <2>1. /\ pc[r] \in {"finishing", "failing"} /\ clean[r] \in {"done", "raised"}
        /\ pc'[r] = "ended" /\ answer[r] = None
        /\ answer'[r] = IF pc[r] = "finishing" /\ clean[r] = "done" THEN "result" ELSE "error"
        /\ UNCHANGED <<kind, task, agent, said, closed, stored>>
    BY <1>2 DEF Answer, HandlerInv, HandlerShape, queueVars, agentVars, ToldInv, Tells, Excused
  <2>2. None # "left" /\ ~InLoop(r) /\ ~InLoop(r)' /\ ~Finished(r) /\ Over(r)' = Over(r)
    BY <2>1, HandlerAssumption DEF Outcomes, InLoop, Finished, Over
  <2>3. Told(r)' /\ Settles(r)
    BY <2>1, <2>2 DEF ToldInv, Tells, Told, Settles, Kept
  <2>4. ClosedBy(r)'
    BY <2>1, <2>2 DEF ToldInv, Tells, ClosedBy
  <2>5. Excused(r)'
    BY <2>1 DEF ToldInv, Tells, Excused, TurnInv, Stages
  <2>6. QED
    BY <2>3, <2>4, <2>5 DEF Tells
<1>3. QED
  BY <1>1, <1>2

LEMMA LoopOwnTells ==
  ASSUME ~StoreFails, HandlerInv, TurnInv, ToldInv, NEW r \in Request,
         \/ Look(r) \/ TimesOut(r) \/ Take(r) \/ FindsClosed(r)
         \/ Acknowledge(r) \/ AcknowledgeLast(r) \/ Process(r) \/ ProcessFails(r)
         \/ Disconnect(r) \/ Answer(r)
  PROVE  LoopFrame(r) /\ Tells(r)' /\ Settles(r)
<1>1. LoopFrame(r)
  BY LoopStepTurn
<1>2. ~ProcessFails(r)
  BY DEF ProcessFails
<1>3. QED
  BY <1>1, <1>2, LookTells, TakeTells, FindsClosedTells, AcknowledgeTells, ProcessTells, AnswerTells

-----------------------------------------------------------------------------
(* What follows.                                                           *)

\* Every step keeps the invariant.
LEMMA ToldStep ==
  ASSUME OneByOne, ~StoreFails, HandlerInv, TurnInv, ToldInv, [HandlerNext]_vars
  PROVE  ToldInv'
<1>1. ASSUME NEW r \in Request,
             (\E k \in Kinds, t \in Task : Receive(r, k, t)) \/ CreateOrTap(r)
      PROVE  ToldInv'
  <2>1. TurnInv'
    BY TurnStep
  <2>2. QED
    BY <1>1, <2>1, SetUpTells DEF ToldInv
<1>2. ASSUME NEW r \in Request,
             \/ Look(r) \/ TimesOut(r) \/ Take(r) \/ FindsClosed(r)
             \/ Acknowledge(r) \/ AcknowledgeLast(r) \/ Process(r) \/ ProcessFails(r)
             \/ Disconnect(r) \/ Answer(r)
      PROVE  ToldInv'
  <2>1. LoopFrame(r) /\ Tells(r)'
    BY <1>2, LoopOwnTells
  <2>2. ~Finished(r) /\ pc[r] # "new"
    BY <2>1 DEF LoopFrame, InLoop, Finished
  <2>3. \A s \in Request \ {r} : Tells(s)'
    BY <2>1, <2>2, LoopTells
  <2>4. QED
    BY <2>1, <2>3 DEF ToldInv
<1>3. ASSUME NEW r \in Request,
             \/ \E e \in AgentEvents : AgentPublishes(r, e)
             \/ AgentStep(r) \/ AgentFails(r)
      PROVE  ToldInv'
  <2>1. AgentFrame(r)
    BY <1>3, AgentStepTurn
  <2>2. ~Finished(r)
    BY <2>1, FinishedRests DEF AgentFrame
  <2>3. Tells(r)'
    BY <1>3, <2>1, <2>2, PublishTells, ResumeTells, AgentRestTells DEF AgentStep
  <2>4. \A s \in Request \ {r} : Tells(s)'
    BY <2>1, AgentTells
  <2>5. QED
    BY <2>3, <2>4 DEF ToldInv
<1>4. ASSUME NEW r \in Request, CleanupStep(r) PROVE ToldInv'
  BY <1>4, CleanupStepTurn, CleanupTells DEF ToldInv
<1>5. CASE UNCHANGED vars
  <2>1. \A s \in Request : Tells(s)'
    BY <1>5, TellsSame DEF vars, queueVars, requestVars, agentVars, ToldInv, SameCall, Joins, Finished
  <2>2. QED
    BY <2>1 DEF ToldInv
<1>6. CASE HandlerNext
  BY <1>1, <1>2, <1>3, <1>4, <1>6, TurnSteps
<1>7. QED
  BY <1>5, <1>6

\* message/send answers with the result when its agent came to an end and said
\* anything: its consumer has read all of it by then, and no other request closes
\* or drains its queue.
THEOREM SuccessIsTold ==
  ASSUME OneByOne, ~StoreFails
  PROVE  HandlerSpec => []SuccessIsNotAnError
<1>1. ToldInv => SuccessIsNotAnError
  BY DEF ToldInv, Tells, Excused, SuccessIsNotAnError
<1>2. HandlerSpec => [](HandlerInv /\ TurnInv /\ ToldInv)
  BY HandlerInitInv, HandlerStepInv, TurnInit, TurnStep, ToldInit, ToldStep, PTL DEF HandlerSpec
<1>3. QED
  BY <1>1, <1>2, PTL

\* Nobody leaves.
Stays == \A r \in Request : answer[r] # "left"

LEMMA StaysStep ==
  ASSUME ~ClientsLeave, HandlerInv, TurnInv, Stays, [HandlerNext]_vars
  PROVE  Stays'
<1>1. CASE UNCHANGED vars
  BY <1>1 DEF vars, requestVars, Stays
<1>2. CASE HandlerNext
  <2>1. PICK r \in Request :
          \/ \E k \in Kinds, t \in Task : Receive(r, k, t)
          \/ CreateOrTap(r)
          \/ \/ Look(r) \/ TimesOut(r) \/ Take(r) \/ FindsClosed(r)
             \/ Acknowledge(r) \/ AcknowledgeLast(r) \/ Process(r) \/ ProcessFails(r)
             \/ Disconnect(r) \/ Answer(r)
          \/ \/ \E e \in AgentEvents : AgentPublishes(r, e)
             \/ AgentStep(r) \/ AgentFails(r)
          \/ CleanupStep(r)
    BY <1>2, TurnSteps
  <2>2. answer' = answer \/ \E a \in {"result", "error"} : answer' = [answer EXCEPT ![r] = a]
    BY <2>1
       DEF Receive, CreateOrTap, Look, TimesOut, Take, FindsClosed, Acknowledge, AcknowledgeLast,
           Process, ProcessFails, Disconnect, Answer, StreamEnds, ResultAfter, AgentPublishes,
           AgentStep, AgentReturns, AgentGoes, AgentEnds, AgentFails, CleanupStep, CleanUp,
           CleanupGoes, CleanupEnds, requestVars
  <2>3. QED
    BY <2>2 DEF Stays, HandlerInv, HandlerShape
<1>3. QED
  BY <1>1, <1>2

\* When a request is over and its cleanup was clean, what its agent said last, up to
\* its final event, is in the store: the queue takes it, the loop reads it before
\* it ends, and no other request on the task stores anything in between.
THEOREM FinishedIsStored ==
  ASSUME OneByOne, ~StoreFails, ~ClientsLeave
  PROVE  HandlerSpec => FinishedMeansStored
<1> DEFINE P == \A r \in Request :
                  ~Finished(r) /\ Finished(r)' /\ clean'[r] = "done" =>
                    said'[r] \in {stored'[task[r]], Message, None}
<1>1. ASSUME HandlerInv, TurnInv, ToldInv, Stays, TurnInv', HandlerInv', Stays', [HandlerNext]_vars
      PROVE  [P]_vars
  <2> SUFFICES ASSUME HandlerNext, NEW s \in Request, ~Finished(s), Finished(s)', clean'[s] = "done"
               PROVE  said'[s] \in {stored'[task[s]], Message, None}
    BY <1>1
  <2>1. pc'[s] = "ended" /\ agent'[s] = "done"
    BY <1>1 DEF Finished, HandlerInv, TakenOut
  <2>2. PICK r \in Request :
          \/ (\E k \in Kinds, t \in Task : Receive(r, k, t)) \/ CreateOrTap(r)
          \/ \/ Look(r) \/ TimesOut(r) \/ Take(r) \/ FindsClosed(r)
             \/ Acknowledge(r) \/ AcknowledgeLast(r) \/ Process(r) \/ ProcessFails(r)
             \/ Disconnect(r) \/ Answer(r)
          \/ \/ \E e \in AgentEvents : AgentPublishes(r, e)
             \/ AgentStep(r) \/ AgentFails(r)
          \/ CleanupStep(r)
    BY <1>1, TurnSteps
  <2>3. CASE (\E k \in Kinds, t \in Task : Receive(r, k, t)) \/ CreateOrTap(r)
    <3>1. clean' = clean /\ (s = r => clean[s] = "none")
      BY <1>1, <2>3 DEF Receive, CreateOrTap, HandlerInv, CleanupOnce
    <3>2. pc'[s] = pc[s]
      BY <1>1, <2>3, <3>1 DEF Receive, CreateOrTap, HandlerInv, HandlerShape
    <3>3. QED
      BY <3>1, <3>2 DEF Finished
  <2>4. CASE \/ Look(r) \/ TimesOut(r) \/ Take(r) \/ FindsClosed(r)
             \/ Acknowledge(r) \/ AcknowledgeLast(r) \/ Process(r) \/ ProcessFails(r)
             \/ Disconnect(r) \/ Answer(r)
    <3>1. LoopFrame(r) /\ Settles(r)
      BY <1>1, <2>4, LoopOwnTells
    <3>2. s = r
      BY <3>1 DEF LoopFrame, Finished
    <3>3. agent[r] = "done" /\ answer'[r] # "left" /\ UNCHANGED task
      BY <1>1, <2>1, <3>1, <3>2 DEF LoopFrame, Stays
    <3>4. Kept(r)'
      BY <2>1, <3>1, <3>2, <3>3 DEF Settles, Over, LoopFrame
    <3>5. QED
      BY <3>2, <3>3, <3>4 DEF Kept
  <2>5. CASE \/ \E e \in AgentEvents : AgentPublishes(r, e)
             \/ AgentStep(r) \/ AgentFails(r)
    BY <1>1, <2>5, AgentStepTurn DEF AgentFrame, Finished
  <2>6. CASE CleanupStep(r)
    <3>1. CleanupFrame(r)
      BY <1>1, <2>6, CleanupStepTurn
    <3>2. agent[s] = "done" /\ pc[s] = "ended" /\ UNCHANGED <<said, stored>>
      BY <2>1, <3>1 DEF CleanupFrame
    <3>3. Kept(s)
      BY <1>1, <3>2 DEF ToldInv, Tells, Told, Over, Stays
    <3>4. QED
      BY <3>2, <3>3 DEF Kept
  <2>7. QED
    BY <2>2, <2>3, <2>4, <2>5, <2>6
<1>2. HandlerInit => Stays
  BY HandlerAssumption DEF HandlerInit, Stays, Outcomes
<1>3. HandlerSpec => [](HandlerInv /\ TurnInv /\ ToldInv /\ Stays)
  BY <1>2, HandlerInitInv, HandlerStepInv, TurnInit, TurnStep, ToldInit, ToldStep, StaysStep, PTL
     DEF HandlerSpec
<1>4. HandlerSpec => [][P]_vars
  BY <1>1, <1>3, PTL DEF HandlerSpec
<1>5. QED
  BY <1>4 DEF FinishedMeansStored

-----------------------------------------------------------------------------
(* The queues of the handler are queues of EventQueue.                     *)

\* A coroutine that is stopped where it is, is cancelled or was idle.
LEMMA StoppedIsCancelled ==
  ASSUME NEW p \in Proc, op \in [Proc -> Ops], op' = [op EXCEPT ![p] = Idle],
         UNCHANGED <<created, children, buf, unfinished, held, closed>>
  PROVE  [QueueNext]_queueVars
<1>1. Cancellable = Proc
  BY HandlerAssumption
<1>2. CASE op[p] = Idle
  <2>1. op' = op
    BY <1>2
  <2>2. QED
    BY <2>1 DEF queueVars
<1>3. CASE op[p] # Idle
  BY <1>1, <1>3 DEF QueueNext, Cancel
<1>4. QED
  BY <1>2, <1>3

\* Every step of the handler is a step of its queues, or leaves them alone, but
\* the one that takes two: the final event is acknowledged and its queue closed.
LEMMA HandlerDrivesQueues ==
  ASSUME QueueTypeOK, HandlerInv, [HandlerNext]_vars,
         \A r \in Request : pc[r] # "new" => task[r] \in Task
  PROVE  [QueueNext]_queueVars \/ \E r \in Request : AcknowledgeLast(r)
<1>0. op \in [Proc -> Ops] /\ Request = Queue /\ HandlerShape
  BY DEF QueueTypeOK, Request, HandlerInv
<1>1. \A r \in Request : Consumer(r) \in Proc /\ Agent(r) \in Proc /\ Cleanup(r) \in Proc
  BY Coroutines
<1>2. CASE UNCHANGED vars
  BY <1>2 DEF vars
<1>3. ASSUME NEW r \in Request,
             \/ \E k \in Kinds, t \in Task : Receive(r, k, t)
             \/ Look(r) \/ TimesOut(r) \/ FindsClosed(r) \/ Process(r) \/ Answer(r)
             \/ ProcessFails(r)
      PROVE  [QueueNext]_queueVars
  BY <1>3 DEF Receive, Look, TimesOut, FindsClosed, Process, Answer, ProcessFails
<1>4. ASSUME NEW r \in Request, CreateOrTap(r) \/ TapTask(r) PROVE [QueueNext]_queueVars
  <2>1. \/ Create(r) \/ UNCHANGED queueVars
        \/ taskQueue[task[r]] # None /\ Tap(taskQueue[task[r]], r)
    BY <1>4 DEF CreateOrTap, TapTask
  <2>2. task[r] \in Task
    BY <1>4 DEF CreateOrTap, TapTask
  <2>3. taskQueue[task[r]] \in Request \union {None}
    BY <1>0, <2>2 DEF HandlerShape
  <2>4. ASSUME NEW q \in Queue, Tap(q, r) PROVE QueueNext
    <3>1. q # r
      BY <2>4 DEF Tap
    <3>2. QED
      BY <1>0, <2>4, <3>1 DEF QueueNext, QueueSteps
  <2>5. QED
    BY <1>0, <2>1, <2>3, <2>4 DEF QueueNext, QueueSteps
<1>5. ASSUME NEW p \in Proc, Calls(p) \/ Goes(p) PROVE QueueNext
  BY <1>5 DEF QueueNext, QueueSteps
<1>6. ASSUME NEW r \in Request,
             \/ ExecutorCancels(r) \/ (\E e \in AgentEvents : AgentPublishes(r, e))
             \/ AgentReturns(r)
      PROVE  QueueNext
  <2>1. Update("canceled", TRUE) \in Event /\ AgentEvents \subseteq Event
    BY EventsAre
  <2>2. \/ \E e \in Event : Enqueue(Consumer(r), r, e) \/ Enqueue(Agent(r), r, e)
        \/ CloseGraceful(Agent(r), r)
    BY <1>6, <2>1 DEF ExecutorCancels, AgentPublishes, AgentReturns
  <2>3. Calls(Consumer(r)) \/ Calls(Agent(r))
    BY <1>0, <2>2 DEF Calls
  <2>4. QED
    BY <1>1, <1>5, <2>3
<1>7. ASSUME NEW r \in Request, CleanUp(r) PROVE [QueueNext]_queueVars
  <2>1. CASE UNCHANGED queueVars
    BY <2>1
  <2>2. CASE taskQueue[task[r]] # None /\ CloseGraceful(Cleanup(r), taskQueue[task[r]])
            /\ task[r] \in Task
    <3>1. taskQueue[task[r]] \in Queue
      BY <1>0, <2>2 DEF HandlerShape
    <3>2. Calls(Cleanup(r))
      BY <2>2, <3>1 DEF Calls
    <3>3. QED
      BY <1>1, <1>5, <3>2
  <2>3. QED
    <3>1. task[r] \in Task
      BY <1>7 DEF CleanUp, HandlerInv, CleanupOnce
    <3>2. QED
      BY <1>7, <2>1, <2>2, <3>1 DEF CleanUp
<1>8. ASSUME NEW r \in Request,
             \/ ConsumerGoes(r) \/ CancelRaises(r) \/ AgentGoes(r) \/ AgentEnds(r)
             \/ CleanupGoes(r) \/ CleanupEnds(r)
      PROVE  QueueNext
  <2>1. Goes(Consumer(r)) \/ Goes(Agent(r)) \/ Goes(Cleanup(r))
    BY <1>0, <1>8 DEF ConsumerGoes, CancelRaises, AgentGoes, AgentEnds, CleanupGoes,
                      CleanupEnds, Goes
  <2>2. QED
    BY <1>1, <1>5, <2>1
<1>9. ASSUME NEW r \in Request, AgentFails(r) PROVE [QueueNext]_queueVars
  <2>1. UNCHANGED queueVars \/ Goes(Agent(r))
    BY <1>9 DEF AgentFails, Goes
  <2>2. QED
    BY <1>1, <1>5, <2>1
<1>10. ASSUME NEW r \in Request, Take(r) \/ Acknowledge(r) PROVE QueueNext
  BY <1>0, <1>10 DEF Take, Acknowledge, QueueNext, QueueSteps
<1>11. ASSUME NEW r \in Request, StopAgent(r) \/ Disconnect(r) PROVE [QueueNext]_queueVars
  <2>1. UNCHANGED <<created, children, buf, unfinished, held, closed>>
    BY <1>11 DEF StopAgent, Disconnect
  <2>2. CASE Disconnect(r)
    BY <1>0, <1>1, <2>1, <2>2, StoppedIsCancelled DEF Disconnect
  <2>3. CASE StopAgent(r)
    <3>1. UNCHANGED op \/ (running[task[r]] # None /\ op' = [op EXCEPT ![Agent(running[task[r]])] = Idle])
      BY <2>3 DEF StopAgent
    <3>2. task[r] \in Task
      BY <2>3 DEF StopAgent
    <3>3. running[task[r]] \in Request \union {None}
      BY <1>0, <3>2 DEF HandlerShape
    <3>4. CASE UNCHANGED op
      BY <2>1, <3>4 DEF queueVars
    <3>5. CASE ~UNCHANGED op
      BY <1>0, <1>1, <2>1, <3>1, <3>3, <3>5, StoppedIsCancelled
    <3>6. QED
      BY <3>4, <3>5
  <2>4. QED
    BY <1>11, <2>2, <2>3
<1>12. QED
  BY <1>2, <1>3, <1>4, <1>6, <1>7, <1>8, <1>9, <1>10, <1>11
     DEF HandlerNext, HandlerStep, AgentStep, CleanupStep

\* The final event is acknowledged by the consumer that holds it, and the events
\* left in the queue are cleared: the counts stay exact.
LEMMA AcknowledgeLastKeeps ==
  ASSUME QueueInv, NEW r \in Request, AcknowledgeLast(r), held[r] = 1
  PROVE  QueueInv'
<1> USE DEF QueueInv
<1> DEFINE left == unfinished[r] - 1 - Len(buf[r])
           o == IF Kids(r) # {} THEN ClearOp(r, Kids(r), TRUE) ELSE Idle
<1>1. r \in Queue /\ Consumer(r) \in Proc
  BY Coroutines DEF Request
<1>2. Len(buf[r]) \in Nat /\ unfinished[r] = Len(buf[r]) + 1
  BY <1>1 DEF QueueTypeOK, UnfinishedExact
<1>3. left = 0
  BY <1>2
<1>4. /\ closed' = [closed EXCEPT ![r] = TRUE] /\ buf' = [buf EXCEPT ![r] = <<>>]
      /\ unfinished' = [unfinished EXCEPT ![r] = 0] /\ held' = [held EXCEPT ![r] = @ - 1]
      /\ op' = [Woken({r}) EXCEPT ![Consumer(r)] = o]
      /\ UNCHANGED <<created, children>>
  BY <1>3 DEF AcknowledgeLast, CloseNow
<1>5. o \in Ops /\ o.kind # "put"
  <2>1. Idle \in Ops /\ Idle.kind = "idle"
    BY <1>1, OpType
  <2>2. Kids(r) \in SUBSET Queue
    BY <1>1, KidsType
  <2>3. ClearOp(r, Kids(r), TRUE) \in Ops /\ ClearOp(r, Kids(r), TRUE).kind = "clear"
    BY <1>1, <2>2, OpsMade
  <2>4. QED
    BY <2>1, <2>3
<1> HIDE DEF left, o
<1>6. /\ op' \in [Proc -> Ops]
      /\ \A p \in Proc : op'[p].kind = "put" => op'[p].at <= Len(children'[op'[p].q]) + 1
  BY <1>1, <1>4, <1>5, OpKeeps
<1>7. /\ closed' \in [Queue -> BOOLEAN] /\ buf' \in [Queue -> Seq(Event)]
      /\ unfinished' \in [Queue -> Nat]
  <2>1. <<>> \in Seq(Event)
    OBVIOUS
  <2>2. QED
    BY <1>4, <2>1 DEF QueueTypeOK
<1>8. held' \in [Queue -> Nat] /\ held'[r] = 0 /\ \A q \in Queue \ {r} : held'[q] = held[q]
  BY <1>1, <1>4 DEF QueueTypeOK
<1>9. UnfinishedExact'
  <2>1. buf'[r] = <<>> /\ Len(<<>>) = 0 /\ unfinished'[r] = 0
    BY <1>1, <1>4 DEF QueueTypeOK
  <2>2. \A q \in Queue \ {r} : buf'[q] = buf[q] /\ unfinished'[q] = unfinished[q]
    BY <1>4 DEF QueueTypeOK
  <2>3. QED
    BY <1>8, <2>1, <2>2 DEF UnfinishedExact
<1>10. QED
  BY <1>4, <1>6, <1>7, <1>8, <1>9 DEF QueueTypeOK

\* A consumer holds one event while it has not acknowledged it; a request makes its
\* queue and starts its agent when it is set up, and reads the event it processes.
OneHeld == \A r \in Request : held[r] = IF pc[r] = "got" THEN 1 ELSE 0

SetUpOnce ==
  \A r \in Request :
    /\ pc[r] # "new" => task[r] \in Task /\ kind[r] \in Kinds
    /\ pc[r] \in {"new", "setup"} => r \notin created /\ agent[r] = "none"
    /\ pc[r] \in {"got", "process"} => ev[r] \in EventKind
    /\ agent[r] # "none" <=> kind[r] \in Senders /\ pc[r] # "setup" /\ r \in created

OtherTypes ==
  /\ kind \in [Request -> Kinds \union {None}]
  /\ ev \in [Request -> EventKind \union {None}]
  /\ emitted \in [Request -> 0..MaxEvents]
  /\ said \in [Request -> EventKind \union {None}]
  /\ lock \in Request \union {None}
  /\ stored \in [Task -> EventKind \union {Absent}]


\* A consumer is suspended in a publication only in that of a cancel.
ConsumerPuts == \A r \in Request : op[Consumer(r)].kind = "put" => pc[r] = "stop"

\* No consumer begins a publication.
NoPutMore ==
  \A r \in Request : op'[Consumer(r)].kind = "put" => op[Consumer(r)].kind = "put"

\* A call that one coroutine makes or goes on with begins no publication of a
\* consumer, if it is no publication, or another's, or was one before.
LEMMA OwnPut ==
  ASSUME HandlerShape, NEW p \in Proc, NEW o, NEW zero,
         \/ o.kind # "put" \/ op[p].kind = "put" \/ \A r \in Request : p # Consumer(r),
         \/ op' = op \/ op' = [op EXCEPT ![p] = o]
         \/ op' = Woken(zero) \/ op' = [Woken(zero) EXCEPT ![p] = o]
  PROVE  NoPutMore
<1>1. \A q \in Proc : Woken(zero)[q].kind = "put" => op[q].kind = "put"
  BY DEF Woken
<1>2. Woken(zero) = [q \in Proc |-> Woken(zero)[q]]
  BY DEF Woken
<1>3. \A q \in Proc : op'[q] = op[q] \/ op'[q] = Woken(zero)[q] \/ (q = p /\ op'[q] = o)
  BY <1>2 DEF HandlerShape
<1>4. QED
  BY <1>1, <1>3, Coroutines DEF NoPutMore

\* What goes on is no new publication; ...
LEMMA GoesPutNothing ==
  ASSUME HandlerShape, NEW p \in Proc,
         \/ ResumePut(p) \/ PutRaises(p) \/ ClearedAll(p) \/ CloseReturns(p)
         \/ \E c \in Request : ClearChild(p, c) \/ CloseChild(p, c) \/ StartJoin(p, c)
  PROVE  NoPutMore
<1>1. CASE ResumePut(p)
  <2>1. op[p].kind = "put" /\ \E o : op' = [op EXCEPT ![p] = o]
    BY <1>1 DEF ResumePut, PutFrom
  <2>2. QED
    BY <2>1, OwnPut
<1>2. CASE PutRaises(p) \/ CloseReturns(p)
  <2>1. op' = [op EXCEPT ![p] = Idle] /\ Idle.kind # "put"
    BY <1>2 DEF PutRaises, CloseReturns, Idle
  <2>2. QED
    BY <2>1, OwnPut
<1>3. CASE ClearedAll(p)
  <2>1. (\E zero : op' = [Woken(zero) EXCEPT ![p] = Idle]) /\ Idle.kind # "put"
    BY <1>3 DEF ClearedAll, Idle
  <2>2. QED
    BY <2>1, OwnPut
<1>4. ASSUME NEW c \in Request, ClearChild(p, c) PROVE NoPutMore
  <2> DEFINE w == Woken(Emptied({c}))
  <2>1. op' = [w EXCEPT ![p] = ClearOp(w[p].q, w[p].todo \ {c}, w[p].closing)]
    BY <1>4 DEF ClearChild
  <2>2. ClearOp(w[p].q, w[p].todo \ {c}, w[p].closing).kind # "put"
    BY DEF ClearOp
  <2>3. QED
    BY <2>1, <2>2, OwnPut
<1>5. ASSUME NEW c \in Request, CloseChild(p, c) \/ StartJoin(p, c) PROVE NoPutMore
  <2>1. \E a, b, d : op' = [op EXCEPT ![p] = JoinOp(op[p].q, a, b, d)]
    <3>1. \/ op' = [op EXCEPT ![p] = JoinOp(op[p].q, op[p].shut \ {c},
                       IF closed[c] THEN op[p].start ELSE op[p].start \union {c}, op[p].wait)]
          \/ op' = [op EXCEPT ![p] = JoinOp(op[p].q, op[p].shut, op[p].start \ {c},
                       IF unfinished[c] = 0 THEN op[p].wait ELSE op[p].wait \union {c})]
      BY <1>5 DEF CloseChild, StartJoin
    <3>2. QED
      BY <3>1
  <2>2. \A a, b, d : JoinOp(op[p].q, a, b, d).kind # "put"
    BY DEF JoinOp
  <2>3. PICK a, b, d : op' = [op EXCEPT ![p] = JoinOp(op[p].q, a, b, d)]
    BY <2>1
  <2>4. \E o : op' = [op EXCEPT ![p] = o] /\ o.kind # "put"
    <3> DEFINE o == JoinOp(op[p].q, a, b, d)
    <3>1. op' = [op EXCEPT ![p] = o] /\ o.kind # "put"
      BY <2>2, <2>3
    <3> HIDE DEF o
    <3>2. QED
      BY <3>1
  <2>5. QED
    BY <2>4, OwnPut
<1>6. QED
  BY <1>1, <1>2, <1>3, <1>4, <1>5

\* ... nor is a close; ...
LEMMA ClosePutsNothing ==
  ASSUME HandlerShape, NEW p \in Proc, NEW q, CloseGraceful(p, q)
  PROVE  NoPutMore
<1>1. op' = op \/ op' = [op EXCEPT ![p] = JoinOp(q, Kids(q), {q}, {})]
  BY DEF CloseGraceful, queueVars
<1>2. JoinOp(q, Kids(q), {q}, {}).kind # "put"
  BY DEF JoinOp
<1>3. QED
  BY <1>1, <1>2, OwnPut

\* ... so only the executor's cancel makes one, and the handler goes on when it is
\* over.
LEMMA ConsumerPutsStep ==
  ASSUME HandlerInv, ConsumerPuts, [HandlerNext]_vars,
         \A r \in Request : pc[r] # "new" => task[r] \in Task
  PROVE  ConsumerPuts'
<1> USE DEF ConsumerPuts
<1>0. HandlerShape /\ Idle.kind # "put" /\ pc \in [Request -> Places]
      /\ op = [p \in Proc |-> op[p]]
  BY DEF HandlerInv, HandlerShape, Idle
<1>1. \A r \in Request : Consumer(r) \in Proc /\ Agent(r) \in Proc /\ Cleanup(r) \in Proc
  BY Coroutines
<1>2. \A r, s \in Request : Agent(r) # Consumer(s) /\ (r # s => Consumer(r) # Consumer(s))
  BY Apart
<1>3. ASSUME NoPutMore,
             pc' = pc \/ \E r \in Request : \E place : pc' = [pc EXCEPT ![r] = place]
                                                  /\ op[Consumer(r)].kind # "put"
      PROVE  ConsumerPuts'
  BY <1>0, <1>3 DEF NoPutMore
<1>4. UNCHANGED op => NoPutMore
  BY DEF NoPutMore
<1>5. CASE UNCHANGED vars
  BY <1>3, <1>4, <1>5 DEF vars, queueVars, requestVars
<1>6. ASSUME NEW r \in Request, NEW k \in Kinds, NEW t \in Task, Receive(r, k, t)
      PROVE  ConsumerPuts'
  <2>1. UNCHANGED op /\ pc[r] = "new" /\ \E place : pc' = [pc EXCEPT ![r] = place]
    BY <1>6 DEF Receive, queueVars
  <2>2. QED
    BY <1>3, <1>4, <2>1
<1>7. ASSUME NEW r \in Request,
             CreateOrTap(r) \/ TapTask(r) \/ TimesOut(r) \/ Answer(r) \/ Take(r)
      PROVE  ConsumerPuts'
  <2>1. UNCHANGED op /\ pc[r] # "stop" /\ \E place : pc' = [pc EXCEPT ![r] = place]
    BY <1>7 DEF CreateOrTap, TapTask, TimesOut, Answer, Take, Create, Tap, Dequeue, queueVars
  <2>2. QED
    BY <1>3, <1>4, <2>1
<1>8. ASSUME NEW r \in Request, Look(r) \/ FindsClosed(r) \/ Process(r) \/ ProcessFails(r)
      PROVE  ConsumerPuts'
  <2>1. UNCHANGED op /\ pc[r] # "stop"
    BY <1>8 DEF Look, FindsClosed, Process, ProcessFails, queueVars
  <2>2. \E place : pc' = [pc EXCEPT ![r] = place]
    BY <1>8 DEF Look, FindsClosed, Process, ProcessFails, StreamEnds
  <2>3. QED
    BY <1>3, <1>4, <2>1, <2>2
<1>9. ASSUME NEW r \in Request, Acknowledge(r) \/ AcknowledgeLast(r) PROVE ConsumerPuts'
  <2>1. pc[r] = "got" /\ pc' = [pc EXCEPT ![r] = "process"]
    BY <1>9 DEF Acknowledge, AcknowledgeLast
  <2>2. CASE Acknowledge(r)
    <3>1. op' = op \/ op' = Woken({r})
      BY <2>2 DEF Acknowledge, TaskDone
    <3>2. NoPutMore
      BY <1>0, <1>1, <3>1, OwnPut
    <3>3. QED
      BY <1>3, <2>1, <3>2
  <2>3. CASE AcknowledgeLast(r)
    <3>1. PICK zero : op' = [Woken(zero) EXCEPT ![Consumer(r)] =
                               IF Kids(r) # {} THEN ClearOp(r, Kids(r), TRUE) ELSE Idle]
      BY <2>3 DEF AcknowledgeLast, CloseNow
    <3>2. ClearOp(r, Kids(r), TRUE).kind # "put"
      BY DEF ClearOp
    <3>3. NoPutMore
      BY <1>0, <1>1, <3>1, <3>2, OwnPut
    <3>4. QED
      BY <1>3, <2>1, <3>3
  <2>4. QED
    BY <1>9, <2>2, <2>3
<1>10. ASSUME NEW r \in Request, ExecutorCancels(r) PROVE ConsumerPuts'
  <2>1. pc' = [pc EXCEPT ![r] = "stop"] /\ (op' = op \/ \E o : op' = [op EXCEPT ![Consumer(r)] = o])
    BY <1>10 DEF ExecutorCancels, Enqueue, PutFrom, queueVars
  <2>2. pc'[r] = "stop" /\ \A s \in Request : s # r => pc'[s] = pc[s]
    BY <1>0, <2>1
  <2>3. \A s \in Request : s # r => op'[Consumer(s)] = op[Consumer(s)]
    BY <1>0, <1>1, <1>2, <2>1
  <2>4. QED
    BY <2>2, <2>3
<1>11. ASSUME NEW r \in Request, CancelRaises(r) PROVE ConsumerPuts'
  <2>1. /\ op' = [op EXCEPT ![Consumer(r)] = Idle]
        /\ pc' = [pc EXCEPT ![r] = "ended"]
    BY <1>11 DEF CancelRaises, PutRaises
  <2>2. op'[Consumer(r)] = Idle /\ \A s \in Request : s # r => pc'[s] = pc[s]
    BY <1>0, <1>1, <2>1
  <2>3. \A s \in Request : s # r => op'[Consumer(s)] = op[Consumer(s)]
    BY <1>0, <1>1, <1>2, <2>1
  <2>4. QED
    BY <1>0, <2>2, <2>3
<1>12. ASSUME NEW r \in Request, StopAgent(r) PROVE ConsumerPuts'
  <2>1. op[Consumer(r)].kind # "put" /\ pc' = [pc EXCEPT ![r] = "top"]
        /\ (op' = op \/ (running[task[r]] # None
                         /\ op' = [op EXCEPT ![Agent(running[task[r]])] = Idle]))
    BY <1>0, <1>12 DEF StopAgent
  <2>2. running[task[r]] \in Request \union {None}
    BY <1>0, <1>12 DEF StopAgent, HandlerShape
  <2>3. NoPutMore
    BY <1>0, <1>1, <1>4, <2>1, <2>2, OwnPut
  <2>4. QED
    BY <1>3, <2>1, <2>3
<1>13. ASSUME NEW r \in Request, Disconnect(r) PROVE ConsumerPuts'
  <2>1. pc[r] # "stop" /\ op' = [op EXCEPT ![Consumer(r)] = Idle]
        /\ \E place : pc' = [pc EXCEPT ![r] = place]
    BY <1>13 DEF Disconnect
  <2>2. NoPutMore
    BY <1>0, <1>1, <2>1, OwnPut
  <2>3. QED
    BY <1>3, <2>1, <2>2
<1>14. ASSUME NEW r \in Request,
              \/ ConsumerGoes(r) \/ (\E e \in AgentEvents : AgentPublishes(r, e))
              \/ AgentStep(r) \/ AgentFails(r) \/ CleanupStep(r)
       PROVE  ConsumerPuts'
  <2>1. UNCHANGED pc
    BY <1>14 DEF ConsumerGoes, AgentPublishes, AgentStep, AgentReturns, AgentGoes, AgentEnds,
                 AgentFails, CleanupStep, CleanUp, CleanupGoes, CleanupEnds, requestVars
  <2>2. CASE ConsumerGoes(r) \/ AgentGoes(r) \/ AgentEnds(r) \/ CleanupGoes(r) \/ CleanupEnds(r)
    BY <1>0, <1>1, <1>3, <2>1, <2>2, GoesPutNothing
       DEF ConsumerGoes, AgentGoes, AgentEnds, CleanupGoes, CleanupEnds
  <2>3. CASE \E e \in AgentEvents : AgentPublishes(r, e)
    <3>1. op' = op \/ \E o : op' = [op EXCEPT ![Agent(r)] = o]
      BY <2>3 DEF AgentPublishes, Enqueue, PutFrom, queueVars
    <3>2. NoPutMore
      BY <1>0, <1>1, <1>2, <1>4, <3>1, OwnPut
    <3>3. QED
      BY <1>3, <2>1, <3>2
  <2>4. CASE AgentReturns(r) \/ CleanUp(r)
    <3>1. UNCHANGED op \/ \E q : CloseGraceful(Agent(r), q) \/ CloseGraceful(Cleanup(r), q)
      BY <2>4 DEF AgentReturns, CleanUp, queueVars
    <3>2. NoPutMore
      BY <1>0, <1>1, <1>4, <3>1, ClosePutsNothing
    <3>3. QED
      BY <1>3, <2>1, <3>2
  <2>5. CASE AgentFails(r)
    <3>1. UNCHANGED op \/ PutRaises(Agent(r))
      BY <2>5 DEF AgentFails, queueVars
    <3>2. NoPutMore
      BY <1>0, <1>1, <1>4, <3>1, GoesPutNothing
    <3>3. QED
      BY <1>3, <2>1, <3>2
  <2>6. QED
    BY <1>14, <2>2, <2>3, <2>4, <2>5 DEF AgentStep, CleanupStep
<1>15. QED
  BY <1>5, <1>6, <1>7, <1>8, <1>9, <1>10, <1>11, <1>12, <1>13, <1>14 DEF HandlerNext, HandlerStep

\* The consumer takes one event at a time.
LEMMA OneHeldStep ==
  ASSUME HandlerInv, QueueTypeOK, ConsumerPuts, OneHeld, [HandlerNext]_vars
  PROVE  OneHeld'
<1> USE DEF OneHeld
<1>1. /\ pc \in [Request -> Places] /\ held \in [Request -> Nat]
  BY DEF HandlerInv, HandlerShape, QueueTypeOK, Request
<1>2. ASSUME UNCHANGED held,
             pc' = pc \/ \E r \in Request : \E place : pc' = [pc EXCEPT ![r] = place]
                                                  /\ pc[r] # "got" /\ place # "got"
      PROVE  OneHeld'
  BY <1>1, <1>2
<1>3. ASSUME UNCHANGED <<held, pc>> PROVE OneHeld'
  BY <1>3
<1>4. CASE UNCHANGED vars
  BY <1>3, <1>4 DEF vars, queueVars, requestVars
<1>5. ASSUME NEW r \in Request, NEW k \in Kinds, NEW t \in Task, Receive(r, k, t)
      PROVE  OneHeld'
  BY <1>2, <1>5 DEF Receive, queueVars
<1>6. ASSUME NEW r \in Request,
             \/ CreateOrTap(r) \/ TapTask(r) \/ ExecutorCancels(r) \/ StopAgent(r) \/ CancelRaises(r)
             \/ TimesOut(r) \/ Answer(r) \/ Disconnect(r)
      PROVE  OneHeld'
  <2>1. UNCHANGED held
    BY <1>6 DEF CreateOrTap, TapTask, ExecutorCancels, StopAgent, TimesOut, Answer, CancelRaises,
                Disconnect, Create, Tap, Enqueue, PutFrom, PutRaises, queueVars
  <2>2. CASE CancelRaises(r)
    <3>1. pc' = [pc EXCEPT ![r] = "ended"] /\ op[Consumer(r)].kind = "put"
      BY <2>2 DEF CancelRaises, PutRaises
    <3>2. pc[r] # "got"
      BY <3>1 DEF ConsumerPuts
    <3>3. QED
      BY <1>2, <2>1, <3>1, <3>2
  <2>3. CASE ~CancelRaises(r)
    <3>1. \E place : pc' = [pc EXCEPT ![r] = place] /\ pc[r] # "got" /\ place # "got"
      BY <1>6, <2>3 DEF CreateOrTap, TapTask, ExecutorCancels, StopAgent, TimesOut, Answer,
                        Disconnect
    <3>2. QED
      BY <1>2, <2>1, <3>1
  <2>4. QED
    BY <2>2, <2>3
<1>7. ASSUME NEW r \in Request, Look(r) \/ FindsClosed(r) \/ Process(r) \/ ProcessFails(r)
      PROVE  OneHeld'
  <2>1. UNCHANGED held /\ pc[r] # "got"
    BY <1>7 DEF Look, FindsClosed, Process, ProcessFails, queueVars
  <2>2. \E place : pc' = [pc EXCEPT ![r] = place] /\ place # "got"
    BY <1>7 DEF Look, FindsClosed, Process, ProcessFails, StreamEnds
  <2>3. QED
    BY <1>2, <2>1, <2>2
<1>8. ASSUME NEW r \in Request, Take(r) PROVE OneHeld'
  <2>1. pc[r] = "wait" /\ held' = [held EXCEPT ![r] = @ + 1] /\ pc' = [pc EXCEPT ![r] = "got"]
    BY <1>8 DEF Take, Dequeue
  <2>2. QED
    BY <1>1, <2>1
<1>9. ASSUME NEW r \in Request, Acknowledge(r) \/ AcknowledgeLast(r) PROVE OneHeld'
  <2>1. pc[r] = "got" /\ held' = [held EXCEPT ![r] = @ - 1] /\ pc' = [pc EXCEPT ![r] = "process"]
    BY <1>9 DEF Acknowledge, AcknowledgeLast, TaskDone
  <2>2. QED
    BY <1>1, <2>1
<1>10. ASSUME NEW r \in Request,
              \/ ConsumerGoes(r) \/ (\E e \in AgentEvents : AgentPublishes(r, e))
              \/ AgentStep(r) \/ AgentFails(r) \/ CleanupStep(r)
       PROVE  OneHeld'
  <2>1. UNCHANGED pc
    BY <1>10 DEF ConsumerGoes, AgentPublishes, AgentStep, AgentReturns, AgentGoes, AgentEnds,
                 AgentFails, CleanupStep, CleanUp, CleanupGoes, CleanupEnds, requestVars
  <2>2. CASE ConsumerGoes(r)
    BY <1>3, <2>1, <2>2 DEF ConsumerGoes, ResumePut, PutFrom, ClearChild, ClearedAll
  <2>3. CASE \E e \in AgentEvents : AgentPublishes(r, e)
    BY <1>3, <2>1, <2>3 DEF AgentPublishes, Enqueue, PutFrom, queueVars
  <2>4. CASE AgentStep(r)
    BY <1>3, <2>1, <2>4 DEF AgentStep, AgentReturns, AgentGoes, AgentEnds, CloseGraceful, ResumePut,
                            PutFrom, CloseChild, StartJoin, CloseReturns, queueVars
  <2>5. CASE AgentFails(r)
    BY <1>3, <2>1, <2>5 DEF AgentFails, PutRaises, queueVars
  <2>6. CASE CleanupStep(r)
    BY <1>3, <2>1, <2>6 DEF CleanupStep, CleanUp, CleanupGoes, CleanupEnds, CloseGraceful,
                            CloseChild, StartJoin, CloseReturns, queueVars
  <2>7. QED
    BY <1>10, <2>2, <2>3, <2>4, <2>5, <2>6
<1>11. QED
  BY <1>4, <1>5, <1>6, <1>7, <1>8, <1>9, <1>10 DEF HandlerNext, HandlerStep

\* Who has no agent makes no calls of one.
AgentCalls == \A r \in Request : op[Agent(r)].kind # "idle" => agent[r] # "none"

\* Nobody else's call becomes another.
OthersKeep(p) == \A q \in Proc \ {p} : op'[q].kind = op[q].kind

\* What a coroutine writes in its own place, and waking others, is no call of others.
LEMMA OwnKind ==
  ASSUME QueueTypeOK, NEW p \in Proc, NEW o, NEW zero,
         \/ op' = op \/ op' = [op EXCEPT ![p] = o]
         \/ op' = Woken(zero) \/ op' = [Woken(zero) EXCEPT ![p] = o]
  PROVE  OthersKeep(p)
<1>1. op \in [Proc -> Ops] /\ Woken(zero) \in [Proc -> Ops]
  BY WokenType DEF QueueTypeOK
<1>2. \A q \in Proc : Woken(zero)[q].kind = op[q].kind
  <2>1. \A a, b, c, d : JoinOp(a, b, c, d).kind = "join"
    BY DEF JoinOp
  <2>2. ASSUME NEW q \in Proc, op[q].kind = "join" PROVE Woken(zero)[q].kind = "join"
    <3>1. Woken(zero)[q] = JoinOp(op[q].q, op[q].shut, op[q].start, op[q].wait \ zero)
      BY <2>2, WokenType
    <3>2. QED
      BY <2>1, <3>1
  <2>3. \A q \in Proc : op[q].kind # "join" => Woken(zero)[q] = op[q]
    BY WokenType
  <2>4. QED
    BY <2>2, <2>3
<1>3. QED
  BY <1>1, <1>2 DEF OthersKeep

\* So every call of a coroutine, and what goes on with it, leaves the others theirs.
LEMMA OwnCallOnly ==
  ASSUME QueueTypeOK, NEW p \in Proc,
         \/ Goes(p) \/ \E q : CloseGraceful(p, q) \/ \E e : Enqueue(p, q, e)
  PROVE  OthersKeep(p)
<1>1. CASE UNCHANGED op
  BY <1>1 DEF OthersKeep
<1>2. CASE \E zero, o : op' = [op EXCEPT ![p] = o] \/ op' = [Woken(zero) EXCEPT ![p] = o]
  BY <1>2, OwnKind
<1>3. ASSUME NEW q, CloseGraceful(p, q) \/ \E e : Enqueue(p, q, e) PROVE OthersKeep(p)
  BY <1>1, <1>2, <1>3 DEF CloseGraceful, Enqueue, PutFrom, queueVars
<1>4. CASE Goes(p)
  <2>1. CASE ResumePut(p) \/ PutRaises(p) \/ CloseReturns(p)
    BY <1>2, <2>1 DEF ResumePut, PutFrom, PutRaises, CloseReturns
  <2>2. CASE ClearedAll(p)
    BY <1>2, <2>2 DEF ClearedAll
  <2>3. ASSUME NEW c \in Queue, ClearChild(p, c) PROVE OthersKeep(p)
    <3> DEFINE w == Woken(Emptied({c}))
    <3>1. op' = [w EXCEPT ![p] = ClearOp(w[p].q, w[p].todo \ {c}, w[p].closing)]
      BY <2>3 DEF ClearChild
    <3>2. QED
      BY <3>1, OwnKind
  <2>4. ASSUME NEW c \in Queue, CloseChild(p, c) \/ StartJoin(p, c) PROVE OthersKeep(p)
    <3>1. \/ op' = [op EXCEPT ![p] = JoinOp(op[p].q, op[p].shut \ {c},
                       IF closed[c] THEN op[p].start ELSE op[p].start \union {c}, op[p].wait)]
          \/ op' = [op EXCEPT ![p] = JoinOp(op[p].q, op[p].shut, op[p].start \ {c},
                       IF unfinished[c] = 0 THEN op[p].wait ELSE op[p].wait \union {c})]
      BY <2>4 DEF CloseChild, StartJoin
    <3>2. QED
      BY <3>1, OwnKind
  <2>5. QED
    BY <1>4, <2>1, <2>2, <2>3, <2>4 DEF Goes
<1>5. QED
  BY <1>3, <1>4

\* What goes on was a call.
LEMMA GoesIsCall == \A p : Goes(p) => op[p].kind # "idle"
BY DEF Goes, ResumePut, PutRaises, ClearChild, CloseChild, StartJoin, ClearedAll, CloseReturns

\* Agents that are started stay, so only they make calls.
LEMMA AgentCallsStep ==
  ASSUME HandlerInv, QueueTypeOK, AgentCalls, [HandlerNext]_vars,
         \A r \in Request : pc[r] # "new" => task[r] \in Task
  PROVE  AgentCalls'
<1> USE DEF AgentCalls
<1>0. /\ op \in [Proc -> Ops] /\ agent \in [Request -> Agents] /\ HandlerShape /\ Request = Queue
  BY DEF HandlerInv, HandlerShape, QueueTypeOK, Request
<1>1. /\ \A r \in Request : Consumer(r) \in Proc /\ Agent(r) \in Proc /\ Cleanup(r) \in Proc
      /\ \A r, s \in Request : Agent(r) # Consumer(s) /\ Agent(r) # Cleanup(s)
                               /\ (r # s => Agent(r) # Agent(s))
  BY Apart
<1>2. ASSUME \A s \in Request : agent[s] # "none" => agent'[s] # "none",
             UNCHANGED op \/ \E r \in Request :
               \/ OthersKeep(Consumer(r)) \/ OthersKeep(Cleanup(r))
               \/ OthersKeep(Agent(r)) /\ agent[r] # "none"
      PROVE  AgentCalls'
  BY <1>1, <1>2 DEF OthersKeep
<1>3. CASE UNCHANGED vars
  BY <1>2, <1>3 DEF vars, queueVars, agentVars
<1>4. ASSUME NEW r \in Request,
             \/ \E k \in Kinds, t \in Task : Receive(r, k, t)
             \/ TapTask(r) \/ Look(r) \/ TimesOut(r) \/ FindsClosed(r) \/ Process(r)
             \/ Answer(r) \/ ProcessFails(r) \/ Take(r)
      PROVE  AgentCalls'
  BY <1>2, <1>4 DEF Receive, TapTask, Look, TimesOut, FindsClosed, Process, Answer, ProcessFails,
                    Take, Create, Tap, Dequeue, queueVars, agentVars
<1>5. ASSUME NEW r \in Request, CreateOrTap(r) PROVE AgentCalls'
  <2>1. UNCHANGED op /\ agent' = [agent EXCEPT ![r] = "runs"]
    BY <1>5 DEF CreateOrTap, Create, Tap
  <2>2. QED
    BY <1>0, <1>2, <2>1
<1>6. ASSUME NEW r \in Request, ExecutorCancels(r) \/ ConsumerGoes(r) \/ CancelRaises(r)
      PROVE  AgentCalls'
  <2>1. UNCHANGED agent
    BY <1>6 DEF ExecutorCancels, ConsumerGoes, CancelRaises, agentVars
  <2>2. Goes(Consumer(r)) \/ \E q, e : Enqueue(Consumer(r), q, e)
    BY <1>0, <1>6 DEF ExecutorCancels, ConsumerGoes, CancelRaises, Goes
  <2>3. OthersKeep(Consumer(r))
    BY <1>1, <2>2, OwnCallOnly
  <2>4. QED
    BY <1>2, <2>1, <2>3
<1>7. ASSUME NEW r \in Request, Acknowledge(r) \/ AcknowledgeLast(r) PROVE AgentCalls'
  <2>1. UNCHANGED agent
    BY <1>7 DEF Acknowledge, AcknowledgeLast, agentVars
  <2>2. \E zero, o : op' = op \/ op' = Woken(zero) \/ op' = [Woken(zero) EXCEPT ![Consumer(r)] = o]
    BY <1>7 DEF Acknowledge, AcknowledgeLast, TaskDone, CloseNow
  <2>3. OthersKeep(Consumer(r))
    BY <1>1, <2>2, OwnKind
  <2>4. QED
    BY <1>2, <2>1, <2>3
<1>8. ASSUME NEW r \in Request, StopAgent(r) PROVE AgentCalls'
  <2>1. \/ UNCHANGED <<agent, op>>
        \/ /\ agent[running[task[r]]] \in {"runs", "closes"} /\ running[task[r]] # None
           /\ agent' = [agent EXCEPT ![running[task[r]]] = "cancelled"]
           /\ op' = [op EXCEPT ![Agent(running[task[r]])] = Idle]
    BY <1>8 DEF StopAgent
  <2>2. running[task[r]] \in Request \union {None}
    BY <1>0, <1>8 DEF StopAgent, HandlerShape
  <2>3. CASE UNCHANGED <<agent, op>>
    BY <1>2, <2>3
  <2>4. CASE ~UNCHANGED <<agent, op>>
    <3>1. PICK s \in Request : /\ agent[s] \in {"runs", "closes"}
                               /\ agent' = [agent EXCEPT ![s] = "cancelled"]
                               /\ op' = [op EXCEPT ![Agent(s)] = Idle]
      BY <2>1, <2>2, <2>4
    <3>2. OthersKeep(Agent(s))
      BY <1>1, <3>1, OwnKind
    <3>3. QED
      BY <1>0, <1>2, <3>1, <3>2
  <2>5. QED
    BY <2>3, <2>4
<1>9. ASSUME NEW r \in Request, Disconnect(r) PROVE AgentCalls'
  <2>1. UNCHANGED agent /\ op' = [op EXCEPT ![Consumer(r)] = Idle]
    BY <1>9 DEF Disconnect, agentVars
  <2>2. OthersKeep(Consumer(r))
    BY <1>1, <2>1, OwnKind
  <2>3. QED
    BY <1>2, <2>1, <2>2
<1>10. ASSUME NEW r \in Request,
              \/ \E e \in AgentEvents : AgentPublishes(r, e)
              \/ AgentStep(r) \/ AgentFails(r)
       PROVE  AgentCalls'
  <2>1. /\ UNCHANGED agent \/ \E a \in Agents \ {"none"} : agent' = [agent EXCEPT ![r] = a]
        /\ agent[r] = "runs" \/ Goes(Agent(r))
    <3>1. CASE (\E e \in AgentEvents : AgentPublishes(r, e)) \/ AgentReturns(r) \/ AgentFails(r)
      BY <3>1 DEF AgentPublishes, AgentReturns, AgentFails, Agents
    <3>2. CASE AgentGoes(r) \/ AgentEnds(r)
      <4>1. Goes(Agent(r))
        BY <1>0, <3>2 DEF AgentGoes, AgentEnds, Goes
      <4>2. UNCHANGED agent \/ agent' = [agent EXCEPT ![r] = "done"]
        BY <3>2 DEF AgentGoes, AgentEnds, agentVars
      <4>3. QED
        BY <4>1, <4>2 DEF Agents
    <3>3. QED
      BY <1>10, <3>1, <3>2 DEF AgentStep
  <2>2. agent[r] # "none"
    BY <2>1, GoesIsCall
  <2>3. \/ UNCHANGED op
        \/ Goes(Agent(r)) \/ (\E e : Enqueue(Agent(r), r, e)) \/ CloseGraceful(Agent(r), r)
    BY <1>0, <1>10 DEF AgentPublishes, AgentStep, AgentReturns, AgentGoes, AgentEnds, AgentFails,
                       Goes, queueVars
  <2>4. UNCHANGED op \/ OthersKeep(Agent(r))
    BY <1>1, <2>3, OwnCallOnly
  <2>5. \A s \in Request : agent[s] # "none" => agent'[s] # "none"
    BY <1>0, <2>1
  <2>6. QED
    BY <1>2, <2>2, <2>4, <2>5
<1>11. ASSUME NEW r \in Request, CleanupStep(r) PROVE AgentCalls'
  <2>1. UNCHANGED agent
    BY <1>11 DEF CleanupStep, CleanUp, CleanupGoes, CleanupEnds, agentVars
  <2>2. UNCHANGED op \/ Goes(Cleanup(r)) \/ \E q : CloseGraceful(Cleanup(r), q)
    BY <1>0, <1>11 DEF CleanupStep, CleanUp, CleanupGoes, CleanupEnds, Goes, queueVars
  <2>3. UNCHANGED op \/ OthersKeep(Cleanup(r))
    BY <1>1, <2>2, OwnCallOnly
  <2>4. QED
    BY <1>2, <2>1, <2>3
<1>12. QED
  BY <1>3, <1>4, <1>5, <1>6, <1>7, <1>8, <1>9, <1>10, <1>11 DEF HandlerNext, HandlerStep

\* A request comes in once, is set up once, and has an agent from then on.
LEMMA SetUpOnceStep ==
  ASSUME HandlerInv, QueueTypeOK, ConsumerPuts, SetUpOnce, OtherTypes, [HandlerNext]_vars,
         AgentCalls
  PROVE  SetUpOnce'
<1> USE DEF SetUpOnce
<1>0. /\ pc \in [Request -> Places] /\ agent \in [Request -> Agents]
      /\ task \in [Request -> Task \union {None}]
      /\ buf \in [Request -> Seq(EventKind)] /\ Senders \intersect {"resubscribe", "cancel"} = {}
  BY HandlerAssumption DEF HandlerInv, HandlerShape, QueueTypeOK, Request, Senders
<1>1. ASSUME UNCHANGED <<kind, task, created, ev>>,
             \A r \in Request :
               /\ pc'[r] = pc[r] \/ (pc[r] \notin {"new", "setup"} /\ pc'[r] \notin {"new", "setup"})
               /\ pc'[r] \in {"got", "process"} => pc[r] \in {"got", "process"}
               /\ agent'[r] = agent[r] \/ (agent[r] # "none" /\ agent'[r] # "none")
      PROVE  SetUpOnce'
  BY <1>1
<1>2. CASE UNCHANGED vars
  BY <1>1, <1>2 DEF vars, queueVars, requestVars, agentVars
<1>3. ASSUME NEW r \in Request, NEW k \in Kinds, NEW t \in Task, Receive(r, k, t)
      PROVE  SetUpOnce'
  <2>1. /\ pc[r] = "new" /\ kind' = [kind EXCEPT ![r] = k] /\ task' = [task EXCEPT ![r] = t]
        /\ pc' = [pc EXCEPT ![r] = "setup"] \/ pc' = [pc EXCEPT ![r] = "ended"]
        /\ UNCHANGED <<created, ev, agent>>
    BY <1>3 DEF Receive, queueVars, agentVars
  <2>2. \A s \in Request : s # r => kind'[s] = kind[s] /\ task'[s] = task[s] /\ pc'[s] = pc[s]
    BY <1>0, <2>1 DEF OtherTypes
  <2>3. (pc'[r] = "setup" \/ pc'[r] = "ended") /\ r \notin created /\ agent[r] = "none"
    BY <1>0, <2>1
  <2>4. task'[r] = t
    BY <1>0, <2>1
  <2>5. kind'[r] = k
    BY <2>1 DEF OtherTypes
  <2>6. QED
    BY <2>1, <2>2, <2>3, <2>4, <2>5
<1>4. ASSUME NEW r \in Request, CreateOrTap(r) PROVE SetUpOnce'
  <2>1. /\ pc[r] = "setup" /\ kind[r] \in Senders /\ pc' = [pc EXCEPT ![r] = "top"]
        /\ agent' = [agent EXCEPT ![r] = "runs"] /\ created' = created \union {r}
        /\ UNCHANGED <<kind, task, ev>>
    BY <1>4 DEF CreateOrTap, Create, Tap
  <2>2. pc'[r] = "top" /\ agent'[r] = "runs"
        /\ \A s \in Request : s # r => pc'[s] = pc[s] /\ agent'[s] = agent[s]
    BY <1>0, <2>1
  <2>3. QED
    BY <2>1, <2>2
<1>5. ASSUME NEW r \in Request, TapTask(r) PROVE SetUpOnce'
  <2>1. /\ pc[r] = "setup" /\ kind[r] \notin Senders
        /\ \E place \in {"cancel", "top", "ended"} : pc' = [pc EXCEPT ![r] = place]
        /\ created' = created \/ created' = created \union {r}
        /\ UNCHANGED <<kind, task, ev, agent>>
    BY <1>0, <1>5 DEF TapTask, Create, Tap, queueVars
  <2>2. pc'[r] \in {"cancel", "top", "ended"} /\ \A s \in Request : s # r => pc'[s] = pc[s]
    BY <1>0, <2>1
  <2>3. QED
    BY <2>1, <2>2
<1>6. ASSUME NEW r \in Request, Take(r) PROVE SetUpOnce'
  <2>1. /\ pc[r] = "wait" /\ pc' = [pc EXCEPT ![r] = "got"] /\ ev' = [ev EXCEPT ![r] = Head(buf[r])]
        /\ buf[r] # <<>> /\ UNCHANGED <<kind, task, created, agent>>
    BY <1>6 DEF Take, Dequeue, agentVars
  <2>2. Head(buf[r]) \in EventKind
    BY <1>0, <2>1
  <2>3. pc'[r] = "got" /\ ev'[r] = Head(buf[r])
        /\ \A s \in Request : s # r => pc'[s] = pc[s] /\ ev'[s] = ev[s]
    BY <1>0, <2>1 DEF OtherTypes
  <2>4. QED
    BY <2>1, <2>2, <2>3
<1>7. ASSUME NEW r \in Request,
             \/ ExecutorCancels(r) \/ TimesOut(r) \/ Acknowledge(r) \/ AcknowledgeLast(r)
             \/ CancelRaises(r) \/ Answer(r) \/ Disconnect(r)
      PROVE  SetUpOnce'
  <2>1. UNCHANGED <<kind, task, created, ev, agent>>
    BY <1>7 DEF ExecutorCancels, TimesOut, Acknowledge, AcknowledgeLast, CancelRaises, Answer,
                Disconnect, Enqueue, PutFrom, TaskDone, PutRaises, CloseNow, queueVars, agentVars
  <2>2. CASE ~CancelRaises(r)
    <3>1. /\ pc[r] \notin {"new", "setup"}
          /\ \/ pc[r] = "got" /\ pc' = [pc EXCEPT ![r] = "process"]
             \/ \E place \in {"stop", "top", "ended"} : pc' = [pc EXCEPT ![r] = place]
      BY <1>7, <2>2 DEF ExecutorCancels, TimesOut, Acknowledge, AcknowledgeLast, Answer, Disconnect
    <3>2. /\ pc'[r] \notin {"new", "setup"}
          /\ pc'[r] \in {"got", "process"} => pc[r] \in {"got", "process"}
          /\ \A s \in Request : s # r => pc'[s] = pc[s]
      BY <1>0, <3>1
    <3>3. QED
      BY <1>1, <2>1, <3>1, <3>2
  <2>3. CASE CancelRaises(r)
    <3>1. pc' = [pc EXCEPT ![r] = "ended"] /\ op[Consumer(r)].kind = "put"
      BY <2>3 DEF CancelRaises, PutRaises
    <3>2. pc[r] = "stop"
      BY <3>1 DEF ConsumerPuts
    <3>3. pc'[r] = "ended" /\ \A s \in Request : s # r => pc'[s] = pc[s]
      BY <1>0, <3>1
    <3>4. QED
      BY <1>1, <2>1, <3>2, <3>3
  <2>4. QED
    BY <2>2, <2>3
<1>8. ASSUME NEW r \in Request, Look(r) \/ FindsClosed(r) \/ Process(r) \/ ProcessFails(r)
      PROVE  SetUpOnce'
  <2>1. UNCHANGED <<kind, task, created, ev, agent>> /\ pc[r] \notin {"new", "setup"}
    BY <1>8 DEF Look, FindsClosed, Process, ProcessFails, queueVars, agentVars
  <2>2. \E place \in {"wait", "top", "ended", "finishing", "failing"} :
          pc' = [pc EXCEPT ![r] = place]
    BY <1>8 DEF Look, FindsClosed, Process, ProcessFails, StreamEnds
  <2>3. pc'[r] \in {"wait", "top", "ended", "finishing", "failing"}
        /\ \A s \in Request : s # r => pc'[s] = pc[s]
    BY <1>0, <2>2
  <2>4. QED
    BY <1>1, <2>1, <2>3
<1>9. ASSUME NEW r \in Request, StopAgent(r) PROVE SetUpOnce'
  <2>1. /\ pc[r] = "stop" /\ pc' = [pc EXCEPT ![r] = "top"] /\ UNCHANGED <<kind, task, created, ev>>
        /\ \/ UNCHANGED agent
           \/ /\ agent[running[task[r]]] \in {"runs", "closes"} /\ running[task[r]] # None
              /\ agent' = [agent EXCEPT ![running[task[r]]] = "cancelled"]
    BY <1>9 DEF StopAgent
  <2>2. running[task[r]] \in Request \union {None}
    BY <2>1 DEF HandlerInv, HandlerShape
  <2>3. \A s \in Request : agent'[s] = agent[s] \/ (agent[s] # "none" /\ agent'[s] # "none")
    BY <1>0, <2>1, <2>2
  <2>4. pc'[r] = "top" /\ \A s \in Request : s # r => pc'[s] = pc[s]
    BY <1>0, <2>1
  <2>5. QED
    BY <1>1, <2>1, <2>3, <2>4
<1>10. ASSUME NEW r \in Request,
              \/ ConsumerGoes(r) \/ (\E e \in AgentEvents : AgentPublishes(r, e))
              \/ AgentStep(r) \/ AgentFails(r) \/ CleanupStep(r)
       PROVE  SetUpOnce'
  <2>1. UNCHANGED <<kind, task, pc, ev>>
    BY <1>10 DEF ConsumerGoes, AgentPublishes, AgentStep, AgentReturns, AgentGoes, AgentEnds,
                 AgentFails, CleanupStep, CleanUp, CleanupGoes, CleanupEnds, requestVars
  <2>2. UNCHANGED agent \/ (agent[r] # "none" /\ \E a \in Agents \ {"none"} : agent' = [agent EXCEPT ![r] = a])
    <3>1. CASE AgentEnds(r)
      <4>1. op[Agent(r)].kind = "join" /\ agent' = [agent EXCEPT ![r] = "done"]
        BY <3>1 DEF AgentEnds, CloseReturns
      <4>2. agent[r] # "none"
        BY <4>1 DEF AgentCalls
      <4>3. QED
        BY <4>1, <4>2 DEF Agents
    <3>2. CASE ~AgentEnds(r)
      BY <1>10, <3>2 DEF ConsumerGoes, AgentPublishes, AgentStep, AgentReturns, AgentGoes,
                 AgentFails, CleanupStep, CleanUp, CleanupGoes, CleanupEnds, agentVars, Agents
    <3>3. QED
      BY <3>1, <3>2
  <2>3. \A s \in Request : agent'[s] = agent[s] \/ (agent[s] # "none" /\ agent'[s] # "none")
    BY <1>0, <2>2
  <2>4. UNCHANGED created
    <3>1. CASE ConsumerGoes(r)
      BY <3>1 DEF ConsumerGoes, ResumePut, PutFrom, ClearChild, ClearedAll
    <3>2. CASE \E e \in AgentEvents : AgentPublishes(r, e)
      BY <3>2 DEF AgentPublishes, Enqueue, PutFrom, queueVars
    <3>3. CASE AgentStep(r)
      BY <3>3 DEF AgentStep, AgentReturns, AgentGoes, AgentEnds, CloseGraceful, ResumePut,
                  PutFrom, CloseChild, StartJoin, CloseReturns, queueVars
    <3>4. CASE AgentFails(r)
      BY <3>4 DEF AgentFails, PutRaises, queueVars
    <3>5. CASE CleanupStep(r)
      BY <3>5 DEF CleanupStep, CleanUp, CleanupGoes, CleanupEnds, CloseGraceful,
                  CloseChild, StartJoin, CloseReturns, queueVars
    <3>6. QED
      BY <1>10, <3>1, <3>2, <3>3, <3>4, <3>5
  <2>5. QED
    BY <1>1, <2>1, <2>3, <2>4
<1>11. QED
  BY <1>2, <1>3, <1>4, <1>5, <1>6, <1>7, <1>8, <1>9, <1>10 DEF HandlerNext, HandlerStep

\* What the other variables hold.
LEMMA OtherTypesStep ==
  ASSUME HandlerInv, QueueTypeOK, SetUpOnce, OtherTypes, [HandlerNext]_vars
  PROVE  OtherTypes'
<1> USE DEF OtherTypes
<1>0. /\ buf \in [Request -> Seq(EventKind)] /\ task \in [Request -> Task \union {None}]
      /\ taskQueue \in [Task -> Request \union {None}]
      /\ AgentEvents \subseteq EventKind /\ MaxEvents \in Nat
  BY HandlerAssumption DEF HandlerInv, HandlerShape, QueueTypeOK, Request
<1>1. ASSUME UNCHANGED <<kind, ev, emitted, said, lock, stored>> PROVE OtherTypes'
  BY <1>1
<1>2. CASE UNCHANGED vars
  BY <1>1, <1>2 DEF vars, requestVars, agentVars, managerVars
<1>3. ASSUME NEW r \in Request, NEW k \in Kinds, NEW t \in Task, Receive(r, k, t)
      PROVE  OtherTypes'
  BY <1>3 DEF Receive, agentVars, managerVars
<1>4. ASSUME NEW r \in Request, TapTask(r) PROVE OtherTypes'
  <2>1. /\ UNCHANGED <<kind, ev, emitted, lock, stored>> /\ pc[r] = "setup"
        /\ UNCHANGED said \/ (taskQueue[task[r]] # None
                              /\ said' = [said EXCEPT ![r] = said[taskQueue[task[r]]]])
    BY <1>4 DEF TapTask, managerVars
  <2>2. task[r] \in Task
    BY <2>1 DEF SetUpOnce
  <2>3. QED
    BY <1>0, <2>1, <2>2
<1>5. ASSUME NEW r \in Request, Take(r) PROVE OtherTypes'
  <2>1. /\ buf[r] # <<>> /\ ev' = [ev EXCEPT ![r] = Head(buf[r])]
        /\ UNCHANGED <<kind, emitted, said, lock, stored>>
    BY <1>5 DEF Take, Dequeue, agentVars, managerVars
  <2>2. Head(buf[r]) \in EventKind
    BY <1>0, <2>1
  <2>3. QED
    BY <2>1, <2>2
<1>6. ASSUME NEW r \in Request, Process(r) PROVE OtherTypes'
  <2>1. /\ pc[r] = "process" /\ UNCHANGED <<kind, ev, emitted, said, lock>>
        /\ UNCHANGED stored \/ stored' = [stored EXCEPT ![task[r]] = ev[r]]
    BY <1>6 DEF Process, agentVars, managerVars
  <2>2. ev[r] \in EventKind
    BY <2>1 DEF SetUpOnce
  <2>3. QED
    BY <2>1, <2>2
<1>7. ASSUME NEW r \in Request, NEW e \in AgentEvents, AgentPublishes(r, e) PROVE OtherTypes'
  <2>1. /\ UNCHANGED <<kind, ev, lock, stored>> /\ emitted[r] < MaxEvents
        /\ emitted' = [emitted EXCEPT ![r] = @ + 1]
        /\ UNCHANGED said \/ said' = [said EXCEPT ![r] = e]
    BY <1>7 DEF AgentPublishes, requestVars, managerVars
  <2>2. emitted[r] + 1 \in 0..MaxEvents
    BY <1>0, <2>1
  <2>3. QED
    BY <1>0, <2>1, <2>2
<1>8. ASSUME NEW r \in Request, CleanUp(r) \/ CleanupEnds(r) PROVE OtherTypes'
  <2>1. UNCHANGED <<kind, ev, emitted, said, stored>> /\ lock' \in {lock, r, None}
    BY <1>8 DEF CleanUp, CleanupEnds, requestVars, agentVars, managerVars
  <2>2. QED
    BY <2>1
<1>9. ASSUME NEW r \in Request,
             \/ CreateOrTap(r) \/ ExecutorCancels(r) \/ StopAgent(r) \/ Look(r) \/ TimesOut(r)
             \/ FindsClosed(r) \/ Acknowledge(r) \/ AcknowledgeLast(r) \/ ConsumerGoes(r)
             \/ CancelRaises(r) \/ Answer(r) \/ ProcessFails(r) \/ Disconnect(r)
             \/ AgentStep(r) \/ AgentFails(r) \/ CleanupGoes(r)
      PROVE  OtherTypes'
  BY <1>1, <1>9 DEF CreateOrTap, ExecutorCancels, StopAgent, Look, TimesOut, FindsClosed,
                    Acknowledge, AcknowledgeLast, ConsumerGoes, CancelRaises, Answer, ProcessFails,
                    Disconnect, AgentStep, AgentReturns, AgentGoes, AgentEnds, AgentFails,
                    CleanupGoes, requestVars, agentVars, managerVars
<1>10. QED
  BY <1>2, <1>3, <1>4, <1>5, <1>6, <1>7, <1>8, <1>9 DEF HandlerNext, HandlerStep, CleanupStep

\* All of it together.
CountsInv ==
  HandlerInv /\ QueueInv /\ ConsumerPuts /\ AgentCalls /\ OneHeld /\ SetUpOnce /\ OtherTypes

\* At first there is nothing.
LEMMA CountsInit == HandlerInit => CountsInv
<1> SUFFICES ASSUME HandlerInit PROVE CountsInv
  OBVIOUS
<1>1. HandlerInv /\ QueueInv
  BY HandlerInitInv, InitEstablishes DEF HandlerInit
<1>2. \A r \in Request : op[Consumer(r)] = Idle /\ op[Agent(r)] = Idle /\ held[r] = 0 /\ r \notin created
  BY Coroutines DEF HandlerInit, QueueInit
<1>3. \A r \in Request : pc[r] = "new" /\ agent[r] = "none" /\ kind[r] = None
  BY DEF HandlerInit
<1>4. OtherTypes
  BY HandlerAssumption DEF HandlerInit, OtherTypes
<1>5. ConsumerPuts /\ AgentCalls /\ OneHeld /\ SetUpOnce
  BY <1>2, <1>3 DEF ConsumerPuts, AgentCalls, OneHeld, SetUpOnce, Idle
<1>6. QED
  BY <1>1, <1>4, <1>5 DEF CountsInv

\* Every step keeps it.
LEMMA CountsStep ==
  ASSUME CountsInv, [HandlerNext]_vars
  PROVE  CountsInv'
<1> USE DEF CountsInv
<1>1. QueueTypeOK /\ \A r \in Request : pc[r] # "new" => task[r] \in Task
  BY DEF QueueInv, SetUpOnce
<1>2. QueueInv'
  <2>1. CASE [QueueNext]_queueVars
    BY <2>1, StepPreserves
  <2>2. ASSUME NEW r \in Request, AcknowledgeLast(r) PROVE QueueInv'
    <3>1. held[r] = 1
      BY <2>2 DEF AcknowledgeLast, OneHeld
    <3>2. QED
      BY <2>2, <3>1, AcknowledgeLastKeeps
  <2>3. QED
    BY <1>1, <2>1, <2>2, HandlerDrivesQueues
<1>3. HandlerInv'
  BY HandlerStepInv
<1>4. ConsumerPuts' /\ AgentCalls' /\ OneHeld'
  BY <1>1, ConsumerPutsStep, AgentCallsStep, OneHeldStep
<1>5. SetUpOnce' /\ OtherTypes'
  BY <1>1, SetUpOnceStep, OtherTypesStep
<1>6. QED
  BY <1>2, <1>3, <1>4, <1>5

\* It always holds.
LEMMA CountsAlways == HandlerSpec => []CountsInv
<1>1. QED
  BY CountsInit, CountsStep, PTL DEF HandlerSpec

\* For any requests of any kind, on any tasks: every variable of the handler and of
\* its queues keeps its shape, and a request has an agent exactly if it sends and was
\* set up.
THEOREM HandlerTyped == HandlerSpec => []HandlerTypeOK
<1>1. CountsInv => HandlerTypeOK
  BY DEF CountsInv, QueueInv, HandlerInv, HandlerShape, SetUpOnce, OtherTypes, HandlerTypeOK, Places,
         Agents, Cleans
<1>2. QED
  BY <1>1, CountsAlways, PTL

\* The counts that the closes of the handler wait on are exact: however consumers,
\* agents, cancels and cleanups use the queues, however many clients leave, each
\* task_done() is for an event that was taken, and a join waits for no other.
THEOREM HandlerCountsExact == HandlerSpec => []UnfinishedExact
<1>1. CountsInv => UnfinishedExact
  BY DEF CountsInv, QueueInv
<1>2. QED
  BY <1>1, CountsAlways, PTL

\* A step of the handler adds to a queue only what there is room for, and from Python
\* 3.13 on nothing once the queue is closed.
LEMMA HandlerGrowth ==
  ASSUME CountsInv, [HandlerNext]_vars, NEW q \in Queue
  PROVE  /\ Len(buf'[q]) <= Len(buf[q]) \/ Len(buf'[q]) <= MaxSize
         /\ Py313 /\ closed[q] => Len(buf'[q]) <= Len(buf[q])
<1>1. QueueInv /\ HandlerInv /\ \A r \in Request : pc[r] # "new" => task[r] \in Task
  BY DEF CountsInv, SetUpOnce
<1>2. Len(buf[q]) \in Nat /\ Len(buf'[q]) \in Nat
  BY CountsStep DEF CountsInv, QueueInv, QueueTypeOK
<1>3. CASE [QueueNext]_queueVars
  BY <1>1, <1>2, <1>3, GrowsOnlyWithRoom, QueueAssumption DEF Full
<1>4. ASSUME NEW r \in Request, AcknowledgeLast(r) PROVE buf'[q] = buf[q] \/ buf'[q] = <<>>
  BY <1>1, <1>4 DEF AcknowledgeLast, CloseNow, QueueInv, QueueTypeOK
<1>5. Len(<<>>) = 0
  OBVIOUS
<1>6. CASE \E r \in Request : AcknowledgeLast(r)
  BY <1>2, <1>4, <1>5, <1>6
<1>7. QED
  BY <1>1, <1>3, <1>6, HandlerDrivesQueues DEF QueueInv

\* However many requests tap the queue of a task, none of their queues is ever
\* larger than the bound.
THEOREM HandlerCapacityRespected == HandlerSpec => []WithinCapacity
<1>1. HandlerInit => WithinCapacity
  <2> SUFFICES ASSUME HandlerInit, NEW q \in Queue PROVE Len(buf[q]) <= MaxSize
    BY DEF WithinCapacity
  <2>1. buf[q] = <<>> /\ Len(<<>>) = 0
    BY DEF HandlerInit, QueueInit
  <2>2. QED
    BY <2>1, QueueAssumption
<1>2. ASSUME CountsInv, WithinCapacity, [HandlerNext]_vars PROVE WithinCapacity'
  <2>1. ASSUME NEW q \in Queue PROVE Len(buf'[q]) <= MaxSize
    <3>1. Len(buf[q]) \in Nat /\ Len(buf'[q]) \in Nat /\ Len(buf[q]) <= MaxSize
      BY <1>2, CountsStep DEF CountsInv, QueueInv, QueueTypeOK, WithinCapacity
    <3>2. QED
      BY <1>2, <3>1, HandlerGrowth, QueueAssumption
  <2>2. QED
    BY <2>1 DEF WithinCapacity
<1>3. QED
  BY <1>1, <1>2, CountsAlways, PTL DEF HandlerSpec

\* Whatever is suspended in a publication when a queue of the handler is closed, the
\* closed queue gets nothing more, from Python 3.13 on.
THEOREM HandlerNothingAfterClose ==
  ASSUME Py313
  PROVE  HandlerSpec => ClosedQueueNeverGrows
<1>1. CountsInv /\ [HandlerNext]_vars =>
        [\A q \in Queue : closed[q] => Len(buf'[q]) <= Len(buf[q])]_queueVars
  BY HandlerGrowth
<1>2. QED
  BY <1>1, CountsAlways, PTL DEF HandlerSpec, ClosedQueueNeverGrows
=============================================================================
