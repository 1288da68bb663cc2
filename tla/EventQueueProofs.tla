-------------------------- MODULE EventQueueProofs --------------------------
(***************************************************************************)
(* What EventQueue guarantees for any number of queues, taps, coroutines   *)
(* and events, any buffer size and either kind of interpreter.             *)
(***************************************************************************)
EXTENDS EventQueue, SequenceTheorems, TLAPS

-----------------------------------------------------------------------------
(* Facts about the operators.                                              *)

\* enqueue_event always has the queue itself as its first target, and all its
\* targets are queues.
LEMMA TargetsType ==
  ASSUME QueueTypeOK, NEW q \in Queue
  PROVE  /\ Targets(q) \in Seq(Queue)
         /\ Len(Targets(q)) = Len(children[q]) + 1
         /\ DOMAIN Targets(q) = 1..Len(Targets(q))
         /\ Targets(q)[1] = q
BY DEF QueueTypeOK, Targets

\* The taps of a queue are queues.
LEMMA KidsType ==
  ASSUME QueueTypeOK, NEW q \in Queue
  PROVE  Kids(q) \subseteq Queue
BY DEF QueueTypeOK, Kids

\* Waking waiters changes nothing in a call but the set it waits for.
LEMMA WokenType ==
  ASSUME QueueTypeOK, NEW zero
  PROVE  /\ Woken(zero) \in [Proc -> Ops]
         /\ \A p \in Proc : /\ op[p].kind # "join" => Woken(zero)[p] = op[p]
                            /\ op[p].kind = "join" =>
                                 Woken(zero)[p] = JoinOp(op[p].q, op[p].shut, op[p].start,
                                                         op[p].wait \ zero)
<1>1. ASSUME NEW p \in Proc, op[p].kind = "join"
      PROVE  /\ op[p] \in [kind : {"join"}, q : Queue, shut : SUBSET Queue,
                           start : SUBSET Queue, wait : SUBSET Queue]
             /\ [op[p] EXCEPT !.wait = @ \ zero] =
                  JoinOp(op[p].q, op[p].shut, op[p].start, op[p].wait \ zero)
  <2>1. op[p] \in Ops
    BY DEF QueueTypeOK
  <2>2. op[p] \in [kind : {"join"}, q : Queue, shut : SUBSET Queue,
                   start : SUBSET Queue, wait : SUBSET Queue]
    BY <1>1, <2>1 DEF Ops, Idle
  <2>3. QED
    BY <1>1, <2>2 DEF JoinOp
<1>2. \A p \in Proc : op[p].kind = "join" => [op[p] EXCEPT !.wait = @ \ zero] \in Ops
  BY <1>1 DEF Ops, JoinOp
<1>3. Woken(zero) \in [Proc -> Ops]
  BY <1>2 DEF Woken, QueueTypeOK
<1>4. QED
  BY <1>1, <1>3 DEF Woken

\* What the suspension record of a coroutine holds.
LEMMA OpType ==
  ASSUME QueueTypeOK, NEW p \in Proc
  PROVE  /\ op[p] \in Ops /\ Idle \in Ops /\ Idle.kind = "idle"
         /\ op[p].kind = "put" => /\ op[p].q \in Queue /\ op[p].ev \in Event
                                 /\ op[p].at \in Nat \ {0}
                                 /\ op[p].at \in DOMAIN Targets(op[p].q)
         /\ op[p].kind = "clear" => /\ op[p].q \in Queue /\ op[p].todo \subseteq Queue
                                   /\ op[p].closing \in BOOLEAN
         /\ op[p].kind = "join" => /\ op[p].q \in Queue /\ op[p].shut \subseteq Queue
                                  /\ op[p].start \subseteq Queue
                                  /\ op[p].wait \subseteq Queue
<1>1. op[p] \in Ops
  BY DEF QueueTypeOK
<1>2. op[p].kind = "put" => op[p] \in [kind : {"put"}, q : Queue, at : Nat \ {0}, ev : Event]
  BY <1>1 DEF Ops, Idle
<1>3. op[p].kind = "clear" => op[p] \in [kind : {"clear"}, q : Queue, todo : SUBSET Queue,
                                         closing : BOOLEAN]
  BY <1>1 DEF Ops, Idle
<1>4. op[p].kind = "join" => op[p] \in [kind : {"join"}, q : Queue, shut : SUBSET Queue,
                                        start : SUBSET Queue, wait : SUBSET Queue]
  BY <1>1 DEF Ops, Idle
<1>5. ASSUME op[p].kind = "put" PROVE op[p].at \in DOMAIN Targets(op[p].q)
  <2>1. op[p].q \in Queue /\ op[p].at \in Nat \ {0}
    BY <1>2, <1>5
  <2>2. op[p].at <= Len(children[op[p].q]) + 1
    BY <1>5 DEF QueueTypeOK
  <2>3. Len(children[op[p].q]) \in Nat
    BY <2>1 DEF QueueTypeOK
  <2>4. DOMAIN Targets(op[p].q) = 1..(Len(children[op[p].q]) + 1)
    BY <2>1, TargetsType
  <2>5. QED
    BY <2>1, <2>2, <2>3, <2>4
<1>6. Idle \in Ops /\ Idle.kind = "idle"
  BY DEF Ops, Idle
<1>7. QED
  BY <1>1, <1>2, <1>3, <1>4, <1>5, <1>6

\* The records the actions write are suspension records.
LEMMA OpsMade ==
  /\ \A q \in Queue, i \in Nat \ {0}, ev \in Event :
       /\ PutOp(q, i, ev) \in Ops
       /\ PutOp(q, i, ev).at = i /\ PutOp(q, i, ev).q = q
  /\ \A q \in Queue, cs \in SUBSET Queue, b \in BOOLEAN :
       /\ ClearOp(q, cs, b) \in Ops
       /\ ClearOp(q, cs, b).kind = "clear"
  /\ \A q \in Queue, a, b, c \in SUBSET Queue :
       /\ JoinOp(q, a, b, c) \in Ops
       /\ JoinOp(q, a, b, c).kind = "join"
<1>1. \A q \in Queue, i \in Nat \ {0}, ev \in Event :
       /\ PutOp(q, i, ev) \in Ops
       /\ PutOp(q, i, ev).at = i /\ PutOp(q, i, ev).q = q
  BY DEF PutOp, Ops
<1>2. \A q \in Queue, cs \in SUBSET Queue, b \in BOOLEAN :
       ClearOp(q, cs, b) \in Ops /\ ClearOp(q, cs, b).kind = "clear"
  BY DEF ClearOp, Ops
<1>3. \A q \in Queue, a, b, c \in SUBSET Queue :
       JoinOp(q, a, b, c) \in Ops /\ JoinOp(q, a, b, c).kind = "join"
  BY DEF JoinOp, Ops
<1>4. QED
  BY <1>1, <1>2, <1>3

\* Dropping the events of some queues keeps types and the difference between
\* what is unfinished and what is buffered.
LEMMA DropKeeps ==
  ASSUME QueueTypeOK, UnfinishedExact, NEW cs, Drop(cs)
  PROVE  /\ buf' \in [Queue -> Seq(Event)]
         /\ unfinished' \in [Queue -> Nat]
         /\ \A q \in Queue : unfinished'[q] = Len(buf'[q]) + held[q]
         /\ \A q \in Queue : buf'[q] = buf[q] \/ buf'[q] = <<>>
BY DEF QueueTypeOK, UnfinishedExact, Drop

\* So does putting one more event on some of them.
LEMMA PutUpToKeeps ==
  ASSUME QueueTypeOK, UnfinishedExact,
         NEW q, NEW ev \in Event, NEW i, NEW j, NEW got,
         PutUpTo(q, ev, i, j, got)
  PROVE  /\ buf' \in [Queue -> Seq(Event)]
         /\ unfinished' \in [Queue -> Nat]
         /\ \A t \in Queue : unfinished[t] = Len(buf[t]) + held[t] =>
                             unfinished'[t] = Len(buf'[t]) + held[t]
BY DEF QueueTypeOK, UnfinishedExact, PutUpTo

-----------------------------------------------------------------------------
(* Type correctness and the unfinished count.                              *)

QueueInv == QueueTypeOK /\ UnfinishedExact

\* The loop of enqueue_event, wherever it goes on and wherever it stops.
LEMMA PutFromKeeps ==
  ASSUME QueueInv,
         NEW p \in Proc, NEW q \in Queue, NEW ev \in Event, NEW i \in Nat \ {0}, NEW got,
         PutFrom(p, q, ev, i, got)
  PROVE  QueueInv'
<1> USE DEF QueueInv
<1>1. buf' \in [Queue -> Seq(Event)] /\ unfinished' \in [Queue -> Nat] /\ UnfinishedExact'
  BY PutUpToKeeps DEF PutFrom, UnfinishedExact
<1>2. UNCHANGED <<created, children, held, closed>>
  BY DEF PutFrom
<1>3. op' = [op EXCEPT ![p] = Idle]
      \/ \E j \in Stops(q, i) : op' = [op EXCEPT ![p] = PutOp(q, j, ev)]
  BY DEF PutFrom
<1>4. \A j \in Stops(q, i) : /\ j <= Len(children[q]) + 1
                             /\ PutOp(q, j, ev) \in Ops
                             /\ PutOp(q, j, ev).at = j /\ PutOp(q, j, ev).q = q
  <2>1. \A j \in Stops(q, i) : j \in Nat \ {0} /\ j <= Len(children[q]) + 1
    BY TargetsType DEF Stops
  <2>2. QED
    BY <2>1, OpsMade
<1>5. op \in [Proc -> Ops] /\ Idle \in Ops
  BY OpType DEF QueueTypeOK
<1>6. op' \in [Proc -> Ops]
  BY <1>3, <1>4, <1>5
<1>7. ASSUME NEW r \in Proc, op'[r].kind = "put"
      PROVE  op'[r].at <= Len(children[op'[r].q]) + 1
  <2>1. CASE op'[r] = op[r]
    BY <1>7, <2>1 DEF QueueTypeOK
  <2>2. CASE op'[r] # op[r]
    <3>1. PICK j \in Stops(q, i) : op'[r] = PutOp(q, j, ev)
      BY <1>3, <1>5, <1>7, <2>2, OpType
    <3>2. QED
      BY <1>4, <3>1
  <2>3. QED
    BY <2>1, <2>2
<1>8. QED
  BY <1>1, <1>2, <1>6, <1>7 DEF QueueTypeOK

\* A step that only puts p elsewhere than in a put, and wakes waiters.
LEMMA OpKeeps ==
  ASSUME QueueTypeOK, NEW p \in Proc, NEW zero,
         NEW o \in Ops, o.kind # "put",
         UNCHANGED children,
         op' = [Woken(zero) EXCEPT ![p] = o] \/ op' = [op EXCEPT ![p] = o]
               \/ op' = Woken(zero) \/ op' = op
  PROVE  /\ op' \in [Proc -> Ops]
         /\ \A r \in Proc : op'[r].kind = "put" =>
                             op'[r].at <= Len(children'[op'[r].q]) + 1
<1>1. Woken(zero) \in [Proc -> Ops] /\ op \in [Proc -> Ops]
  BY WokenType DEF QueueTypeOK
<1>2. op' \in [Proc -> Ops]
  BY <1>1
<1>3. ASSUME NEW r \in Proc, op'[r].kind = "put"
      PROVE  op'[r] = op[r]
  <2>1. op'[r] = o \/ op'[r] = Woken(zero)[r] \/ op'[r] = op[r]
    BY <1>1
  <2>2. CASE op'[r] = Woken(zero)[r]
    <3>1. op[r].kind # "join"
      <4>1. SUFFICES ASSUME op[r].kind = "join" PROVE FALSE
        OBVIOUS
      <4>2. op'[r] = JoinOp(op[r].q, op[r].shut, op[r].start, op[r].wait \ zero)
        BY <2>2, <4>1, WokenType
      <4>3. op'[r].kind = "join"
        BY <4>2 DEF JoinOp
      <4>4. QED
        BY <1>3, <4>3
    <3>2. QED
      BY <2>2, <3>1, WokenType
  <2>3. QED
    BY <1>3, <2>1, <2>2
<1>4. ASSUME NEW r \in Proc, op'[r].kind = "put"
      PROVE  op'[r].at <= Len(children'[op'[r].q]) + 1
  BY <1>3, <1>4 DEF QueueTypeOK
<1>5. QED
  BY <1>2, <1>4

LEMMA InitEstablishes == QueueInit => QueueInv
<1> SUFFICES ASSUME QueueInit PROVE QueueInv
  OBVIOUS
<1>1. UnfinishedExact
  <2>1. \A q \in Queue : buf[q] = <<>> /\ unfinished[q] = 0 /\ held[q] = 0
    BY DEF QueueInit
  <2>2. Len(<<>>) = 0
    BY EmptySeq, <<>> \in Seq(Event)
  <2>3. ASSUME NEW q \in Queue
        PROVE  unfinished[q] = Len(buf[q]) + held[q]
    <3>1. Len(buf[q]) = 0
      BY <2>1, <2>2, Zenon
    <3>2. QED
      BY <2>1, <3>1
  <2>4. QED
    BY <2>3 DEF UnfinishedExact
<1>2. op \in [Proc -> Ops] /\ \A p \in Proc : op[p].kind = "idle"
  BY DEF QueueInit, Ops, Idle
<1>3. QED
  BY <1>1, <1>2 DEF QueueInit, QueueTypeOK, QueueInv

\* One step per action; the last conjunct of each goal is UnfinishedExact.
LEMMA StepPreserves == QueueInv /\ [QueueNext]_queueVars => QueueInv'
<1> SUFFICES ASSUME QueueInv, [QueueNext]_queueVars
             PROVE  QueueInv'
  OBVIOUS
<1> USE DEF QueueInv
<1>1. ASSUME NEW q \in Queue, Create(q)
      PROVE  QueueInv'
  BY <1>1 DEF Create, QueueTypeOK, UnfinishedExact
<1>2. ASSUME NEW q \in Queue, NEW c \in Queue, Tap(q, c)
      PROVE  QueueInv'
  <2>1. children' \in [Queue -> Seq(Queue)] /\ created' \subseteq Queue
    BY <1>2 DEF Tap, QueueTypeOK
  <2>2. ASSUME NEW r \in Queue PROVE Len(children[r]) <= Len(children'[r])
    <3>1. children[r] \in Seq(Queue) /\ children \in [Queue -> Seq(Queue)]
      BY DEF QueueTypeOK
    <3>2. children'[r] = IF r = q THEN Append(children[r], c) ELSE children[r]
      BY <1>2, <3>1 DEF Tap
    <3>3. Len(children[r]) \in Nat /\ Len(Append(children[r], c)) = Len(children[r]) + 1
      BY <3>1
    <3>4. QED
      BY <3>1, <3>2, <3>3
  <2>3. ASSUME NEW p \in Proc, op[p].kind = "put"
        PROVE  op[p].at <= Len(children'[op[p].q]) + 1
    <3>1. op[p].q \in Queue /\ op[p].at \in Nat \ {0}
      BY <2>3, OpType
    <3>2. op[p].at <= Len(children[op[p].q]) + 1
      BY <2>3 DEF QueueTypeOK
    <3>3. Len(children[op[p].q]) \in Nat /\ Len(children'[op[p].q]) \in Nat
      <4>1. children[op[p].q] \in Seq(Queue) /\ children'[op[p].q] \in Seq(Queue)
        BY <2>1, <3>1 DEF QueueTypeOK
      <4>2. QED
        BY <4>1
    <3>4. QED
      BY <2>2, <3>1, <3>2, <3>3
  <2>4. QED
    BY <1>2, <2>1, <2>3 DEF Tap, QueueTypeOK, UnfinishedExact
<1>3. ASSUME NEW q \in Queue, Dequeue(q)
      PROVE  QueueInv'
  <2>1. buf' \in [Queue -> Seq(Event)] /\ held' \in [Queue -> Nat]
    BY <1>3 DEF Dequeue, QueueTypeOK
  <2>2. ASSUME NEW r \in Queue
        PROVE  Len(buf'[r]) + held'[r] = Len(buf[r]) + held[r]
    <3>1. CASE r = q
      <4>1. buf[q] \in Seq(Event) /\ buf[q] # <<>> /\ held[q] \in Nat
        BY <1>3 DEF Dequeue, QueueTypeOK
      <4>2. Len(Tail(buf[q])) = Len(buf[q]) - 1 /\ Len(buf[q]) \in Nat
        BY <4>1
      <4>3. buf'[q] = Tail(buf[q]) /\ held'[q] = held[q] + 1
        BY <1>3 DEF Dequeue, QueueTypeOK
      <4>4. QED
        BY <3>1, <4>1, <4>2, <4>3
    <3>2. CASE r # q
      BY <1>3, <3>2 DEF Dequeue, QueueTypeOK
    <3>3. QED
      BY <3>1, <3>2
  <2>3. QED
    BY <1>3, <2>1, <2>2 DEF Dequeue, QueueTypeOK, UnfinishedExact
<1>4. ASSUME NEW q \in Queue, TaskDone(q)
      PROVE  QueueInv'
  <2>1. held' \in [Queue -> Nat]
    BY <1>4 DEF TaskDone, QueueTypeOK
  <2>2. Len(buf[q]) \in Nat /\ unfinished[q] = Len(buf[q]) + held[q]
    BY DEF QueueTypeOK, UnfinishedExact
  <2>3. unfinished' \in [Queue -> Nat]
    BY <1>4, <2>2 DEF TaskDone, QueueTypeOK
  <2>4. UnfinishedExact'
    BY <1>4, <2>2 DEF TaskDone, QueueTypeOK, UnfinishedExact
  <2>5. op' = Woken({q}) \/ op' = op
    BY <1>4 DEF TaskDone
  <2>6. op' \in [Proc -> Ops]
    BY <2>5, WokenType DEF QueueTypeOK
  <2>7. ASSUME NEW p \in Proc, op'[p].kind = "put"
        PROVE  op'[p].at <= Len(children'[op'[p].q]) + 1
    <3>1. UNCHANGED children
      BY <1>4 DEF TaskDone
    <3>2. Idle \in Ops /\ Idle.kind # "put"
      BY OpType, <2>7
    <3>3. QED
      BY <2>5, <2>7, <3>1, <3>2, OpKeeps
  <2>8. QED
    BY <1>4, <2>1, <2>3, <2>4, <2>6, <2>7 DEF TaskDone, QueueTypeOK
<1>5. ASSUME NEW p \in Proc, NEW zero, NEW o \in Ops, o.kind # "put",
             op' = [Woken(zero) EXCEPT ![p] = o] \/ op' = [op EXCEPT ![p] = o],
             (\E cs : Drop(cs)) \/ UNCHANGED <<buf, unfinished>>,
             closed' \in [Queue -> BOOLEAN],
             UNCHANGED <<created, children, held>>
      PROVE  QueueInv'
  <2>1. /\ buf' \in [Queue -> Seq(Event)]
        /\ unfinished' \in [Queue -> Nat]
        /\ UnfinishedExact'
    <3>1. CASE UNCHANGED <<buf, unfinished>>
      BY <1>5, <3>1 DEF QueueTypeOK, UnfinishedExact
    <3>2. CASE \E cs : Drop(cs)
      BY <1>5, <3>2, DropKeeps DEF UnfinishedExact
    <3>3. QED
      BY <1>5, <3>1, <3>2
  <2>2. /\ op' \in [Proc -> Ops]
        /\ \A r \in Proc : op'[r].kind = "put" => op'[r].at <= Len(children'[op'[r].q]) + 1
    BY <1>5, OpKeeps
  <2>3. QED
    BY <1>5, <2>1, <2>2 DEF QueueTypeOK
<1>6. ASSUME NEW p \in Proc, Calls(p)
      PROVE  QueueInv'
  <2>1. PICK q \in Queue : \/ \E ev \in Event : Enqueue(p, q, ev)
                           \/ \E deep \in BOOLEAN : ClearEvents(p, q, deep)
                           \/ CloseImmediate(p, q)
                           \/ CloseGraceful(p, q)
    BY <1>6 DEF Calls
  <2>2. Idle \in Ops /\ Idle.kind # "put"
    BY OpType
  <2>3. Kids(q) \in SUBSET Queue
    BY KidsType
  <2>4. CASE UNCHANGED queueVars
    BY <2>4 DEF queueVars, QueueTypeOK, UnfinishedExact
  <2>5. ASSUME NEW ev \in Event, Enqueue(p, q, ev)
        PROVE  QueueInv'
    BY <2>4, <2>5, PutFromKeeps DEF Enqueue
  <2>6. ASSUME NEW deep \in BOOLEAN, ClearEvents(p, q, deep)
        PROVE  QueueInv'
    <3>1. PICK o \in Ops : o.kind # "put" /\ op' = [Woken(Emptied({q})) EXCEPT ![p] = o]
      BY <2>2, <2>3, <2>6, OpsMade DEF ClearEvents
    <3>2. QED
      BY <1>5, <2>6, <3>1 DEF ClearEvents, QueueTypeOK
  <2>7. CASE CloseImmediate(p, q)
    <3>1. PICK o \in Ops : o.kind # "put" /\ op' = [Woken(Emptied({q})) EXCEPT ![p] = o]
      BY <2>2, <2>3, <2>7, OpsMade DEF CloseImmediate
    <3>2. closed' \in [Queue -> BOOLEAN]
      BY <2>7 DEF CloseImmediate, QueueTypeOK
    <3>3. QED
      BY <1>5, <2>7, <3>1, <3>2 DEF CloseImmediate
  <2>8. CASE CloseGraceful(p, q) /\ ~ UNCHANGED queueVars
    <3>1. JoinOp(q, Kids(q), {q}, {}) \in Ops /\ JoinOp(q, Kids(q), {q}, {}).kind # "put"
      BY <2>3, OpsMade
    <3>2. closed' \in [Queue -> BOOLEAN]
      BY <2>8 DEF CloseGraceful, QueueTypeOK
    <3>3. QED
      BY <1>5, <2>8, <3>1, <3>2 DEF CloseGraceful
  <2>9. QED
    BY <2>1, <2>4, <2>5, <2>6, <2>7, <2>8
<1>7. ASSUME NEW p \in Proc, Goes(p)
      PROVE  QueueInv'
  <2>1. Idle \in Ops /\ Idle.kind # "put"
    BY OpType
  <2>2. closed \in [Queue -> BOOLEAN]
    BY DEF QueueTypeOK
  <2>3. CASE ResumePut(p)
    <3>1. op[p].q \in Queue /\ op[p].ev \in Event /\ op[p].at + 1 \in Nat \ {0}
      BY <2>3, OpType DEF ResumePut
    <3>2. PICK got : PutFrom(p, op[p].q, op[p].ev, op[p].at + 1, got)
      BY <2>3 DEF ResumePut
    <3>3. QED
      BY <3>1, <3>2, PutFromKeeps
  <2>4. CASE PutRaises(p)
    BY <1>5, <2>1, <2>2, <2>4 DEF PutRaises
  <2>5. ASSUME NEW c \in Queue, ClearChild(p, c)
        PROVE  QueueInv'
    <3>1. /\ op[p].q \in Queue /\ op[p].todo \ {c} \in SUBSET Queue
          /\ op[p].closing \in BOOLEAN
      BY <2>5, OpType DEF ClearChild
    <3>3. ClearOp(op[p].q, op[p].todo \ {c}, op[p].closing) \in Ops
          /\ ClearOp(op[p].q, op[p].todo \ {c}, op[p].closing).kind # "put"
      BY <3>1, OpsMade
    <3>4. op' = [Woken(Emptied({c})) EXCEPT ![p] =
                   ClearOp(op[p].q, op[p].todo \ {c}, op[p].closing)]
      <4>1. Woken(Emptied({c}))[p] = op[p]
        BY <2>5, WokenType DEF ClearChild
      <4>2. QED
        BY <2>5, <4>1 DEF ClearChild
    <3>5. Drop({c}) /\ UNCHANGED <<created, children, held, closed>>
      BY <2>5 DEF ClearChild
    <3>6. QED
      BY <1>5, <2>2, <3>3, <3>4, <3>5
  <2>6. ASSUME NEW c \in Queue, CloseChild(p, c) \/ StartJoin(p, c)
        PROVE  QueueInv'
    <3>1. op[p] \in [kind : {"join"}, q : Queue, shut : SUBSET Queue,
                     start : SUBSET Queue, wait : SUBSET Queue]
      BY <2>6, OpType DEF CloseChild, StartJoin, Ops, Idle
    <3>2. PICK a \in SUBSET Queue, b \in SUBSET Queue, d \in SUBSET Queue :
            op' = [op EXCEPT ![p] = JoinOp(op[p].q, a, b, d)]
      <4>1. CASE CloseChild(p, c)
        BY <3>1, <4>1 DEF CloseChild, QueueTypeOK
      <4>2. CASE StartJoin(p, c)
        BY <3>1, <4>2 DEF StartJoin, QueueTypeOK
      <4>3. QED
        BY <2>6, <4>1, <4>2
    <3>3. JoinOp(op[p].q, a, b, d) \in Ops /\ JoinOp(op[p].q, a, b, d).kind # "put"
      BY <3>1, OpsMade
    <3>4. closed' \in [Queue -> BOOLEAN] /\ UNCHANGED <<created, children, buf, unfinished, held>>
      BY <2>6 DEF CloseChild, StartJoin, QueueTypeOK
    <3>5. QED
      BY <1>5, <3>2, <3>3, <3>4
  <2>7. CASE ClearedAll(p)
    <3>1. PICK cs : /\ closed' = [q \in Queue |-> closed[q] \/ q \in cs]
                    /\ Drop(cs)
                    /\ op' = [Woken(Emptied(cs)) EXCEPT ![p] = Idle]
                    /\ UNCHANGED <<created, children, held>>
      BY <2>7 DEF ClearedAll
    <3>2. closed' \in [Queue -> BOOLEAN]
      BY <3>1 DEF QueueTypeOK
    <3>3. QED
      BY <1>5, <2>1, <3>1, <3>2
  <2>8. CASE CloseReturns(p)
    BY <1>5, <2>1, <2>2, <2>8 DEF CloseReturns
  <2>9. QED
    BY <1>7, <2>3, <2>4, <2>5, <2>6, <2>7, <2>8 DEF Goes
<1>8. ASSUME NEW p \in Proc, Cancel(p)
      PROVE  QueueInv'
  <2>1. Idle \in Ops /\ Idle.kind # "put" /\ closed' \in [Queue -> BOOLEAN]
    BY <1>8, OpType DEF Cancel, QueueTypeOK
  <2>2. QED
    BY <1>5, <1>8, <2>1 DEF Cancel
<1>9. CASE UNCHANGED queueVars
  BY <1>9 DEF queueVars, QueueTypeOK, UnfinishedExact
<1>10. QED
  BY <1>1, <1>2, <1>3, <1>4, <1>6, <1>7, <1>8, <1>9 DEF QueueNext, QueueSteps

\* Every variable keeps its shape in every behaviour.
THEOREM TypeCorrect == QueueSpec => []QueueTypeOK
<1>1. QueueInv => QueueTypeOK
  BY DEF QueueInv
<1>2. QED
  BY InitEstablishes, StepPreserves, <1>1, PTL DEF QueueSpec

\* What join() waits on is exactly what is buffered or held by a consumer:
\* task_done() never raises and a close waits for no event that nobody has.
THEOREM UnfinishedIsExact == QueueSpec => []UnfinishedExact
<1>1. QueueInv => UnfinishedExact
  BY DEF QueueInv
<1>2. QED
  BY InitEstablishes, StepPreserves, <1>1, PTL DEF QueueSpec

-----------------------------------------------------------------------------
(* Which queues a publication reaches: the capacity of every tap, and      *)
(* closed queues on Python 3.13.                                           *)

\* The queues of into, and no others, get ev: those of got and others that
\* were open and had room.
Reaches(ev, got, into) ==
  /\ buf' = [t \in Queue |-> IF t \in into THEN Append(buf[t], ev) ELSE buf[t]]
  /\ \A t \in into : t \in got \/ (~closed[t] /\ ~Full(t))

\* A run of the loop puts on a queue it found full only what its own
\* suspended put owed it, and never on a queue it found closed.
LEMMA PutFromReaches ==
  ASSUME QueueInv,
         NEW p \in Proc, NEW q \in Queue, NEW ev \in Event, NEW i \in Nat \ {0}, NEW got,
         PutFrom(p, q, ev, i, got)
  PROVE  \E into : Reaches(ev, got, into)
<1> DEFINE into(j) == got \union {Targets(q)[k] : k \in {k \in i..(j - 1) : Open(q, k)}}
<1>1. PICK j \in Nat :
        /\ j <= Len(Targets(q)) + 1
        /\ \A k \in Stops(q, i) : j <= k
        /\ PutUpTo(q, ev, i, j, got)
  <2>1. Len(Targets(q)) \in Nat
    BY TargetsType DEF QueueInv
  <2>2. CASE Stops(q, i) = {} /\ PutUpTo(q, ev, i, Len(Targets(q)) + 1, got)
    BY <2>1, <2>2
  <2>3. ASSUME NEW j \in Stops(q, i), \A k \in Stops(q, i) : j <= k,
               PutUpTo(q, ev, i, j, got)
        PROVE  j \in Nat /\ j <= Len(Targets(q)) + 1
    BY <2>1, <2>3 DEF Stops
  <2>4. QED
    BY <2>2, <2>3 DEF PutFrom
<1>2. buf' = [t \in Queue |-> IF t \in into(j) THEN Append(buf[t], ev) ELSE buf[t]]
  BY <1>1 DEF PutUpTo
<1>3. ASSUME NEW t \in into(j), t \notin got
      PROVE  ~closed[t] /\ ~Full(t)
  <2>1. PICK k \in i..(j - 1) : Open(q, k) /\ t = Targets(q)[k]
    BY <1>3
  <2>2. k \in i..Len(Targets(q))
    <3>1. Len(Targets(q)) \in Nat
      BY TargetsType DEF QueueInv
    <3>2. QED
      BY <1>1, <2>1, <3>1
  <2>3. k \notin Stops(q, i)
    BY <1>1, <2>1
  <2>4. QED
    BY <2>1, <2>2, <2>3 DEF Stops, Open
<1>4. QED
  <2> HIDE DEF into
  <2>1. Reaches(ev, got, into(j))
    BY <1>2, <1>3 DEF Reaches
  <2>2. QED
    BY <2>1

\* What a step may add: at most one event, and only to a queue with a free
\* slot that is open or, before 3.13, owed the event by a suspended put.
LEMMA GrowsOnlyWithRoom ==
  ASSUME QueueInv, [QueueNext]_queueVars, NEW t \in Queue
  PROVE  \/ Len(buf'[t]) <= Len(buf[t])
         \/ /\ Len(buf'[t]) = Len(buf[t]) + 1
            /\ ~Full(t)
            /\ closed[t] => ~Py313
<1> DEFINE Room == \/ Len(buf'[t]) <= Len(buf[t])
                   \/ /\ Len(buf'[t]) = Len(buf[t]) + 1
                      /\ ~Full(t)
                      /\ closed[t] => ~Py313
<1>1. buf \in [Queue -> Seq(Event)] /\ buf' \in [Queue -> Seq(Event)] /\ QueueTypeOK
  <2>1. QueueInv'
    BY StepPreserves
  <2>2. QED
    BY <2>1 DEF QueueInv, QueueTypeOK
<1>2. ASSUME NEW p \in Proc, NEW q \in Queue, NEW ev \in Event, NEW i \in Nat \ {0}, NEW got,
             PutFrom(p, q, ev, i, got),
             \A s \in got : ~Full(s) /\ ~(Py313 /\ closed[s])
      PROVE  Room
  <2>1. PICK into : Reaches(ev, got, into)
    BY <1>2, PutFromReaches
  <2>2. CASE t \notin into
    <3>1. buf'[t] = buf[t]
      BY <2>1, <2>2 DEF Reaches
    <3>2. Len(buf[t]) \in Nat
      BY <1>1
    <3>3. QED
      BY <3>1, <3>2
  <2>3. CASE t \in into
    <3>1. buf'[t] = Append(buf[t], ev)
      BY <2>1, <2>3 DEF Reaches
    <3>2. Len(buf'[t]) = Len(buf[t]) + 1
      BY <1>1, <3>1
    <3>3. QED
      BY <1>2, <2>1, <2>3, <3>2 DEF Reaches
  <2>4. QED
    BY <2>2, <2>3
<1>3. ASSUME NEW cs, Drop(cs)
      PROVE  Len(buf'[t]) <= Len(buf[t])
  <2>1. buf'[t] = buf[t] \/ buf'[t] = <<>>
    BY <1>3 DEF Drop
  <2>2. Len(buf[t]) \in Nat /\ Len(<<>>) = 0
    BY <1>1, EmptySeq
  <2>3. CASE buf'[t] = buf[t]
    BY <2>2, <2>3
  <2>4. CASE buf'[t] = <<>>
    <3>1. Len(buf'[t]) = 0
      BY <2>2, <2>4, Zenon
    <3>2. QED
      BY <2>2, <3>1
  <2>5. QED
    BY <2>1, <2>3, <2>4
<1>4. ASSUME buf' = buf
      PROVE  Room
  <2>1. Len(buf[t]) \in Nat
    BY <1>1
  <2>2. QED
    BY <1>4, <2>1
<1>5. ASSUME NEW q \in Queue, Dequeue(q)
      PROVE  Len(buf'[t]) <= Len(buf[t])
  <2>1. CASE t = q
    <3>1. buf[q] \in Seq(Event) /\ buf[q] # <<>> /\ buf'[q] = Tail(buf[q])
      BY <1>1, <1>5 DEF Dequeue
    <3>2. Len(Tail(buf[q])) = Len(buf[q]) - 1 /\ Len(buf[q]) \in Nat
      BY <3>1
    <3>3. QED
      BY <2>1, <3>1, <3>2
  <2>2. CASE t # q
    <3>1. buf'[t] = buf[t] /\ Len(buf[t]) \in Nat
      BY <1>1, <1>5, <2>2 DEF Dequeue
    <3>2. QED
      BY <3>1
  <2>3. QED
    BY <2>1, <2>2
<1>6. ASSUME NEW p \in Proc, Calls(p)
      PROVE  buf' = buf \/ (\E cs : Drop(cs))
             \/ \E q \in Queue, ev \in Event : PutFrom(p, q, ev, 1, {})
  BY <1>6 DEF Calls, Enqueue, ClearEvents, CloseImmediate, CloseGraceful, queueVars
<1>7. ASSUME NEW p \in Proc, Goes(p)
      PROVE  buf' = buf \/ (\E cs : Drop(cs)) \/ ResumePut(p)
  BY <1>7 DEF Goes, PutRaises, ClearChild, CloseChild, StartJoin, ClearedAll, CloseReturns
<1>8. ASSUME NEW p \in Proc, ResumePut(p)
      PROVE  Room
  <2>1. op[p].q \in Queue /\ op[p].ev \in Event /\ op[p].at + 1 \in Nat \ {0}
    BY <1>1, <1>8, OpType DEF ResumePut
  <2>2. QED
    BY <1>2, <1>8, <2>1 DEF ResumePut
<1>9. ASSUME NEW q \in Queue, NEW ev \in Event, NEW p \in Proc, PutFrom(p, q, ev, 1, {})
      PROVE  Room
  BY <1>2, <1>9
<1>10. ASSUME \E q \in Queue : Create(q) \/ TaskDone(q) \/ \E c \in Queue : Tap(q, c)
       PROVE  Room
  BY <1>4, <1>10 DEF Create, TaskDone, Tap
<1>11. ASSUME (\E p \in Proc : Cancel(p)) \/ UNCHANGED queueVars
       PROVE  Room
  BY <1>4, <1>11 DEF Cancel, queueVars
<1>12. QED
  <2> HIDE DEF Room
  <2>1. ASSUME NEW p \in Proc, Calls(p) \/ Goes(p)
        PROVE  Room
    <3>1. (\E cs : Drop(cs)) => Room
      BY <1>3 DEF Room
    <3>2. QED
      BY <1>4, <1>6, <1>7, <1>8, <1>9, <2>1, <3>1
  <2>2. ASSUME NEW q \in Queue, Dequeue(q)
        PROVE  Room
    BY <1>5, <2>2 DEF Room
  <2>3. Room
    BY <1>10, <1>11, <2>1, <2>2 DEF QueueNext, QueueSteps
  <2>4. QED
    BY <2>3 DEF Room

\* A publication respects the bound of every queue it reaches.
THEOREM CapacityRespected == QueueSpec => []WithinCapacity
<1>1. QueueInit => WithinCapacity
  <2> SUFFICES ASSUME QueueInit PROVE WithinCapacity
    OBVIOUS
  <2>1. ASSUME NEW q \in Queue PROVE Len(buf[q]) <= MaxSize
    <3>1. buf[q] = <<>>
      BY DEF QueueInit
    <3>2. Len(buf[q]) = 0
      BY <3>1, EmptySeq, Zenon
    <3>3. QED
      BY <3>2, QueueAssumption
  <2>2. QED
    BY <2>1 DEF WithinCapacity
<1>2. QueueInv /\ WithinCapacity /\ [QueueNext]_queueVars => WithinCapacity'
  <2> SUFFICES ASSUME QueueInv, WithinCapacity, [QueueNext]_queueVars, NEW t \in Queue
               PROVE  Len(buf'[t]) <= MaxSize
    BY DEF WithinCapacity
  <2>1. Len(buf[t]) \in Nat /\ Len(buf'[t]) \in Nat
    BY StepPreserves DEF QueueInv, QueueTypeOK
  <2>2. Len(buf[t]) <= MaxSize
    BY DEF WithinCapacity
  <2>3. QED
    BY <2>1, <2>2, GrowsOnlyWithRoom, QueueAssumption DEF Full
<1>3. QED
  BY <1>1, <1>2, InitEstablishes, StepPreserves, PTL DEF QueueSpec

\* From Python 3.13 on, no step adds an event to a closed queue; the
\* late put of EventQueueLatePut.cfg shows that the version matters.
THEOREM NothingAfterClose ==
  ASSUME Py313
  PROVE  QueueSpec => ClosedQueueNeverGrows
<1>1. ASSUME QueueInv, [QueueNext]_queueVars, NEW q \in Queue, closed[q]
      PROVE  Len(buf'[q]) <= Len(buf[q])
  BY <1>1, GrowsOnlyWithRoom
<1>2. QueueInv /\ [QueueNext]_queueVars =>
        [\A q \in Queue : closed[q] => Len(buf'[q]) <= Len(buf[q])]_queueVars
  BY <1>1
<1>3. QED
  BY <1>2, InitEstablishes, StepPreserves, PTL DEF QueueSpec, ClosedQueueNeverGrows

-----------------------------------------------------------------------------
(* Closing the taps with the queue, when no tap comes after the close and  *)
(* no close is cancelled half-way.                                         *)

\* A closed queue has all its taps closed, or a close of it is under way that
\* still has the open ones in hand.
Covered(q) ==
  \/ \E p \in Proc : op[p].kind = "clear" /\ op[p].closing /\ op[p].q = q
  \/ \E p \in Proc : /\ op[p].kind = "join" /\ op[p].q = q
                     /\ \A c \in Kids(q) : closed[c] \/ c \in op[p].shut
  \/ \A c \in Kids(q) : closed[c]

TapsInv ==
  /\ \A q \in Queue : \A c \in Kids(q) : c \in created /\ Kids(c) = {}
  /\ \A q \in Queue : q \notin created => Kids(q) = {} /\ ~closed[q]
  /\ \A p \in Proc : op[p].kind = "join" => op[p].shut \subseteq Kids(op[p].q)
  /\ \A q \in Queue : closed[q] => Covered(q)

\* What a step makes of the call of r, as far as the taps are concerned.
Passes(r) ==
  \/ op[r].kind \notin {"clear", "join"}
  \/ /\ op[r].kind = "clear" /\ op'[r].kind = "clear"
     /\ op'[r].q = op[r].q /\ op'[r].closing = op[r].closing
  \/ /\ op[r].kind = "clear"
     /\ op[r].closing => \A c \in Kids(op[r].q) : closed'[c]
  \/ /\ op[r].kind = "join" /\ op'[r].kind = "join"
     /\ op'[r].q = op[r].q
     /\ \A c \in op[r].shut : closed'[c] \/ c \in op'[r].shut
  \/ op[r].kind = "join" /\ op[r].shut = {}

\* A step that closes queues only together with their taps, or with a call
\* that has these in hand, and drops no such call, keeps every queue covered.
LEMMA CoveredKept ==
  ASSUME QueueTypeOK, TapsInv,
         UNCHANGED children,
         NEW q \in Queue, closed[q],
         \A r \in Proc : Passes(r),
         \A c \in Queue : closed[c] => closed'[c]
  PROVE  Covered(q)'
<1>1. Kids(q)' = Kids(q) /\ Kids(q) \subseteq Queue
  BY KidsType DEF Kids
<1>2. Covered(q)
  BY DEF TapsInv
<1>3. CASE \A c \in Kids(q) : closed[c]
  BY <1>1, <1>3 DEF Covered
<1>4. ASSUME NEW p \in Proc, op[p].kind = "clear", op[p].closing, op[p].q = q
      PROVE  Covered(q)'
  <2>1. CASE op'[p].kind = "clear" /\ op'[p].q = q /\ op'[p].closing
    BY <2>1 DEF Covered
  <2>2. CASE \A c \in Kids(q) : closed'[c]
    BY <1>1, <2>2 DEF Covered
  <2>3. QED
    BY <1>4, <2>1, <2>2 DEF Passes
<1>5. ASSUME NEW p \in Proc, op[p].kind = "join", op[p].q = q,
             \A c \in Kids(q) : closed[c] \/ c \in op[p].shut
      PROVE  Covered(q)'
  <2>1. CASE /\ op'[p].kind = "join" /\ op'[p].q = q
             /\ \A c \in op[p].shut : closed'[c] \/ c \in op'[p].shut
    <3>1. \A c \in Kids(q) : closed'[c] \/ c \in op'[p].shut
      BY <1>1, <1>5, <2>1
    <3>2. QED
      BY <1>1, <2>1, <3>1 DEF Covered
  <2>2. CASE op[p].shut = {}
    <3>1. \A c \in Kids(q) : closed'[c]
      BY <1>1, <1>5, <2>2
    <3>2. QED
      BY <1>1, <3>1 DEF Covered
  <2>3. QED
    BY <1>5, <2>1, <2>2 DEF Passes
<1>6. QED
  BY <1>2, <1>3, <1>4, <1>5 DEF Covered

\* The same for the whole invariant.
LEMMA TapsKept ==
  ASSUME QueueTypeOK, TapsInv,
         UNCHANGED <<created, children>>,
         \A r \in Proc : Passes(r),
         \A r \in Proc : op'[r].kind = "join" => op'[r].shut \subseteq Kids(op'[r].q),
         \A r \in Proc : op'[r].kind = "join" => op'[r].q \in Queue,
         \A c \in Queue : closed[c] => closed'[c],
         \A c \in Queue : closed'[c] /\ ~closed[c] => c \in created /\ Covered(c)'
  PROVE  TapsInv'
<1>1. \A q \in Queue : Kids(q)' = Kids(q)
  BY DEF Kids
<1>2. \A q \in Queue : Kids(q) \subseteq Queue
  BY KidsType
<1>3. \A q \in Queue : closed'[q] => Covered(q)'
  BY CoveredKept
<1>4. (\A q \in Queue : \A c \in Kids(q) : c \in created /\ Kids(c) = {})'
  BY <1>1, <1>2 DEF TapsInv
<1>5. (\A q \in Queue : q \notin created => Kids(q) = {} /\ ~closed[q])'
  BY <1>1 DEF TapsInv, QueueTypeOK
<1>6. \A p \in Proc : op'[p].kind = "join" => op'[p].shut \subseteq {children'[op'[p].q][i] : i \in DOMAIN children'[op'[p].q]}
  BY DEF Kids
<1>7. (\A p \in Proc : op[p].kind = "join" => op[p].shut \subseteq Kids(op[p].q))'
  BY <1>6 DEF Kids
<1>8. QED
  BY <1>3, <1>4, <1>5, <1>7 DEF TapsInv

\* What waking and a change of one call leave of the other calls.
LEMMA OthersPass ==
  ASSUME QueueTypeOK, TapsInv, NEW p \in Proc, NEW o \in Ops, NEW zero,
         op' = [Woken(zero) EXCEPT ![p] = o] \/ op' = [op EXCEPT ![p] = o],
         NEW r \in Proc, r # p
  PROVE  /\ Passes(r)
         /\ op'[r].kind = "join" => /\ op'[r].shut \subseteq Kids(op'[r].q)
                                    /\ op'[r].q \in Queue
<1>1. op \in [Proc -> Ops] /\ Woken(zero) \in [Proc -> Ops]
  BY WokenType DEF QueueTypeOK
<1>2. op'[r] = op[r] \/ op'[r] = Woken(zero)[r]
  BY <1>1
<1>3. CASE op'[r] = op[r]
  BY <1>3, OpType DEF Passes, TapsInv
<1>4. CASE op'[r] = Woken(zero)[r] /\ op[r].kind = "join"
  <2>1. op'[r] = JoinOp(op[r].q, op[r].shut, op[r].start, op[r].wait \ zero)
    BY <1>4, WokenType
  <2>2. op'[r].kind = "join" /\ op'[r].q = op[r].q /\ op'[r].shut = op[r].shut
    BY <2>1 DEF JoinOp
  <2>3. QED
    BY <1>4, <2>2, OpType DEF Passes, TapsInv
<1>5. CASE op'[r] = Woken(zero)[r] /\ op[r].kind # "join"
  BY <1>3, <1>5, WokenType
<1>6. QED
  BY <1>2, <1>3, <1>4, <1>5

\* A step that changes the call of p alone, apart from waking waiters.
LEMMA OneCallKept ==
  ASSUME QueueTypeOK, TapsInv,
         UNCHANGED <<created, children>>,
         NEW p \in Proc, NEW o \in Ops, NEW zero,
         op' = [Woken(zero) EXCEPT ![p] = o] \/ op' = [op EXCEPT ![p] = o],
         Passes(p),
         o.kind = "join" => o.shut \subseteq Kids(o.q) /\ o.q \in Queue,
         \A c \in Queue : closed[c] => closed'[c],
         \A c \in Queue : closed'[c] /\ ~closed[c] => c \in created /\ Covered(c)'
  PROVE  TapsInv'
<1>1. op'[p] = o
  BY WokenType DEF QueueTypeOK
<1>2. \A r \in Proc : /\ Passes(r)
                      /\ op'[r].kind = "join" => /\ op'[r].shut \subseteq Kids(op'[r].q)
                                                 /\ op'[r].q \in Queue
  BY <1>1, OthersPass
<1>3. QED
  BY <1>2, TapsKept

\* A tap's own close leaves nothing open below it.
LEMMA TapCovered ==
  ASSUME QueueTypeOK, TapsInv, UNCHANGED children,
         NEW q \in Queue, NEW c \in Kids(q)
  PROVE  c \in created /\ Covered(c)'
<1>1. Kids(c) = {} /\ c \in created
  BY DEF TapsInv
<1>2. Kids(c)' = {}
  BY <1>1 DEF Kids
<1>3. QED
  BY <1>1, <1>2 DEF Covered

LEMMA TapsStep ==
  ASSUME ~LateTap, Cancellable = {}
  PROVE  QueueInv /\ TapsInv /\ [QueueNext]_queueVars => TapsInv'
<1> SUFFICES ASSUME QueueTypeOK, TapsInv, [QueueNext]_queueVars
             PROVE  TapsInv'
  BY DEF QueueInv
<1>1. Idle \in Ops /\ Idle.kind = "idle"
  BY DEF Ops, Idle
<1>2. closed \in [Queue -> BOOLEAN] /\ op \in [Proc -> Ops]
  BY DEF QueueTypeOK
<1>3. CASE UNCHANGED <<children, closed, op, created>>
  <2>1. \A q : Kids(q)' = Kids(q)
    BY <1>3 DEF Kids
  <2>2. \A q : Covered(q)' = Covered(q)
    BY <1>3, <2>1 DEF Covered
  <2>3. QED
    BY <1>3, <2>1, <2>2 DEF TapsInv
<1>4. ASSUME NEW q \in Queue, Create(q)
      PROVE  TapsInv'
  <2>1. \A r : Kids(r)' = Kids(r)
    BY <1>4 DEF Create, Kids
  <2>2. \A r : Covered(r)' = Covered(r)
    BY <1>4, <2>1 DEF Create, Covered
  <2>3. QED
    BY <1>4, <2>1, <2>2 DEF Create, TapsInv
<1>5. ASSUME NEW q \in Queue, NEW c \in Queue, Tap(q, c)
      PROVE  TapsInv'
  <2>1. ~closed[q] /\ q \in created /\ c \notin created /\ q # c
    BY <1>5 DEF Tap
  <2>2. Kids(q)' = Kids(q) \union {c} /\ \A r \in Queue \ {q} : Kids(r)' = Kids(r)
    <3>1. /\ children'[q] = Append(children[q], c) /\ children[q] \in Seq(Queue)
          /\ \A r \in Queue \ {q} : children'[r] = children[r]
      BY <1>5 DEF Tap, QueueTypeOK
    <3>2. /\ Len(children'[q]) = Len(children[q]) + 1
          /\ \A i \in 1..Len(children[q]) : children'[q][i] = children[q][i]
          /\ children'[q][Len(children[q]) + 1] = c
      BY <3>1, AppendProperties
    <3>3. /\ DOMAIN children'[q] = 1..(Len(children[q]) + 1)
          /\ DOMAIN children[q] = 1..Len(children[q]) /\ Len(children[q]) \in Nat
      BY <3>1, <3>2, AppendProperties
    <3>4. DOMAIN children'[q] = DOMAIN children[q] \union {Len(children[q]) + 1}
      BY <3>3
    <3>5. {children'[q][i] : i \in DOMAIN children'[q]} = Kids(q) \union {c}
      BY <3>2, <3>3, <3>4 DEF Kids
    <3>6. QED
      BY <3>1, <3>5 DEF Kids
  <2>3. \A r \in Queue : q \notin Kids(r)
    BY <1>5 DEF Tap, IsRoot
  <2>4. \A r \in Queue : Kids(r) \subseteq Queue
    BY KidsType
  <2>5. Kids(c) = {} /\ ~closed[c]
    BY <2>1 DEF TapsInv
  <2>6. created' = created \union {c} /\ UNCHANGED <<closed, op>>
    BY <1>5 DEF Tap
  <2>7. \A r \in Queue : \A k \in Kids(r)' : k \in created' /\ Kids(k)' = {}
    BY <2>1, <2>2, <2>3, <2>4, <2>5, <2>6 DEF TapsInv
  <2>8. \A r \in Queue : r \notin created' => Kids(r)' = {} /\ ~closed'[r]
    BY <2>1, <2>2, <2>6 DEF TapsInv
  <2>9. ASSUME NEW r \in Proc, op[r].kind = "join"
        PROVE  op[r].shut \subseteq {children'[op[r].q][i] : i \in DOMAIN children'[op[r].q]}
    <3>1. op[r].q \in Queue /\ op[r].shut \subseteq Kids(op[r].q)
      BY <2>9, OpType DEF TapsInv
    <3>2. \A k \in Queue : Kids(k) \subseteq {children'[k][i] : i \in DOMAIN children'[k]}
      BY <2>2 DEF Kids
    <3>3. QED
      BY <3>1, <3>2
  <2>10. ASSUME NEW r \in Queue, closed[r]
         PROVE  Covered(r)'
    <3>1. Kids(r)' = Kids(r)
      BY <2>1, <2>2, <2>10
    <3>2. QED
      BY <2>6, <2>10, <3>1 DEF Covered, TapsInv
  <2>11. (\A r \in Proc : op[r].kind = "join" => op[r].shut \subseteq Kids(op[r].q))'
    BY <2>6, <2>9 DEF Kids
  <2>12. QED
    BY <2>6, <2>7, <2>8, <2>10, <2>11 DEF TapsInv
<1>6. ASSUME NEW p \in Proc, NEW o \in Ops, op' = [op EXCEPT ![p] = o], o.kind # "join",
             op[p].kind \notin {"clear", "join"}, UNCHANGED <<created, children, closed>>
      PROVE  TapsInv'
  <2>1. Passes(p)
    BY <1>6 DEF Passes
  <2>2. QED
    BY <1>6, <2>1, OneCallKept
<1>7. ASSUME NEW p \in Proc, NEW q \in Queue, NEW ev \in Event, NEW i \in Nat \ {0}, NEW got,
             PutFrom(p, q, ev, i, got), op[p].kind \notin {"clear", "join"}
      PROVE  TapsInv'
  <2>1. PICK o \in Ops : o.kind # "join" /\ op' = [op EXCEPT ![p] = o]
    <3>1. \A j \in Stops(q, i) : j \in Nat \ {0}
      BY TargetsType DEF Stops
    <3>2. \A j \in Stops(q, i) : PutOp(q, j, ev) \in Ops /\ PutOp(q, j, ev).kind = "put"
      BY <3>1, OpsMade DEF PutOp
    <3>3. QED
      BY <1>1, <1>7, <3>2 DEF PutFrom
  <2>2. QED
    BY <1>6, <1>7, <2>1 DEF PutFrom
<1>8. ASSUME NEW p \in Proc, NEW q \in Queue, NEW deep \in BOOLEAN, ClearEvents(p, q, deep)
      PROVE  TapsInv'
  <2>1. ClearOp(q, Kids(q), FALSE) \in Ops /\ ClearOp(q, Kids(q), FALSE).kind = "clear"
    BY KidsType, OpsMade
  <2>2. PICK o \in Ops : o.kind # "join" /\ op' = [Woken(Emptied({q})) EXCEPT ![p] = o]
    BY <1>1, <1>8, <2>1 DEF ClearEvents
  <2>3. Passes(p)
    BY <1>1, <1>8 DEF Passes, ClearEvents
  <2>4. QED
    BY <1>8, <2>2, <2>3, OneCallKept DEF ClearEvents
<1>9. ASSUME NEW p \in Proc, NEW q \in Queue, CloseImmediate(p, q)
      PROVE  TapsInv'
  <2> DEFINE o == IF Kids(q) # {} THEN ClearOp(q, Kids(q), TRUE) ELSE Idle
  <2>1. op' = [Woken(Emptied({q})) EXCEPT ![p] = o] /\ UNCHANGED <<created, children>>
    BY <1>9 DEF CloseImmediate
  <2>2. o \in Ops /\ o.kind # "join"
    BY <1>1, KidsType, OpsMade
  <2>3. Kids(q)' = Kids(q) /\ op'[p] = o
    BY <2>1, WokenType DEF Kids
  <2>4. Covered(q)'
    <3>1. CASE Kids(q) = {}
      BY <2>3, <3>1 DEF Covered
    <3>2. CASE Kids(q) # {}
      BY <2>3, <3>2 DEF Covered, ClearOp
    <3>3. QED
      BY <3>1, <3>2
  <2>5. \A c \in Queue : closed'[c] <=> closed[c] \/ c = q
    BY <1>2, <1>9 DEF CloseImmediate
  <2>6. q \in created /\ Passes(p)
    BY <1>1, <1>9 DEF CloseImmediate, Passes
  <2> HIDE DEF o
  <2>7. QED
    BY <2>1, <2>2, <2>4, <2>5, <2>6, OneCallKept
<1>10. ASSUME NEW p \in Proc, NEW q \in Queue, CloseGraceful(p, q), ~ UNCHANGED queueVars
       PROVE  TapsInv'
  <2> DEFINE o == JoinOp(q, Kids(q), {q}, {})
  <2>1. op' = [op EXCEPT ![p] = o] /\ UNCHANGED <<created, children>>
    BY <1>10 DEF CloseGraceful
  <2>2. o \in Ops /\ o.kind = "join" /\ o.q = q /\ o.shut = Kids(q)
    BY KidsType, OpsMade DEF JoinOp
  <2>3. Kids(q)' = Kids(q) /\ op'[p] = o
    BY <1>2, <2>1 DEF Kids
  <2> HIDE DEF o
  <2>4. Covered(q)'
    BY <2>2, <2>3 DEF Covered
  <2>5. \A c \in Queue : closed'[c] <=> closed[c] \/ c = q
    BY <1>2, <1>10 DEF CloseGraceful
  <2>6. q \in created /\ Passes(p)
    BY <1>1, <1>10 DEF CloseGraceful, Passes
  <2>7. QED
    BY <2>1, <2>2, <2>4, <2>5, <2>6, OneCallKept
<1>11. ASSUME NEW p \in Proc, NEW c \in Queue, ClearChild(p, c)
       PROVE  TapsInv'
  <2> DEFINE o == ClearOp(op[p].q, op[p].todo \ {c}, op[p].closing)
  <2>1. Woken(Emptied({c}))[p] = op[p]
    BY <1>11, WokenType DEF ClearChild
  <2>2. op' = [Woken(Emptied({c})) EXCEPT ![p] = o] /\ UNCHANGED <<created, children, closed>>
    BY <1>11, <2>1 DEF ClearChild
  <2>3. o \in Ops /\ o.kind = "clear" /\ o.q = op[p].q /\ o.closing = op[p].closing
    <3>1. op[p].q \in Queue /\ op[p].todo \ {c} \in SUBSET Queue /\ op[p].closing \in BOOLEAN
      BY <1>11, OpType DEF ClearChild
    <3>2. QED
      BY <3>1, OpsMade DEF ClearOp
  <2> HIDE DEF o
  <2>4. op'[p] = o /\ op[p].kind = "clear"
    BY <1>11, <2>2, WokenType DEF ClearChild
  <2>5. Passes(p)
    BY <2>3, <2>4 DEF Passes
  <2>6. QED
    BY <2>2, <2>3, <2>5, OneCallKept
<1>12. ASSUME NEW p \in Proc, ClearedAll(p)
       PROVE  TapsInv'
  <2> DEFINE cs == IF op[p].closing THEN Kids(op[p].q) ELSE {}
  <2>1. /\ op' = [Woken(Emptied(cs)) EXCEPT ![p] = Idle]
        /\ UNCHANGED <<created, children>>
        /\ closed' = [q \in Queue |-> closed[q] \/ q \in cs]
        /\ op[p].kind = "clear"
    BY <1>12 DEF ClearedAll
  <2>2. op[p].q \in Queue
    BY <2>1, OpType
  <2>3. Passes(p)
    <3>1. op[p].closing => \A c \in Kids(op[p].q) : closed'[c]
      BY <2>1, <2>2, KidsType
    <3>2. QED
      BY <2>1, <3>1 DEF Passes
  <2>4. \A c \in Queue : closed'[c] /\ ~closed[c] => c \in created /\ Covered(c)'
    BY <2>1, <2>2, TapCovered
  <2>5. \A c \in Queue : closed[c] => closed'[c]
    BY <2>1
  <2> HIDE DEF cs
  <2>6. QED
    BY <1>1, <2>1, <2>3, <2>4, <2>5, OneCallKept
<1>13. ASSUME NEW p \in Proc, NEW c \in Queue, CloseChild(p, c)
       PROVE  TapsInv'
  <2> DEFINE o == JoinOp(op[p].q, op[p].shut \ {c},
                         IF closed[c] THEN op[p].start ELSE op[p].start \union {c}, op[p].wait)
  <2>1. /\ op' = [op EXCEPT ![p] = o] /\ UNCHANGED <<created, children>>
        /\ closed' = [closed EXCEPT ![c] = TRUE]
        /\ op[p].kind = "join" /\ c \in op[p].shut
    BY <1>13 DEF CloseChild
  <2>2. op[p].q \in Queue /\ op[p].shut \subseteq Kids(op[p].q)
    BY <2>1, OpType DEF TapsInv
  <2>3. o \in Ops /\ o.kind = "join" /\ o.q = op[p].q /\ o.shut = op[p].shut \ {c}
    <3>1. /\ op[p].q \in Queue /\ op[p].shut \in SUBSET Queue
          /\ op[p].start \in SUBSET Queue /\ op[p].wait \in SUBSET Queue
      BY <2>1, OpType
    <3>2. QED
      BY <3>1, OpsMade DEF JoinOp
  <2> HIDE DEF o
  <2>4. op'[p] = o
    BY <1>2, <2>1
  <2>5. Passes(p)
    BY <1>2, <2>1, <2>3, <2>4 DEF Passes
  <2>6. c \in created /\ Covered(c)'
    BY <2>1, <2>2, TapCovered
  <2>7. \A r \in Queue : closed'[r] <=> closed[r] \/ r = c
    BY <1>2, <2>1
  <2>8. QED
    BY <2>1, <2>2, <2>3, <2>5, <2>6, <2>7, OneCallKept
<1>14. ASSUME NEW p \in Proc, NEW c \in Queue, StartJoin(p, c)
       PROVE  TapsInv'
  <2> DEFINE o == JoinOp(op[p].q, op[p].shut, op[p].start \ {c},
                         IF unfinished[c] = 0 THEN op[p].wait ELSE op[p].wait \union {c})
  <2>1. /\ op' = [op EXCEPT ![p] = o] /\ UNCHANGED <<created, children, closed>>
        /\ op[p].kind = "join"
    BY <1>14 DEF StartJoin
  <2>2. op[p].q \in Queue /\ op[p].shut \subseteq Kids(op[p].q)
    BY <2>1, OpType DEF TapsInv
  <2>3. o \in Ops /\ o.kind = "join" /\ o.q = op[p].q /\ o.shut = op[p].shut
    <3>1. /\ op[p].q \in Queue /\ op[p].shut \in SUBSET Queue
          /\ op[p].start \in SUBSET Queue /\ op[p].wait \in SUBSET Queue
      BY <2>1, OpType
    <3>2. /\ op[p].start \ {c} \in SUBSET Queue
          /\ (IF unfinished[c] = 0 THEN op[p].wait ELSE op[p].wait \union {c}) \in SUBSET Queue
      BY <3>1
    <3>3. QED
      BY <3>1, <3>2, OpsMade DEF JoinOp
  <2> HIDE DEF o
  <2>4. op'[p] = o
    BY <1>2, <2>1
  <2>5. Passes(p)
    BY <2>1, <2>3, <2>4 DEF Passes
  <2>6. QED
    BY <2>1, <2>2, <2>3, <2>5, OneCallKept
<1>15. ASSUME NEW p \in Proc, CloseReturns(p)
       PROVE  TapsInv'
  <2>1. Passes(p)
    BY <1>15 DEF CloseReturns, Passes
  <2>2. QED
    BY <1>1, <1>15, <2>1, OneCallKept DEF CloseReturns
<1>16. ASSUME NEW p \in Proc, Calls(p)
       PROVE  TapsInv'
  <2>1. ASSUME NEW q \in Queue, NEW ev \in Event, Enqueue(p, q, ev)
        PROVE  TapsInv'
    BY <1>1, <1>3, <1>7, <2>1 DEF Enqueue, queueVars
  <2>2. QED
    BY <1>3, <1>8, <1>9, <1>10, <1>16, <2>1 DEF Calls, queueVars
<1>17. ASSUME NEW p \in Proc, Goes(p)
       PROVE  TapsInv'
  <2>1. ASSUME ResumePut(p)
        PROVE  TapsInv'
    <3>1. op[p].q \in Queue /\ op[p].ev \in Event /\ op[p].at + 1 \in Nat \ {0}
          /\ op[p].kind = "put"
      BY <2>1, OpType DEF ResumePut
    <3>2. PICK got : PutFrom(p, op[p].q, op[p].ev, op[p].at + 1, got)
      BY <2>1 DEF ResumePut
    <3>3. QED
      BY <1>7, <3>1, <3>2
  <2>2. ASSUME PutRaises(p)
        PROVE  TapsInv'
    BY <1>1, <1>6, <2>2 DEF PutRaises
  <2>3. QED
    BY <1>11, <1>12, <1>13, <1>14, <1>15, <1>17, <2>1, <2>2 DEF Goes
<1>18. ASSUME NEW q \in Queue, TaskDone(q)
       PROVE  TapsInv'
  <2>1. ASSUME NEW r \in Proc
        PROVE  /\ Passes(r)
               /\ op'[r].kind = "join" => /\ op'[r].shut \subseteq Kids(op'[r].q)
                                          /\ op'[r].q \in Queue
    <3>1. op'[r] = op[r] \/ op'[r] = Woken({q})[r]
      BY <1>18 DEF TaskDone
    <3>2. CASE op'[r] = op[r]
      BY <3>2, OpType DEF Passes, TapsInv
    <3>3. CASE op'[r] = Woken({q})[r] /\ op[r].kind = "join"
      <4>1. op'[r] = JoinOp(op[r].q, op[r].shut, op[r].start, op[r].wait \ {q})
        BY <3>3, WokenType
      <4>2. op'[r].kind = "join" /\ op'[r].q = op[r].q /\ op'[r].shut = op[r].shut
        BY <4>1 DEF JoinOp
      <4>3. QED
        BY <3>3, <4>2, OpType DEF Passes, TapsInv
    <3>4. CASE op'[r] = Woken({q})[r] /\ op[r].kind # "join"
      BY <3>2, <3>4, WokenType
    <3>5. QED
      BY <3>1, <3>2, <3>3, <3>4
  <2>2. UNCHANGED <<created, children, closed>>
    BY <1>18 DEF TaskDone
  <2>3. QED
    BY <2>1, <2>2, TapsKept
<1>19. ASSUME NEW q \in Queue, Dequeue(q)
       PROVE  TapsInv'
  BY <1>3, <1>19 DEF Dequeue
<1>20. ASSUME NEW p \in Proc
       PROVE  ~Cancel(p)
  BY DEF Cancel
<1>21. CASE UNCHANGED queueVars
  BY <1>3, <1>21 DEF queueVars
<1>22. CASE QueueNext
  BY <1>4, <1>5, <1>16, <1>17, <1>18, <1>19, <1>20, <1>22 DEF QueueNext, QueueSteps
<1>23. QED
  BY <1>21, <1>22

\* Nobody taps a closed queue and no close is cut short: then a closed queue
\* leaves no tap open, in whatever order the closes of queue and taps overlap.
\* EventQueueLateTap.cfg and EventQueueCutShort.cfg show that both assumptions
\* are needed.
THEOREM TapsCloseWithTheirQueue ==
  ASSUME ~LateTap, Cancellable = {}
  PROVE  QueueSpec => []NoTapOutlivesItsQueue
<1>1. QueueInit => TapsInv
  <2> SUFFICES ASSUME QueueInit PROVE TapsInv
    OBVIOUS
  <2>1. \A q \in Queue : Kids(q) = {}
    <3>1. \A q \in Queue : children[q] = <<>>
      BY DEF QueueInit
    <3>2. <<>> \in Seq(Queue) /\ Len(<<>>) = 0
      BY EmptySeq, Zenon
    <3>3. DOMAIN <<>> = 1..Len(<<>>)
      BY LenProperties, <3>2, Zenon
    <3>4. DOMAIN <<>> = {}
      BY <3>2, <3>3
    <3>5. \A q \in Queue : \A c : c \notin Kids(q)
      BY <3>1, <3>4 DEF Kids
    <3>6. QED
      BY <3>5, Zenon
  <2>2. \A p \in Proc : op[p].kind = "idle"
    BY DEF QueueInit, Idle
  <2>3. \A q \in Queue : ~closed[q]
    BY DEF QueueInit
  <2>4. QED
    BY <2>1, <2>2, <2>3 DEF TapsInv
<1>2. TapsInv => NoTapOutlivesItsQueue
  BY DEF TapsInv, Covered, NoTapOutlivesItsQueue, Closing
<1>3. QED
  BY <1>1, <1>2, TapsStep, InitEstablishes, StepPreserves, PTL DEF QueueSpec

-----------------------------------------------------------------------------
(* A graceful close returns on a drained queue, when nothing can be put on *)
(* a closed queue and no close is cancelled half-way.                      *)

\* A close that waits has closed its queue, and waits for it unless nothing
\* of it is unfinished.
DrainInv ==
  \A p \in Proc :
    op[p].kind = "join" =>
      /\ closed[op[p].q]
      /\ \/ op[p].q \in op[p].start \union op[p].wait
         \/ unfinished[op[p].q] = 0

\* What a step makes of the close r may be in: it goes on to wait for what it
\* waited for, but for what is drained now, or it has nothing to wait for.
Waits(r) ==
  /\ op[r].kind = "join" =>
       \/ /\ op'[r].kind = "join" /\ op'[r].q = op[r].q
          /\ \A c \in op[r].start \union op[r].wait :
               c \in op'[r].start \union op'[r].wait \/ unfinished'[c] = 0
       \/ /\ op'[r].kind # "join" /\ op[r].start = {} /\ op[r].wait = {}
  /\ op'[r].kind = "join" /\ op[r].kind # "join" =>
       /\ op'[r].q \in Queue /\ closed'[op'[r].q]
       /\ op'[r].q \in op'[r].start

\* A step that wakes only the waiters of drained queues.
LEMMA OthersWait ==
  ASSUME QueueTypeOK, NEW p \in Proc, NEW o, NEW zero,
         \/ op' = [Woken(zero) EXCEPT ![p] = o]
         \/ op' = [op EXCEPT ![p] = o]
         \/ op' = Woken(zero),
         \A c \in zero : unfinished'[c] = 0,
         NEW r \in Proc, op'[r] = Woken(zero)[r] \/ op'[r] = op[r]
  PROVE  Waits(r)
<1>1. CASE op'[r] = op[r]
  BY <1>1 DEF Waits
<1>2. CASE op'[r] = Woken(zero)[r] /\ op[r].kind = "join"
  <2>1. op'[r] = JoinOp(op[r].q, op[r].shut, op[r].start, op[r].wait \ zero)
    BY <1>2, WokenType
  <2>2. /\ op'[r].kind = "join" /\ op'[r].q = op[r].q
        /\ op'[r].start = op[r].start /\ op'[r].wait = op[r].wait \ zero
    BY <2>1 DEF JoinOp
  <2>3. QED
    BY <1>2, <2>2 DEF Waits
<1>3. CASE op'[r] = Woken(zero)[r] /\ op[r].kind # "join"
  BY <1>1, <1>3, WokenType
<1>4. QED
  BY <1>1, <1>2, <1>3

\* Dropping empties exactly the queues whose waiters it wakes.
LEMMA EmptiedDone ==
  ASSUME QueueTypeOK, NEW cs \in SUBSET Queue, Drop(cs)
  PROVE  \A c \in Emptied(cs) : unfinished'[c] = 0
BY DEF Drop, Emptied, QueueTypeOK

\* Every step, for every coroutine.
LEMMA EveryCloseWaits ==
  ASSUME Cancellable = {}, QueueInv, [QueueNext]_queueVars, NEW r \in Proc
  PROVE  Waits(r)
<1>1. QueueTypeOK /\ op \in [Proc -> Ops] /\ Idle.kind = "idle"
  BY DEF QueueInv, QueueTypeOK, Idle
<1>2. CASE UNCHANGED op
  BY <1>2 DEF Waits
<1>3. ASSUME NEW q \in Queue, TaskDone(q)
      PROVE  Waits(r)
  <2>1. CASE unfinished'[q] = 0
    <3>1. op' = Woken({q})
      BY <1>3, <2>1 DEF TaskDone
    <3>2. QED
      BY <1>1, <2>1, <3>1, OthersWait
  <2>2. CASE unfinished'[q] # 0
    BY <1>2, <1>3, <2>2 DEF TaskDone
  <2>3. QED
    BY <2>1, <2>2
<1>4. ASSUME NEW p \in Proc, op[p].kind # "join", NEW o, o.kind # "join",
             op' = [op EXCEPT ![p] = o]
             \/ \E cs \in SUBSET Queue : /\ Drop(cs)
                                         /\ op' = [Woken(Emptied(cs)) EXCEPT ![p] = o]
      PROVE  Waits(r)
  <2>1. CASE r = p
    <3>1. op'[p] = o
      BY <1>1, <1>4, WokenType
    <3>2. QED
      BY <1>4, <2>1, <3>1 DEF Waits
  <2>2. CASE r # p /\ op' = [op EXCEPT ![p] = o]
    <3>1. op'[r] = op[r]
      BY <1>1, <2>2
    <3>2. QED
      BY <3>1 DEF Waits
  <2>3. ASSUME r # p, NEW cs \in SUBSET Queue, Drop(cs),
               op' = [Woken(Emptied(cs)) EXCEPT ![p] = o]
        PROVE  Waits(r)
    <3>1. op'[r] = Woken(Emptied(cs))[r]
      BY <1>1, <2>3, WokenType
    <3>2. \A c \in Emptied(cs) : unfinished'[c] = 0
      BY <1>1, <2>3, EmptiedDone
    <3>3. QED
      BY <1>1, <2>3, <3>1, <3>2, OthersWait
  <2>4. QED
    BY <1>4, <2>1, <2>2, <2>3
<1>5. ASSUME NEW p \in Proc, NEW q \in Queue, NEW ev \in Event, NEW i \in Nat \ {0},
             NEW got, op[p].kind # "join", PutFrom(p, q, ev, i, got)
      PROVE  Waits(r)
  <2>1. PICK o : o.kind # "join" /\ op' = [op EXCEPT ![p] = o]
    <3>1. CASE op' = [op EXCEPT ![p] = Idle]
      BY <1>1, <3>1
    <3>2. ASSUME NEW j, op' = [op EXCEPT ![p] = PutOp(q, j, ev)]
          PROVE  PutOp(q, j, ev).kind # "join"
      BY DEF PutOp
    <3>3. QED
      BY <1>5, <3>1, <3>2 DEF PutFrom
  <2>2. QED
    BY <1>4, <1>5, <2>1
<1>6. ASSUME NEW p \in Proc, NEW q \in Queue, op[p] = Idle,
             \/ \E ev \in Event : Enqueue(p, q, ev)
             \/ \E deep \in BOOLEAN : ClearEvents(p, q, deep)
             \/ CloseImmediate(p, q)
      PROVE  Waits(r)
  <2>1. op[p].kind # "join"
    BY <1>1, <1>6
  <2>2. ASSUME NEW ev \in Event, Enqueue(p, q, ev)
        PROVE  Waits(r)
    BY <1>2, <1>5, <2>1, <2>2 DEF Enqueue, queueVars
  <2>3. ASSUME \/ \E deep \in BOOLEAN : ClearEvents(p, q, deep)
               \/ CloseImmediate(p, q)
        PROVE  Waits(r)
    <3>1. PICK o : o.kind # "join" /\ op' = [Woken(Emptied({q})) EXCEPT ![p] = o]
      BY <1>1, <2>3 DEF ClearEvents, CloseImmediate, ClearOp
    <3>2. Drop({q}) /\ {q} \in SUBSET Queue
      BY <2>3 DEF ClearEvents, CloseImmediate
    <3>3. QED
      BY <1>4, <2>1, <3>1, <3>2
  <2>4. QED
    BY <1>6, <2>2, <2>3
<1>7. ASSUME NEW p \in Proc, NEW q \in Queue, op[p] = Idle, CloseGraceful(p, q)
      PROVE  Waits(r)
  <2>1. CASE closed[q]
    BY <1>2, <1>7, <2>1 DEF CloseGraceful, queueVars
  <2>2. CASE ~closed[q] /\ r # p
    <3>1. op'[r] = op[r]
      BY <1>1, <1>7, <2>2 DEF CloseGraceful
    <3>2. QED
      BY <3>1 DEF Waits
  <2>3. CASE ~closed[q] /\ r = p
    <3>1. op'[p] = JoinOp(q, Kids(q), {q}, {}) /\ closed'[q]
      BY <1>1, <1>7, <2>3 DEF CloseGraceful, QueueTypeOK
    <3>2. op'[p].q = q /\ op'[p].start = {q}
      BY <3>1 DEF JoinOp
    <3>3. QED
      BY <1>1, <1>7, <2>3, <3>1, <3>2 DEF Waits
  <2>4. QED
    BY <2>1, <2>2, <2>3
<1>8. ASSUME NEW p \in Proc, Goes(p)
      PROVE  Waits(r)
  <2>1. CASE ResumePut(p)
    <3>1. op[p].q \in Queue /\ op[p].ev \in Event /\ op[p].at + 1 \in Nat \ {0}
          /\ op[p].kind # "join"
      BY <1>1, <2>1, OpType DEF ResumePut
    <3>2. QED
      BY <1>5, <2>1, <3>1 DEF ResumePut
  <2>2. CASE PutRaises(p)
    <3>1. op[p].kind # "join" /\ Idle.kind # "join" /\ op' = [op EXCEPT ![p] = Idle]
      BY <1>1, <2>2 DEF PutRaises
    <3>2. QED
      BY <1>4, <3>1
  <2>3. ASSUME NEW c \in Queue, ClearChild(p, c)
        PROVE  Waits(r)
    <3>1. op[p].kind # "join" /\ Drop({c}) /\ {c} \in SUBSET Queue
      BY <2>3 DEF ClearChild
    <3>2. PICK o : o.kind # "join" /\ op' = [Woken(Emptied({c})) EXCEPT ![p] = o]
      <4>1. ClearOp(Woken(Emptied({c}))[p].q, Woken(Emptied({c}))[p].todo \ {c},
                    Woken(Emptied({c}))[p].closing).kind # "join"
        BY DEF ClearOp
      <4>2. QED
        BY <1>1, <2>3, <4>1, WokenType DEF ClearChild
    <3>3. QED
      BY <1>4, <3>1, <3>2
  <2>4. CASE ClearedAll(p)
    <3>1. PICK cs \in SUBSET Queue :
            Drop(cs) /\ op' = [Woken(Emptied(cs)) EXCEPT ![p] = Idle]
      <4>1. op[p].q \in Queue
        BY <1>1, <2>4, OpType DEF ClearedAll
      <4>2. Kids(op[p].q) \in SUBSET Queue
        BY <1>1, <4>1, KidsType
      <4>3. QED
        BY <2>4, <4>2 DEF ClearedAll
    <3>2. op[p].kind # "join" /\ Idle.kind # "join"
      BY <1>1, <2>4 DEF ClearedAll
    <3>3. QED
      BY <1>4, <3>1, <3>2
  <2>5. ASSUME NEW c \in Queue, CloseChild(p, c) \/ StartJoin(p, c)
        PROVE  Waits(r)
    <3>1. op[p].kind = "join"
      BY <2>5 DEF CloseChild, StartJoin
    <3>2. PICK a, b, d : /\ op' = [op EXCEPT ![p] = JoinOp(op[p].q, a, b, d)]
                         /\ \A k \in op[p].start \union op[p].wait :
                              k \in b \union d \/ unfinished'[k] = 0
      <4>1. CASE CloseChild(p, c)
        <5> DEFINE a == op[p].shut \ {c}
                   b == IF closed[c] THEN op[p].start ELSE op[p].start \union {c}
                   d == op[p].wait
        <5>1. op' = [op EXCEPT ![p] = JoinOp(op[p].q, a, b, d)]
          BY <4>1 DEF CloseChild
        <5>2. op[p].start \union op[p].wait \subseteq b \union d
          OBVIOUS
        <5> HIDE DEF a, b, d
        <5>3. QED
          BY <5>1, <5>2
      <4>2. CASE StartJoin(p, c)
        <5> DEFINE a == op[p].shut
                   b == op[p].start \ {c}
                   d == IF unfinished[c] = 0 THEN op[p].wait ELSE op[p].wait \union {c}
        <5>1. op' = [op EXCEPT ![p] = JoinOp(op[p].q, a, b, d)] /\ unfinished' = unfinished
          BY <4>2 DEF StartJoin
        <5>2. \A k \in op[p].start \union op[p].wait :
                k \in b \union d \/ unfinished[k] = 0
          OBVIOUS
        <5> HIDE DEF a, b, d
        <5>3. QED
          BY <5>1, <5>2
      <4>3. QED
        BY <2>5, <4>1, <4>2
    <3>3. CASE r = p
      <4>1. op'[p] = JoinOp(op[p].q, a, b, d)
        BY <1>1, <3>2
      <4>2. /\ op'[p].kind = "join" /\ op'[p].q = op[p].q
            /\ op'[p].start = b /\ op'[p].wait = d
        BY <4>1 DEF JoinOp
      <4>3. QED
        BY <3>1, <3>2, <3>3, <4>2 DEF Waits
    <3>4. CASE r # p
      <4>1. op'[r] = op[r]
        BY <1>1, <3>2, <3>4
      <4>2. QED
        BY <4>1 DEF Waits
    <3>5. QED
      BY <3>3, <3>4
  <2>6. CASE CloseReturns(p)
    <3>1. CASE r = p
      <4>1. op'[p] = Idle
        BY <1>1, <2>6 DEF CloseReturns
      <4>2. QED
        BY <1>1, <2>6, <3>1, <4>1 DEF CloseReturns, Waits
    <3>2. CASE r # p
      <4>1. op'[r] = op[r]
        BY <1>1, <2>6, <3>2 DEF CloseReturns
      <4>2. QED
        BY <4>1 DEF Waits
    <3>3. QED
      BY <3>1, <3>2
  <2>7. QED
    BY <1>8, <2>1, <2>2, <2>3, <2>4, <2>5, <2>6 DEF Goes
<1>9. ASSUME \E q \in Queue : Create(q) \/ Dequeue(q) \/ \E c \in Queue : Tap(q, c)
      PROVE  Waits(r)
  BY <1>2, <1>9 DEF Create, Dequeue, Tap
<1>10. ASSUME NEW p \in Proc, Calls(p)
       PROVE  Waits(r)
  <2>1. op[p] = Idle
    BY <1>10 DEF Calls, Enqueue, ClearEvents, CloseImmediate, CloseGraceful
  <2>2. QED
    BY <1>6, <1>7, <1>10, <2>1 DEF Calls
<1>11. QED
  BY <1>2, <1>3, <1>8, <1>9, <1>10 DEF QueueNext, QueueSteps, Cancel, queueVars

\* close() is final: no step opens a queue again.
LEMMA ClosedForGood ==
  ASSUME QueueTypeOK, [QueueNext]_queueVars, NEW q \in Queue, closed[q]
  PROVE  closed'[q]
<1>1. closed \in [Queue -> BOOLEAN]
  BY DEF QueueTypeOK
<1>2. \A t, c \in Queue : Create(t) \/ Tap(t, c) \/ Dequeue(t) \/ TaskDone(t) => closed' = closed
  BY DEF Create, Tap, Dequeue, TaskDone
<1>3. \A p \in Proc : Calls(p) => closed'[q]
  BY <1>1 DEF Calls, Enqueue, PutFrom, ClearEvents, CloseImmediate, CloseGraceful, queueVars
<1>4. \A p \in Proc : Goes(p) \/ Cancel(p) => closed'[q]
  BY <1>1 DEF Goes, ResumePut, PutFrom, PutRaises, ClearChild, ClearedAll, CloseChild,
              StartJoin, CloseReturns, Cancel
<1>5. QED
  BY <1>1, <1>2, <1>3, <1>4 DEF QueueNext, QueueSteps, queueVars

\* On Python 3.13 nothing becomes unfinished again on a closed queue.
LEMMA DrainedStaysDrained ==
  ASSUME Py313, QueueInv, [QueueNext]_queueVars,
         NEW q \in Queue, closed[q], unfinished[q] = 0
  PROVE  closed'[q] /\ unfinished'[q] = 0
<1>1. /\ buf \in [Queue -> Seq(Event)] /\ held \in [Queue -> Nat]
      /\ closed \in [Queue -> BOOLEAN]
      /\ unfinished[q] = Len(buf[q]) + held[q]
  BY DEF QueueInv, QueueTypeOK, UnfinishedExact
<1>2. /\ buf' \in [Queue -> Seq(Event)] /\ held' \in [Queue -> Nat]
      /\ unfinished'[q] = Len(buf'[q]) + held'[q]
  BY StepPreserves DEF QueueInv, QueueTypeOK, UnfinishedExact
<1>3. Len(buf[q]) = 0 /\ held[q] = 0 /\ Len(buf[q]) \in Nat /\ Len(buf'[q]) \in Nat
  <2>1. Len(buf[q]) \in Nat /\ held[q] \in Nat /\ Len(buf'[q]) \in Nat
    BY <1>1, <1>2
  <2>2. QED
    BY <1>1, <2>1
<1>4. Len(buf'[q]) = 0
  <2>1. Len(buf'[q]) <= Len(buf[q])
    BY GrowsOnlyWithRoom
  <2>2. QED
    BY <1>3, <2>1
<1>5. held'[q] = 0
  <2>1. buf[q] = <<>>
    BY <1>1, <1>3, EmptySeq
  <2>2. \A t \in Queue : Dequeue(t) => held'[q] = held[q]
    BY <1>1, <2>1 DEF Dequeue
  <2>3. \A t \in Queue : TaskDone(t) => held'[q] = held[q]
    BY <1>1, <1>3 DEF TaskDone
  <2>4. \A t, c \in Queue : Create(t) \/ Tap(t, c) => held' = held
    BY DEF Create, Tap
  <2>5. \A p \in Proc : Calls(p) => held' = held
    BY DEF Calls, Enqueue, PutFrom, ClearEvents, CloseImmediate, CloseGraceful, queueVars
  <2>6. \A p \in Proc : Goes(p) \/ Cancel(p) => held' = held
    BY DEF Goes, ResumePut, PutFrom, PutRaises, ClearChild, ClearedAll, CloseChild,
           StartJoin, CloseReturns, Cancel
  <2>7. QED
    BY <1>3, <2>2, <2>3, <2>4, <2>5, <2>6 DEF QueueNext, QueueSteps, queueVars
<1>6. closed'[q]
  BY ClosedForGood DEF QueueInv
<1>7. QED
  BY <1>2, <1>4, <1>5, <1>6

LEMMA DrainStep ==
  ASSUME Py313, Cancellable = {}, QueueInv, DrainInv, [QueueNext]_queueVars
  PROVE  DrainInv'
<1> SUFFICES ASSUME NEW p \in Proc, op'[p].kind = "join"
             PROVE  /\ closed'[op'[p].q]
                    /\ \/ op'[p].q \in op'[p].start \union op'[p].wait
                       \/ unfinished'[op'[p].q] = 0
  BY DEF DrainInv
<1>1. Waits(p)
  BY EveryCloseWaits
<1>2. CASE op[p].kind # "join"
  BY <1>1, <1>2 DEF Waits
<1>3. CASE op[p].kind = "join"
  <2>1. op'[p].q = op[p].q /\ op[p].q \in Queue /\ closed[op[p].q]
    BY <1>1, <1>3, OpType DEF Waits, DrainInv, QueueInv
  <2>2. closed'[op'[p].q]
    BY <2>1, ClosedForGood DEF QueueInv
  <2>3. CASE unfinished[op[p].q] = 0
    BY <2>1, <2>2, <2>3, DrainedStaysDrained
  <2>4. CASE op[p].q \in op[p].start \union op[p].wait
    BY <1>1, <1>3, <2>1, <2>2, <2>4 DEF Waits
  <2>5. QED
    BY <1>3, <2>3, <2>4 DEF DrainInv
<1>4. QED
  BY <1>2, <1>3

\* From Python 3.13 on, a close that is not cancelled returns on a queue with
\* nothing in it and nothing in a consumer's hands.  The late put of
\* EventQueueLatePut.cfg shows why the version matters: before 3.13 it makes
\* the queue unfinished again between the last task_done() and the return.
THEOREM ClosesReturnDrained ==
  ASSUME Py313, Cancellable = {}
  PROVE  QueueSpec => GracefulCloseDrains
<1>1. QueueInit => DrainInv
  BY DEF QueueInit, DrainInv, Idle
<1>2. ASSUME QueueInv, DrainInv, [QueueNext]_queueVars,
             NEW p \in Proc, op[p].kind = "join", op'[p] = Idle
      PROVE  buf[op[p].q] = <<>> /\ unfinished[op[p].q] = 0
  <2>1. Waits(p) /\ op'[p].kind # "join"
    BY <1>2, EveryCloseWaits DEF Idle
  <2>2. op[p].q \in Queue /\ unfinished[op[p].q] = 0
    BY <1>2, <2>1, OpType DEF Waits, DrainInv, QueueInv
  <2>3. /\ buf[op[p].q] \in Seq(Event) /\ held[op[p].q] \in Nat
        /\ Len(buf[op[p].q]) \in Nat
        /\ unfinished[op[p].q] = Len(buf[op[p].q]) + held[op[p].q]
    BY <1>2, <2>2 DEF QueueInv, QueueTypeOK, UnfinishedExact
  <2>4. Len(buf[op[p].q]) = 0
    BY <2>2, <2>3
  <2>5. QED
    BY <2>2, <2>3, <2>4, EmptySeq
<1>3. QueueInv /\ DrainInv /\ [QueueNext]_queueVars =>
        [\A p \in Proc :
           op[p].kind = "join" /\ op'[p] = Idle =>
             buf[op[p].q] = <<>> /\ unfinished[op[p].q] = 0]_queueVars
  BY <1>2
<1>4. QED
  BY <1>1, <1>3, DrainStep, InitEstablishes, StepPreserves, PTL
  DEF QueueSpec, GracefulCloseDrains
=============================================================================
