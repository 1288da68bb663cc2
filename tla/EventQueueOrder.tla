--------------------------- MODULE EventQueueOrder ---------------------------
(***************************************************************************)
(* EventQueue with numbered events, to say what reaches whom and in which  *)
(* order.  An event is a pair <<p, n>>: the n-th that coroutine p          *)
(* publishes.  Each publisher has one queue, the one its agent was given,  *)
(* and publishes nothing more once it was cancelled.                       *)
(***************************************************************************)
EXTENDS EventQueue

CONSTANT MaxEvents   \* bound on what one coroutine publishes

ASSUME OrderAssumption ==
  /\ MaxEvents \in Nat
  /\ Event = Proc \X (1..MaxEvents)

VARIABLES
  sent,   \* sent[p]: how many events p has begun to publish
  via,    \* via[p]: the queue p publishes to, as a set of at most one
  log,    \* log[q][p]: the events of p that were put on q, by number
  tapAt,  \* tapAt[c][p]: sent[p] when c was tapped
  cut     \* the coroutines that were cancelled

historyVars == <<sent, via, log, tapAt, cut>>
orderVars == <<queueVars, historyVars>>

OrderInit ==
  /\ QueueInit
  /\ sent = [p \in Proc |-> 0]
  /\ via = [p \in Proc |-> {}]
  /\ log = [q \in Queue |-> [p \in Proc |-> <<>>]]
  /\ tapAt = [q \in Queue |-> [p \in Proc |-> 0]]
  /\ cut = {}

-----------------------------------------------------------------------------
\* What a step of the queue put on q, as a sequence of at most one event.
Added(q) ==
  IF Len(buf'[q]) > Len(buf[q]) THEN SubSeq(buf'[q], Len(buf'[q]), Len(buf'[q]))
                                ELSE <<>>

Observe ==
  log' = [q \in Queue |-> [p \in Proc |->
            IF Added(q) # <<>> /\ Head(Added(q))[1] = p
            THEN Append(log[q][p], Head(Added(q))[2])
            ELSE log[q][p]]]

Publish(p, q) ==
  /\ p \notin cut /\ sent[p] < MaxEvents
  /\ via[p] \subseteq {q}
  /\ ~closed[q]
  /\ Enqueue(p, q, <<p, sent[p] + 1>>)
  /\ sent' = [sent EXCEPT ![p] = @ + 1]
  /\ via' = [via EXCEPT ![p] = {q}]
  /\ UNCHANGED <<tapAt, cut>>

NewTap(q, c) ==
  /\ Tap(q, c)
  /\ tapAt' = [tapAt EXCEPT ![c] = sent]
  /\ UNCHANGED <<sent, via, cut>>

OtherSteps ==
  /\ \/ \E q \in Queue : Create(q) \/ Dequeue(q) \/ TaskDone(q)
     \/ \E p \in Proc :
          \/ \E q \in Queue, deep \in BOOLEAN : ClearEvents(p, q, deep)
          \/ \E q \in Queue : CloseImmediate(p, q) \/ CloseGraceful(p, q)
          \/ Goes(p)
  /\ UNCHANGED <<sent, via, tapAt, cut>>

Cancelled(p) ==
  /\ Cancel(p)
  /\ cut' = cut \union {p}
  /\ UNCHANGED <<sent, via, tapAt>>

OrderNext ==
  /\ \/ \E p \in Proc, q \in Queue : Publish(p, q)
     \/ \E q, c \in Queue : q # c /\ NewTap(q, c)
     \/ OtherSteps
     \/ \E p \in Proc : Cancelled(p)
  /\ Observe

OrderSpec == OrderInit /\ [][OrderNext]_orderVars

-----------------------------------------------------------------------------
\* The number of p's last event on q, 0 if there is none.
LastOf(q, p) == IF log[q][p] = <<>> THEN 0 ELSE log[q][p][Len(log[q][p])]

\* A tap "receives all future events": once a publication to q has ended and was
\* not cancelled, a tap of q that is open and was made before it has the event too.
TapSeesAll ==
  \A q \in Queue : \A c \in Kids(q), p \in Proc :
    /\ via[p] = {q} /\ p \notin cut
    /\ op[p].kind # "put"
    /\ ~closed[c]
    /\ LastOf(q, p) > tapAt[c][p]
    => LastOf(c, p) = LastOf(q, p)

\* Seen from outside, the queue and its taps are a broadcast.
Abstract ==
  INSTANCE Broadcast WITH
    Publisher <- Proc,
    made <- sent,
    underway <- [p \in Proc |-> op[p].kind = "put"]

IsBroadcast == Abstract!Spec
=============================================================================
