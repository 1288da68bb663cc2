----------------------- MODULE EventQueueOrderProofs -----------------------
(***************************************************************************)
(* What reaches whom and in which order, for any number of queues, taps,   *)
(* publishers and events and any buffer size, before Python 3.13: there a  *)
(* put that waits on a queue that is closed meanwhile still gets its slot, *)
(* so only a cancellation ends a publication early.                        *)
(***************************************************************************)
EXTENDS EventQueueOrder, EventQueueProofs

-----------------------------------------------------------------------------
(* The inductive invariant.                                                *)

\* Up to which publication of p the queue t is served: its last one, or the one
\* that was under way or over when t was tapped.
Seen(t, p) == IF log[t][p] = <<>> THEN tapAt[t][p] ELSE LastOf(t, p)

\* A queue's targets are different queues, and all exist.
TapsApart ==
  \A q \in Queue :
    /\ \A k \in DOMAIN children[q] : children[q][k] \in created /\ children[q][k] # q
    /\ \A i, j \in DOMAIN children[q] : children[q][i] = children[q][j] => i = j

\* Target k of q when n is the last publication of p: the loop is past it, or it
\* still has publication n to come.
Past(p, q, k, n) ==
  k = 1 \/ ~closed[Targets(q)[k]] => Seen(Targets(q)[k], p) = n

ToCome(p, q, k, n) ==
  \/ log[Targets(q)[k]][p] = <<>>
  \/ Seen(Targets(q)[k], p) + 1 = n

Owed(p, q, k, n) ==
  /\ op[p].kind = "put" /\ k = op[p].at => ToCome(p, q, k, n)
  /\ op[p].kind = "put" /\ k > op[p].at => closed[Targets(q)[k]] \/ ToCome(p, q, k, n)
  /\ op[p].kind # "put" \/ k < op[p].at => Past(p, q, k, n)

Served(p, q, n) == \A k \in DOMAIN Targets(q) : Owed(p, q, k, n)

Fits(p) ==
  /\ via[p] = {} => /\ sent[p] = 0 /\ op[p].kind # "put"
                    /\ \A t \in Queue : log[t][p] = <<>> /\ tapAt[t][p] = 0
  /\ op[p].kind = "put" => /\ p \notin cut
                           /\ via[p] = {op[p].q}
                           /\ op[p].ev = <<p, sent[p]>>
  /\ \A q \in via[p] : /\ via[p] = {q} /\ q \in created
                       /\ p \notin cut => Served(p, q, sent[p])

OrderTypeOK ==
  /\ sent \in [Proc -> Nat]
  /\ via \in [Proc -> SUBSET Queue]
  /\ log \in [Queue -> [Proc -> Seq(Nat)]]
  /\ tapAt \in [Queue -> [Proc -> Nat]]

OrderInv ==
  /\ QueueInv
  /\ OrderTypeOK
  /\ TapsApart
  /\ \A t \in Queue \ created : \A p \in Proc : log[t][p] = <<>>
  /\ \A p \in Proc : Fits(p)

-----------------------------------------------------------------------------
(* What a step puts on the queues, as the history records it.              *)

\* The event is recorded for its publisher on the queues that got it.
LEMMA PutIsLogged ==
  ASSUME QueueTypeOK, OrderTypeOK, Observe,
         NEW p \in Proc, NEW n \in Nat, <<p, n>> \in Event, NEW into,
         buf' = [t \in Queue |-> IF t \in into THEN Append(buf[t], <<p, n>>) ELSE buf[t]]
  PROVE  /\ log' = [t \in Queue |-> IF t \in into THEN [log[t] EXCEPT ![p] = Append(@, n)]
                                                 ELSE log[t]]
         /\ log' \in [Queue -> [Proc -> Seq(Nat)]]
<1> DEFINE ev == <<p, n>>
           grown(t) == [log[t] EXCEPT ![p] = Append(@, n)]
           now(t) == [r \in Proc |-> IF Added(t) # <<>> /\ Head(Added(t))[1] = r
                                     THEN Append(log[t][r], Head(Added(t))[2])
                                     ELSE log[t][r]]
<1>1. buf \in [Queue -> Seq(Event)] /\ \A t \in Queue : log[t] \in [Proc -> Seq(Nat)]
  BY DEF QueueTypeOK, OrderTypeOK
<1>2. ASSUME NEW t \in Queue, t \in into
      PROVE  now(t) = grown(t)
  <2>1. Added(t) # <<>> /\ Head(Added(t)) = ev
    <3> HIDE DEF ev
    <3>1. buf[t] \in Seq(Event) /\ ev \in Event /\ buf'[t] = Append(buf[t], ev)
      BY <1>1, <1>2 DEF ev
    <3>2. /\ Len(buf'[t]) = Len(buf[t]) + 1 /\ Len(buf[t]) \in Nat
          /\ buf'[t] \in Seq(Event)
          /\ buf'[t][Len(buf[t]) + 1] = ev
      BY <3>1
    <3>3. ASSUME NEW s \in Seq(Event), NEW m \in Nat, Len(s) = m + 1
          PROVE  /\ SubSeq(s, m + 1, m + 1) # <<>>
                 /\ Head(SubSeq(s, m + 1, m + 1)) = s[m + 1]
      <4>1. /\ SubSeq(s, m + 1, m + 1) \in Seq(Event)
            /\ Len(SubSeq(s, m + 1, m + 1)) = 1
            /\ SubSeq(s, m + 1, m + 1)[1] = s[m + 1]
        BY <3>3
      <4>2. ASSUME NEW x \in Seq(Event), Len(x) = 1
            PROVE  x # <<>> /\ Head(x) = x[1]
        <5>1. x # <<>>
          <6>1. Len(<<>>) # 1
            OBVIOUS
          <6>2. QED
            BY <4>2, <6>1, Zenon
        <5>2. QED
          BY <4>2, <5>1
      <4>3. QED
        BY <4>1, <4>2
    <3>4. Added(t) = SubSeq(buf'[t], Len(buf'[t]), Len(buf'[t]))
      BY <3>2 DEF Added
    <3>5. QED
      BY <3>2, <3>3, <3>4
  <2>2. Added(t) # <<>> /\ Head(Added(t))[1] = p /\ Head(Added(t))[2] = n
    BY <2>1
  <2>3. now(t) = [r \in Proc |-> IF p = r THEN Append(log[t][r], n) ELSE log[t][r]]
    BY <2>2
  <2>4. QED
    BY <1>1, <2>3
<1>3. ASSUME NEW t \in Queue, t \notin into
      PROVE  now(t) = log[t]
  <2>1. buf'[t] = buf[t] /\ Len(buf[t]) \in Nat
    BY <1>1, <1>3
  <2>2. ~(Len(buf'[t]) > Len(buf[t]))
    <3>1. \A m \in Nat : ~(m > m)
      OBVIOUS
    <3>2. QED
      BY <2>1, <3>1
  <2>3. Added(t) = <<>>
    BY <2>2 DEF Added
  <2>4. now(t) = [r \in Proc |-> log[t][r]]
    BY <2>3
  <2>5. QED
    BY <1>1, <2>4
<1>4. log' = [t \in Queue |-> now(t)]
  BY DEF Observe
<1> HIDE DEF now
<1>5. log' = [t \in Queue |-> IF t \in into THEN grown(t) ELSE log[t]]
  BY <1>2, <1>3, <1>4
<1>6. \A t \in Queue : grown(t) \in [Proc -> Seq(Nat)]
  BY <1>1
<1>7. QED
  <2>1. log' \in [Queue -> [Proc -> Seq(Nat)]]
    <3> HIDE DEF grown
    <3>1. QED
      BY <1>1, <1>5, <1>6
  <2>2. QED
    BY <1>5, <2>1

\* A step that lets no buffer grow leaves the history alone.
LEMMA NothingLogged ==
  ASSUME OrderTypeOK, Observe, \A t \in Queue : ~(Len(buf'[t]) > Len(buf[t]))
  PROVE  log' = log
<1>1. \A t \in Queue : Added(t) = <<>>
  BY DEF Added
<1>2. log' = [t \in Queue |-> [r \in Proc |-> log[t][r]]]
  BY <1>1 DEF Observe
<1>3. QED
  BY <1>2 DEF OrderTypeOK

-----------------------------------------------------------------------------
(* One run of the loop of enqueue_event.                                   *)

\* The targets of a queue are different queues that exist.
LEMMA TargetsApart ==
  ASSUME QueueTypeOK, TapsApart, NEW q \in Queue, q \in created
  PROVE  /\ \A k \in DOMAIN Targets(q) : Targets(q)[k] \in created /\ Targets(q)[k] \in Queue
         /\ \A i, j \in DOMAIN Targets(q) : Targets(q)[i] = Targets(q)[j] => i = j
<1>1. /\ children[q] \in Seq(Queue) /\ created \subseteq Queue
      /\ DOMAIN children[q] = 1..Len(children[q]) /\ Len(children[q]) \in Nat
  BY DEF QueueTypeOK
<1>2. /\ DOMAIN Targets(q) = 1..(Len(children[q]) + 1) /\ Targets(q)[1] = q
      /\ \A k \in 2..(Len(children[q]) + 1) : Targets(q)[k] = children[q][k - 1]
  BY <1>1 DEF Targets
<1>3. /\ \A k \in 1..Len(children[q]) : children[q][k] \in created /\ children[q][k] # q
      /\ \A i, j \in 1..Len(children[q]) : children[q][i] = children[q][j] => i = j
  BY <1>1 DEF TapsApart
<1>4. ASSUME NEW k \in DOMAIN Targets(q)
      PROVE  \/ k = 1 /\ Targets(q)[k] = q
             \/ k - 1 \in 1..Len(children[q]) /\ Targets(q)[k] = children[q][k - 1]
  BY <1>1, <1>2
<1>5. ASSUME NEW i \in DOMAIN Targets(q), NEW j \in DOMAIN Targets(q),
             Targets(q)[i] = Targets(q)[j]
      PROVE  i = j
  <2>1. i \in Nat /\ j \in Nat
    BY <1>1, <1>2
  <2>2. i = 1 <=> j = 1
    BY <1>3, <1>4, <1>5
  <2>3. CASE i # 1 /\ j # 1
    <3>1. i - 1 = j - 1
      BY <1>3, <1>4, <1>5, <2>3
    <3>2. QED
      BY <2>1, <3>1
  <2>4. QED
    BY <2>2, <2>3
<1>6. QED
  BY <1>1, <1>3, <1>4, <1>5

\* Where the loop stops, and which targets get the event on the way.
LoopTo(p, q, ev, i, j, got) ==
  /\ i <= j /\ j <= Len(Targets(q)) + 1
  /\ j <= Len(Targets(q)) => Open(q, j)
  /\ op' = [op EXCEPT ![p] = IF j = Len(Targets(q)) + 1 THEN Idle ELSE PutOp(q, j, ev)]
  /\ buf' = [t \in Queue |->
               IF t \in got \union {Targets(q)[k] : k \in {k \in i..(j - 1) : Open(q, k)}}
               THEN Append(buf[t], ev) ELSE buf[t]]
  /\ UNCHANGED <<created, children, closed>>

LEMMA PutFromLoops ==
  ASSUME QueueTypeOK, NEW p \in Proc, NEW q \in Queue, NEW ev,
         NEW i \in Nat \ {0}, i <= Len(Targets(q)) + 1, NEW got, PutFrom(p, q, ev, i, got)
  PROVE  \E j \in Nat : LoopTo(p, q, ev, i, j, got)
<1>1. Len(Targets(q)) \in Nat
  BY TargetsType
<1>2. UNCHANGED <<created, children, closed>>
  BY DEF PutFrom
<1>3. CASE /\ PutUpTo(q, ev, i, Len(Targets(q)) + 1, got)
           /\ op' = [op EXCEPT ![p] = Idle]
  <2>1. LoopTo(p, q, ev, i, Len(Targets(q)) + 1, got)
    BY <1>1, <1>2, <1>3 DEF LoopTo, PutUpTo
  <2>2. QED
    BY <1>1, <2>1
<1>4. ASSUME NEW j \in Stops(q, i), PutUpTo(q, ev, i, j, got),
             op' = [op EXCEPT ![p] = PutOp(q, j, ev)]
      PROVE  j \in Nat /\ LoopTo(p, q, ev, i, j, got)
  <2>1. j \in Nat /\ i <= j /\ j <= Len(Targets(q)) /\ Open(q, j)
    BY <1>1 DEF Stops
  <2>2. j # Len(Targets(q)) + 1
    BY <1>1, <2>1
  <2>3. QED
    BY <1>1, <1>2, <1>4, <2>1, <2>2 DEF LoopTo, PutUpTo
<1>5. QED
  BY <1>3, <1>4 DEF PutFrom

\* What the loop needs of p's n-th event when it goes on at target i: the targets
\* before are served, but for the one whose slot p waited for, the others are not.
GoesOn(p, q, n, i, got) ==
  /\ \/ i = 1 /\ got = {} /\ ~closed[q]
     \/ i > 1 /\ got = {Targets(q)[i - 1]}
  /\ \A k \in DOMAIN Targets(q) :
       /\ k < i - 1 => Past(p, q, k, n)
       /\ k = i - 1 => ToCome(p, q, k, n)
       /\ k >= i => closed[Targets(q)[k]] \/ ToCome(p, q, k, n)

\* The events n of p that a step adds, to the queues of S, come next there.
AddsNext(p, n, S) ==
  /\ \A t \in S : log[t][p] # <<>> => LastOf(t, p) = n - 1
  /\ log' = [t \in Queue |-> IF t \in S THEN [log[t] EXCEPT ![p] = Append(@, n)] ELSE log[t]]

LEMMA PutServes ==
  ASSUME QueueTypeOK, OrderTypeOK, TapsApart, Observe, UNCHANGED tapAt,
         NEW p \in Proc, NEW q \in Queue, q \in created,
         NEW n \in Nat, <<p, n>> \in Event,
         NEW i \in Nat \ {0}, i <= Len(Targets(q)) + 1, NEW got,
         PutFrom(p, q, <<p, n>>, i, got), GoesOn(p, q, n, i, got)
  PROVE  /\ \A k \in DOMAIN Targets(q) : Owed(p, q, k, n)'
         /\ log' \in [Queue -> [Proc -> Seq(Nat)]]
         /\ \E S \in SUBSET created : AddsNext(p, n, S)
         /\ \/ op' = [op EXCEPT ![p] = Idle]
            \/ \E j \in Nat : op' = [op EXCEPT ![p] = PutOp(q, j, <<p, n>>)]
         /\ UNCHANGED <<created, children, closed>>
<1> DEFINE ev == <<p, n>>
<1>1. PICK j \in Nat : LoopTo(p, q, ev, i, j, got)
  BY PutFromLoops
<1> DEFINE into == got \union {Targets(q)[k] : k \in {k \in i..(j - 1) : Open(q, k)}}
           T(k) == Targets(q)[k]
<1>2. /\ i <= j /\ j <= Len(Targets(q)) + 1 /\ i \in Nat \ {0}
      /\ j <= Len(Targets(q)) => ~closed[T(j)]
      /\ op' = [op EXCEPT ![p] = IF j = Len(Targets(q)) + 1 THEN Idle ELSE PutOp(q, j, ev)]
      /\ buf' = [t \in Queue |-> IF t \in into THEN Append(buf[t], ev) ELSE buf[t]]
      /\ UNCHANGED <<created, children, closed>>
  BY <1>1 DEF LoopTo, Open
<1>3. /\ Len(Targets(q)) \in Nat /\ DOMAIN Targets(q) = 1..Len(Targets(q)) /\ T(1) = q
      /\ \A k \in DOMAIN Targets(q) : T(k) \in created /\ T(k) \in Queue
      /\ \A k, l \in DOMAIN Targets(q) : T(k) = T(l) => k = l
  BY TargetsType, TargetsApart
<1>4. ASSUME NEW k \in DOMAIN Targets(q)
      PROVE  T(k) \in into <=> k = i - 1 \/ (i <= k /\ k < j /\ ~closed[T(k)])
  <2>1. T(k) \in got <=> k = i - 1
    <3>1. CASE i = 1 /\ got = {}
      BY <1>3, <3>1
    <3>2. CASE i > 1 /\ got = {T(i - 1)}
      <4>1. i - 1 \in DOMAIN Targets(q)
        BY <1>2, <1>3, <3>2
      <4>2. QED
        BY <1>3, <3>2, <4>1
    <3>3. QED
      BY <3>1, <3>2 DEF GoesOn
  <2>2. T(k) \in {T(l) : l \in {l \in i..(j - 1) : Open(q, l)}}
          <=> i <= k /\ k < j /\ ~closed[T(k)]
    <3>1. \A l \in i..(j - 1) : l \in DOMAIN Targets(q) /\ l \in Nat /\ l < j /\ i <= l
      BY <1>2, <1>3
    <3>2. k \in Nat /\ (k \in i..(j - 1) <=> i <= k /\ k < j)
      BY <1>2, <1>3
    <3>3. QED
      BY <1>3, <3>1, <3>2 DEF Open
  <2>3. QED
    BY <2>1, <2>2
<1>5. ASSUME NEW t \in into
      PROVE  \E k \in DOMAIN Targets(q) : t = T(k)
  <2>1. CASE t \in got
    <3>1. i > 1 /\ t = T(i - 1)
      BY <2>1 DEF GoesOn
    <3>2. i - 1 \in DOMAIN Targets(q)
      BY <1>2, <1>3, <3>1
    <3>3. QED
      BY <3>1, <3>2
  <2>2. CASE t \notin got
    <3>1. PICK k \in i..(j - 1) : t = T(k)
      BY <2>2
    <3>2. k \in DOMAIN Targets(q)
      BY <1>2, <1>3, <3>1
    <3>3. QED
      BY <3>1, <3>2
  <2>3. QED
    BY <2>1, <2>2
<1> HIDE DEF into
<1>6. /\ log' = [t \in Queue |-> IF t \in into THEN [log[t] EXCEPT ![p] = Append(@, n)]
                                               ELSE log[t]]
      /\ log' \in [Queue -> [Proc -> Seq(Nat)]]
  BY <1>2, PutIsLogged
<1>7. ASSUME NEW k \in DOMAIN Targets(q), T(k) \in into
      PROVE  ToCome(p, q, k, n)
  <2>1. k \in Nat /\ i \in Nat /\ (k = i - 1 \/ (k >= i /\ ~closed[T(k)]))
    BY <1>2, <1>3, <1>4, <1>7
  <2>2. QED
    BY <2>1 DEF GoesOn
<1>8. ASSUME NEW t \in Queue, t \in into
      PROVE  Seen(t, p)' = n
  <2>1. log[t][p] \in Seq(Nat) /\ log'[t][p] = Append(log[t][p], n)
    BY <1>6, <1>8 DEF OrderTypeOK
  <2>2. log'[t][p] # <<>> /\ log'[t][p][Len(log'[t][p])] = n
    BY <2>1
  <2>3. QED
    BY <2>2 DEF Seen, LastOf
<1>9. ASSUME NEW t \in Queue, t \notin into
      PROVE  log'[t][p] = log[t][p] /\ Seen(t, p)' = Seen(t, p)
  <2>1. log'[t] = log[t]
    BY <1>6, <1>9
  <2>2. QED
    BY <2>1 DEF Seen, LastOf
<1>10. Targets(q)' = Targets(q)
  BY <1>2 DEF Targets
<1>11. ASSUME NEW k \in DOMAIN Targets(q), k < j
       PROVE  Past(p, q, k, n)'
  <2>1. CASE T(k) \in into
    BY <1>3, <1>8, <1>10, <2>1 DEF Past
  <2>2. CASE T(k) \notin into /\ k < i
    <3>1. k < i - 1
      BY <1>2, <1>3, <1>4, <2>2
    <3>2. Past(p, q, k, n)
      BY <3>1 DEF GoesOn
    <3>3. Seen(T(k), p)' = Seen(T(k), p)
      BY <1>3, <1>9, <1>10, <2>2
    <3>4. QED
      BY <1>2, <1>10, <3>2, <3>3 DEF Past
  <2>3. CASE T(k) \notin into /\ ~(k < i)
    <3>1. k \in Nat /\ i <= k
      BY <1>2, <1>3, <2>3
    <3>2. closed[T(k)]
      BY <1>4, <1>11, <2>3, <3>1
    <3>3. k # 1
      <4>1. CASE k = 1
        <5>1. i = 1
          BY <1>2, <3>1, <4>1
        <5>2. QED
          BY <1>3, <3>2, <4>1, <5>1 DEF GoesOn
      <4>2. QED
        BY <4>1
    <3>4. QED
      BY <1>2, <1>10, <3>2, <3>3 DEF Past
  <2>4. QED
    BY <2>1, <2>2, <2>3
<1>12. ASSUME NEW k \in DOMAIN Targets(q), ~(k < j)
       PROVE  /\ closed[T(k)] \/ ToCome(p, q, k, n)'
              /\ k = j => ToCome(p, q, k, n)'
  <2>1. T(k) \notin into /\ k \in Nat /\ i <= k
    BY <1>2, <1>3, <1>4, <1>12
  <2>2. closed[T(k)] \/ ToCome(p, q, k, n)
    BY <2>1 DEF GoesOn
  <2>3. ToCome(p, q, k, n) => ToCome(p, q, k, n)'
    BY <1>3, <1>9, <1>10, <2>1 DEF ToCome
  <2>4. k = j => ~closed[T(k)]
    BY <1>2, <1>3
  <2>5. QED
    BY <2>2, <2>3, <2>4
<1>13. ASSUME NEW k \in DOMAIN Targets(q)
       PROVE  Owed(p, q, k, n)'
  <2>1. op'[p] = IF j = Len(Targets(q)) + 1 THEN Idle ELSE PutOp(q, j, ev)
    BY <1>2 DEF QueueTypeOK
  <2>2. k \in Nat /\ k <= Len(Targets(q))
    BY <1>3
  <2>3. CASE j = Len(Targets(q)) + 1
    <3>1. op'[p].kind = "idle" /\ k < j
      BY <2>1, <2>2, <2>3 DEF Idle
    <3>2. QED
      BY <1>11, <3>1 DEF Owed
  <2>4. CASE j # Len(Targets(q)) + 1
    <3>1. op'[p].kind = "put" /\ op'[p].at = j
      BY <2>1, <2>4 DEF PutOp
    <3>2. k = j \/ k > j => ~(k < j)
      BY <2>2
    <3>3. closed' = closed
      BY <1>2
    <3>4. QED
      BY <1>10, <1>11, <1>12, <3>1, <3>2, <3>3 DEF Owed
  <2>5. QED
    BY <2>3, <2>4
<1>14. \E S \in SUBSET created : AddsNext(p, n, S)
  <2>1. into \in SUBSET created
    BY <1>3, <1>5
  <2>2. ASSUME NEW t \in into, log[t][p] # <<>>
        PROVE  LastOf(t, p) = n - 1
    <3>1. PICK k \in DOMAIN Targets(q) : t = T(k)
      BY <1>5
    <3>2. t \in Queue /\ Seen(t, p) + 1 = n
      BY <1>3, <1>7, <2>2, <3>1 DEF ToCome
    <3>3. Seen(t, p) = LastOf(t, p)
      BY <2>2 DEF Seen
    <3>4. LastOf(t, p) \in Nat
      <4>1. log[t][p] \in Seq(Nat)
        BY <3>2 DEF OrderTypeOK
      <4>2. QED
        BY <2>2, <4>1 DEF LastOf
    <3>5. QED
      BY <3>2, <3>3, <3>4
  <2>3. AddsNext(p, n, into)
    BY <1>6, <2>2 DEF AddsNext
  <2>4. QED
    BY <2>1, <2>3
<1>15. QED
  BY <1>2, <1>6, <1>13, <1>14

-----------------------------------------------------------------------------
(* The other steps.                                                        *)

\* A step that publishes nothing and leaves every suspended put where it is.
Quiet ==
  /\ \A t \in Queue : ~(Len(buf'[t]) > Len(buf[t]))
  /\ \A p \in Proc : op[p].kind = "put" \/ op'[p].kind = "put" => op'[p] = op[p]
  /\ created \subseteq created'
  /\ UNCHANGED children
  /\ \A t \in Queue : closed[t] => closed'[t]

LEMMA DropsQuietly ==
  ASSUME QueueTypeOK, NEW cs, Drop(cs)
  PROVE  \A t \in Queue : ~(Len(buf'[t]) > Len(buf[t]))
<1> TAKE t \in Queue
<1>1. Len(buf[t]) \in Nat /\ (buf'[t] = buf[t] \/ buf'[t] = <<>>) /\ Len(<<>>) = 0
  BY DEF QueueTypeOK, Drop
<1>2. CASE buf'[t] = buf[t]
  <2>1. \A m \in Nat : ~(m > m)
    OBVIOUS
  <2>2. QED
    BY <1>1, <1>2, <2>1
<1>3. CASE buf'[t] = <<>>
  <2>1. Len(buf'[t]) = 0
    BY <1>1, <1>3, Zenon
  <2>2. QED
    BY <1>1, <2>1
<1>4. QED
  BY <1>1, <1>2, <1>3

LEMMA SameBuffersQuiet ==
  ASSUME QueueTypeOK, buf' = buf
  PROVE  \A t \in Queue : ~(Len(buf'[t]) > Len(buf[t]))
<1>1. \A t \in Queue : Len(buf[t]) \in Nat
  BY DEF QueueTypeOK
<1>2. \A m \in Nat : ~(m > m)
  OBVIOUS
<1>3. QED
  BY <1>1, <1>2

\* A call that was not in a put and does not go to one keeps the others' puts.
LEMMA PutsKept ==
  ASSUME QueueTypeOK, NEW p \in Proc, op[p].kind # "put", NEW o, o.kind # "put", NEW zero,
         op' = [Woken(zero) EXCEPT ![p] = o] \/ op' = [op EXCEPT ![p] = o]
  PROVE  \A r \in Proc : op[r].kind = "put" \/ op'[r].kind = "put" => op'[r] = op[r]
<1> TAKE r \in Proc
<1>1. Woken(zero) \in [Proc -> Ops] /\ op \in [Proc -> Ops]
  BY WokenType DEF QueueTypeOK
<1>2. CASE r = p
  <2>1. op'[r] = o
    BY <1>1, <1>2
  <2>2. QED
    BY <1>2, <2>1
<1>3. CASE r # p
  <2>1. op'[r] = Woken(zero)[r] \/ op'[r] = op[r]
    BY <1>1, <1>3
  <2>2. CASE op'[r] = Woken(zero)[r]
    <3>1. op[r].kind # "join" => Woken(zero)[r] = op[r]
      BY WokenType
    <3>2. op[r].kind = "join" => Woken(zero)[r].kind = "join"
      <4>1. op[r].kind = "join" => Woken(zero)[r] = JoinOp(op[r].q, op[r].shut, op[r].start,
                                                           op[r].wait \ zero)
        BY WokenType
      <4>2. QED
        BY <4>1 DEF JoinOp
    <3>3. QED
      BY <2>2, <3>1, <3>2
  <2>3. QED
    BY <2>1, <2>2
<1>4. QED
  BY <1>2, <1>3

\* Everything but a publication, its resumption, a tap and a cancellation.
LEMMA OthersAreQuiet ==
  ASSUME ~Py313, QueueTypeOK, OtherSteps, \A p \in Proc : ~ResumePut(p)
  PROVE  Quiet
<1>1. closed \in [Queue -> BOOLEAN] /\ buf \in [Queue -> Seq(Event)] /\ op \in [Proc -> Ops]
  BY DEF QueueTypeOK
<1>2. Idle.kind # "put" /\ \A q, todo, closing : ClearOp(q, todo, closing).kind # "put"
  BY DEF Idle, ClearOp
<1>3. \A q, a, b, c : JoinOp(q, a, b, c).kind # "put"
  BY DEF JoinOp
<1>4. ASSUME NEW q \in Queue, Create(q) PROVE Quiet
  BY <1>4, SameBuffersQuiet DEF Create, Quiet
<1>5. ASSUME NEW q \in Queue, Dequeue(q) PROVE Quiet
  <2>1. ASSUME NEW t \in Queue PROVE ~(Len(buf'[t]) > Len(buf[t]))
    <3>1. CASE t = q
      <4>1. buf[q] \in Seq(Event) /\ buf[q] # <<>> /\ buf'[q] = Tail(buf[q])
        BY <1>1, <1>5 DEF Dequeue
      <4>2. Len(Tail(buf[q])) = Len(buf[q]) - 1 /\ Len(buf[q]) \in Nat
        BY <4>1
      <4>3. QED
        BY <3>1, <4>1, <4>2
    <3>2. CASE t # q
      <4>1. buf'[t] = buf[t] /\ Len(buf[t]) \in Nat
        BY <1>1, <1>5, <3>2 DEF Dequeue
      <4>2. \A m \in Nat : ~(m > m)
        OBVIOUS
      <4>3. QED
        BY <4>1, <4>2
    <3>3. QED
      BY <3>1, <3>2
  <2>2. UNCHANGED <<created, children, closed, op>>
    BY <1>5 DEF Dequeue
  <2>3. QED
    BY <2>1, <2>2 DEF Quiet
<1>6. ASSUME NEW q \in Queue, TaskDone(q) PROVE Quiet
  <2>1. \A r \in Proc : op[r].kind = "put" \/ op'[r].kind = "put" => op'[r] = op[r]
    <3>1. op' = op \/ op' = Woken({q})
      BY <1>6 DEF TaskDone
    <3>2. \A r \in Proc : Woken({q})[r] = op[r]
             \/ (op[r].kind = "join" /\ Woken({q})[r].kind = "join")
      <4> TAKE r \in Proc
      <4>1. op[r].kind # "join" => Woken({q})[r] = op[r]
        BY WokenType
      <4>2. op[r].kind = "join" => Woken({q})[r] = JoinOp(op[r].q, op[r].shut, op[r].start,
                                                          op[r].wait \ {q})
        BY WokenType
      <4>3. QED
        BY <4>1, <4>2 DEF JoinOp
    <3>3. QED
      BY <3>1, <3>2
  <2>2. QED
    BY <1>6, <2>1, SameBuffersQuiet DEF TaskDone, Quiet
<1>7. ASSUME NEW p \in Proc, NEW o, NEW zero, o.kind # "put", op[p].kind # "put",
             op' = [Woken(zero) EXCEPT ![p] = o] \/ op' = [op EXCEPT ![p] = o],
             buf' = buf \/ \E cs : Drop(cs),
             UNCHANGED <<created, children>>,
             \A t \in Queue : closed[t] => closed'[t]
      PROVE  Quiet
  <2>1. \A t \in Queue : ~(Len(buf'[t]) > Len(buf[t]))
    BY <1>7, DropsQuietly, SameBuffersQuiet
  <2>2. \A r \in Proc : op[r].kind = "put" \/ op'[r].kind = "put" => op'[r] = op[r]
    BY <1>7, PutsKept
  <2>3. QED
    BY <1>7, <2>1, <2>2 DEF Quiet
<1>8. ASSUME NEW p \in Proc, NEW q \in Queue, NEW deep \in BOOLEAN, ClearEvents(p, q, deep)
      PROVE  Quiet
  <2>1. PICK o : o.kind # "put" /\ op' = [Woken(Emptied({q})) EXCEPT ![p] = o]
    BY <1>2, <1>8 DEF ClearEvents
  <2>2. QED
    BY <1>2, <1>7, <1>8, <2>1 DEF ClearEvents
<1>9. ASSUME NEW p \in Proc, NEW q \in Queue, CloseImmediate(p, q)
      PROVE  Quiet
  <2>1. PICK o : o.kind # "put" /\ op' = [Woken(Emptied({q})) EXCEPT ![p] = o]
    BY <1>2, <1>9 DEF CloseImmediate
  <2>2. QED
    BY <1>1, <1>2, <1>7, <1>9, <2>1 DEF CloseImmediate
<1>10. ASSUME NEW p \in Proc, NEW q \in Queue, CloseGraceful(p, q)
       PROVE  Quiet
  <2>1. CASE UNCHANGED queueVars
    BY <2>1, SameBuffersQuiet DEF queueVars, Quiet
  <2>2. CASE ~UNCHANGED queueVars
    <3>1. op' = [op EXCEPT ![p] = JoinOp(q, Kids(q), {q}, {})]
      BY <1>10, <2>2 DEF CloseGraceful
    <3>2. /\ op[p].kind # "put" /\ buf' = buf /\ UNCHANGED <<created, children>>
          /\ \A t \in Queue : closed[t] => closed'[t]
      BY <1>1, <1>2, <1>10, <2>2 DEF CloseGraceful
    <3>3. PICK o : o.kind # "put" /\ op' = [op EXCEPT ![p] = o]
      BY <1>3, <3>1
    <3>4. QED
      BY <1>7, <3>2, <3>3
  <2>3. QED
    BY <2>1, <2>2
<1>11. ASSUME NEW p \in Proc, NEW c \in Queue, ClearChild(p, c)
       PROVE  Quiet
  <2>1. PICK o : o.kind # "put" /\ op' = [Woken(Emptied({c})) EXCEPT ![p] = o]
    <3> DEFINE w == Woken(Emptied({c}))
    <3>1. op' = [w EXCEPT ![p] = ClearOp(w[p].q, w[p].todo \ {c}, w[p].closing)]
      BY <1>11, WokenType DEF ClearChild
    <3>2. QED
      BY <1>2, <3>1
  <2>2. QED
    BY <1>7, <1>11, <2>1 DEF ClearChild
<1>12. ASSUME NEW p \in Proc, ClearedAll(p)
       PROVE  Quiet
  <2>1. PICK cs : /\ closed' = [q \in Queue |-> closed[q] \/ q \in cs]
                  /\ Drop(cs)
                  /\ op' = [Woken(Emptied(cs)) EXCEPT ![p] = Idle]
    BY <1>12 DEF ClearedAll
  <2>2. /\ op[p].kind # "put" /\ UNCHANGED <<created, children>>
        /\ \A t \in Queue : closed[t] => closed'[t]
    BY <1>1, <1>12, <2>1 DEF ClearedAll
  <2>3. QED
    BY <1>2, <1>7, <2>1, <2>2
<1>13. ASSUME NEW p \in Proc, NEW c \in Queue, CloseChild(p, c) \/ StartJoin(p, c)
       PROVE  Quiet
  <2>1. \E o : o.kind # "put" /\ op' = [op EXCEPT ![p] = o]
    <3>1. CASE CloseChild(p, c)
      <4> DEFINE o == JoinOp(op[p].q, op[p].shut \ {c},
                             IF closed[c] THEN op[p].start ELSE op[p].start \union {c},
                             op[p].wait)
      <4>1. op' = [op EXCEPT ![p] = o] /\ o.kind # "put"
        BY <1>3, <3>1 DEF CloseChild
      <4> HIDE DEF o
      <4>2. QED
        BY <4>1
    <3>2. CASE StartJoin(p, c)
      <4> DEFINE o == JoinOp(op[p].q, op[p].shut, op[p].start \ {c},
                             IF unfinished[c] = 0 THEN op[p].wait ELSE op[p].wait \union {c})
      <4>1. op' = [op EXCEPT ![p] = o] /\ o.kind # "put"
        BY <1>3, <3>2 DEF StartJoin
      <4> HIDE DEF o
      <4>2. QED
        BY <4>1
    <3>3. QED
      BY <1>13, <3>1, <3>2
  <2>2. PICK o : o.kind # "put" /\ op' = [op EXCEPT ![p] = o]
    BY <2>1
  <2>3. QED
    BY <1>1, <1>7, <1>13, <2>2 DEF CloseChild, StartJoin
<1>14. ASSUME NEW p \in Proc, CloseReturns(p)
       PROVE  Quiet
  BY <1>2, <1>7, <1>14 DEF CloseReturns
<1>15. ASSUME NEW p \in Proc, Goes(p)
       PROVE  Quiet
  BY <1>11, <1>12, <1>13, <1>14, <1>15 DEF Goes, PutRaises
<1>16. QED
  BY <1>4, <1>5, <1>6, <1>8, <1>9, <1>10, <1>15 DEF OtherSteps

-----------------------------------------------------------------------------
(* Every step preserves the invariant.                                     *)

\* A publisher is served as before when neither its own put nor its share of the
\* history changes.
LEMMA FitsKept ==
  ASSUME QueueTypeOK, OrderTypeOK, NEW p \in Proc, Fits(p),
         UNCHANGED children, created \subseteq created',
         \A t \in Queue : closed[t] => closed'[t],
         op[p].kind = "put" \/ op'[p].kind = "put" => op'[p] = op[p],
         sent'[p] = sent[p], via'[p] = via[p],
         \A t \in Queue : log'[t][p] = log[t][p] /\ tapAt'[t][p] = tapAt[t][p],
         p \in cut' <=> p \in cut
  PROVE  Fits(p)'
<1>1. \A t \in Queue : Seen(t, p)' = Seen(t, p)
  BY DEF Seen, LastOf
<1>2. via[p] \subseteq Queue
  BY DEF OrderTypeOK
<1>3. ASSUME NEW q \in via[p], p \notin cut
      PROVE  Served(p, q, sent[p])'
  <2>1. Targets(q)' = Targets(q)
    BY DEF Targets
  <2>2. \A k \in DOMAIN Targets(q) : Targets(q)[k] \in Queue
    BY <1>2, <1>3, TargetsType
  <2>3. Served(p, q, sent[p])
    BY <1>3 DEF Fits
  <2>4. ASSUME NEW k \in DOMAIN Targets(q)
        PROVE  Owed(p, q, k, sent[p])'
    <3>1. Owed(p, q, k, sent[p]) /\ Targets(q)[k] \in Queue
      BY <2>2, <2>3 DEF Served
    <3>2. Past(p, q, k, sent[p]) => Past(p, q, k, sent[p])'
      BY <1>1, <2>1, <3>1 DEF Past
    <3>3. ToCome(p, q, k, sent[p]) => ToCome(p, q, k, sent[p])'
      BY <1>1, <2>1, <3>1 DEF ToCome
    <3>4. closed[Targets(q)[k]] => closed'[Targets(q)'[k]]
      BY <2>1, <3>1
    <3>5. CASE op[p].kind = "put"
      <4>1. op'[p] = op[p]
        BY <3>5
      <4>2. QED
        BY <3>1, <3>2, <3>3, <3>4, <4>1 DEF Owed
    <3>6. CASE op[p].kind # "put"
      <4>1. op'[p].kind # "put"
        BY <3>6
      <4>2. QED
        BY <3>1, <3>2, <3>6, <4>1 DEF Owed
    <3>7. QED
      BY <3>5, <3>6
  <2>5. QED
    BY <2>1, <2>4 DEF Served
<1>4. \A t \in Queue : log[t][p] = <<>> /\ tapAt[t][p] = 0 => log'[t][p] = <<>> /\ tapAt'[t][p] = 0
  OBVIOUS
<1>5. QED
  BY <1>3, <1>4 DEF Fits

\* A run of the loop, from either end of the suspension.
LEMMA PutStep ==
  ASSUME OrderInv, QueueInv', Observe, UNCHANGED <<tapAt, cut>>,
         NEW p \in Proc, p \notin cut, NEW q \in Queue, q \in created,
         NEW n \in Nat, <<p, n>> \in Event,
         NEW i \in Nat \ {0}, i <= Len(Targets(q)) + 1, NEW got,
         PutFrom(p, q, <<p, n>>, i, got), GoesOn(p, q, n, i, got),
         sent' = [sent EXCEPT ![p] = n], via' = [via EXCEPT ![p] = {q}]
  PROVE  /\ OrderInv'
         /\ \E S \in SUBSET Queue : AddsNext(p, n, S)
         /\ \/ op' = [op EXCEPT ![p] = Idle]
            \/ \E j \in Nat : op' = [op EXCEPT ![p] = PutOp(q, j, <<p, n>>)]
<1>1. QueueTypeOK /\ OrderTypeOK /\ TapsApart /\ created \subseteq Queue
  BY DEF OrderInv, QueueInv, QueueTypeOK
<1>2. /\ \A k \in DOMAIN Targets(q) : Owed(p, q, k, n)'
      /\ log' \in [Queue -> [Proc -> Seq(Nat)]]
      /\ \E S \in SUBSET created : AddsNext(p, n, S)
      /\ \/ op' = [op EXCEPT ![p] = Idle]
         \/ \E j \in Nat : op' = [op EXCEPT ![p] = PutOp(q, j, <<p, n>>)]
      /\ UNCHANGED <<created, children, closed>>
  BY <1>1, PutServes
<1>3. OrderTypeOK'
  BY <1>1, <1>2 DEF OrderTypeOK
<1>4. TapsApart'
  BY <1>1, <1>2 DEF TapsApart
<1>5. PICK S \in SUBSET created : AddsNext(p, n, S)
  BY <1>2
<1>6. \A t \in Queue : /\ t \notin S => log'[t] = log[t]
                       /\ \A r \in Proc : r # p => log'[t][r] = log[t][r]
  BY <1>1, <1>5 DEF AddsNext, OrderTypeOK
<1>7. \A t \in Queue \ created' : \A r \in Proc : log'[t][r] = <<>>
  <2> TAKE t \in Queue \ created'
  <2> TAKE r \in Proc
  <2>1. t \in Queue \ created
    BY <1>2
  <2>2. log[t][r] = <<>>
    BY <2>1 DEF OrderInv
  <2>3. log'[t] = log[t]
    BY <1>6, <2>1
  <2>4. QED
    BY <2>2, <2>3
<1>8. ASSUME NEW r \in Proc, r # p
      PROVE  Fits(r)'
  <2>1. op'[r] = op[r] /\ sent'[r] = sent[r] /\ via'[r] = via[r] /\ Fits(r)
    BY <1>1, <1>2, <1>8 DEF QueueTypeOK, OrderTypeOK, OrderInv
  <2>2. QED
    BY <1>1, <1>2, <1>6, <1>8, <2>1, FitsKept
<1>9. Fits(p)'
  <2>1. sent'[p] = n /\ via'[p] = {q} /\ p \notin cut'
    BY <1>1 DEF OrderTypeOK
  <2>2. op'[p] = Idle \/ \E j \in Nat : op'[p] = PutOp(q, j, <<p, n>>)
    BY <1>1, <1>2 DEF QueueTypeOK
  <2>3. op'[p].kind = "put" => op'[p].q = q /\ op'[p].ev = <<p, n>>
    <3>1. ASSUME NEW j, op'[p] = PutOp(q, j, <<p, n>>)
          PROVE  op'[p].q = q /\ op'[p].ev = <<p, n>>
      BY <3>1 DEF PutOp
    <3>2. Idle.kind # "put"
      BY DEF Idle
    <3>3. QED
      BY <2>2, <3>1, <3>2
  <2>4. Targets(q)' = Targets(q)
    BY <1>2 DEF Targets
  <2>5. Served(p, q, n)'
    BY <1>2, <2>4 DEF Served
  <2>6. q \in created' /\ {q} # {}
    BY <1>2
  <2>7. QED
    BY <2>1, <2>3, <2>5, <2>6 DEF Fits
<1>10. OrderInv'
  BY <1>3, <1>4, <1>7, <1>8, <1>9 DEF OrderInv
<1>11. QED
  BY <1>1, <1>2, <1>10

LEMMA PublishStep ==
  ASSUME OrderAssumption, OrderInv, QueueInv', Observe, NEW p \in Proc, NEW q \in Queue,
         Publish(p, q)
  PROVE  /\ OrderInv'
         /\ \E S \in SUBSET Queue : AddsNext(p, sent[p] + 1, S)
         /\ \/ op' = [op EXCEPT ![p] = Idle]
            \/ \E j \in Nat : op' = [op EXCEPT ![p] = PutOp(q, j, <<p, sent[p] + 1>>)]
<1> DEFINE n == sent[p] + 1
<1>1. /\ sent[p] \in Nat /\ n \in Nat /\ sent[p] < MaxEvents /\ n \in 1..MaxEvents
      /\ QueueTypeOK /\ Fits(p) /\ via[p] \in SUBSET Queue
  BY OrderAssumption DEF Publish, OrderInv, OrderTypeOK, QueueInv
<1>2. <<p, n>> \in Event
  BY <1>1, OrderAssumption
<1>3. /\ op[p] = Idle /\ q \in created /\ ~closed[q] /\ p \notin cut
      /\ via[p] \subseteq {q}
      /\ sent' = [sent EXCEPT ![p] = n] /\ via' = [via EXCEPT ![p] = {q}]
      /\ UNCHANGED <<tapAt, cut>>
      /\ PutFrom(p, q, <<p, n>>, 1, {})
  BY DEF Publish, Enqueue
<1>4. /\ Len(Targets(q)) \in Nat /\ DOMAIN Targets(q) = 1..Len(Targets(q)) /\ Targets(q)[1] = q
      /\ \A k \in DOMAIN Targets(q) : Targets(q)[k] \in Queue
  BY <1>1, TargetsType
<1>5. ASSUME NEW k \in DOMAIN Targets(q), ~closed[Targets(q)[k]]
      PROVE  ToCome(p, q, k, n)
  <2>1. CASE via[p] = {}
    BY <1>1, <1>4, <2>1 DEF Fits, ToCome
  <2>2. CASE via[p] # {}
    <3>1. q \in via[p]
      BY <1>3, <2>2
    <3>2. Owed(p, q, k, sent[p])
      BY <1>1, <1>3, <3>1 DEF Fits, Served
    <3>3. op[p].kind # "put"
      BY <1>3 DEF Idle
    <3>4. Seen(Targets(q)[k], p) = sent[p]
      BY <1>5, <3>2, <3>3 DEF Owed, Past
    <3>5. QED
      BY <3>4 DEF ToCome
  <2>3. QED
    BY <2>1, <2>2
<1>6. GoesOn(p, q, n, 1, {})
  <2>1. \A k \in DOMAIN Targets(q) : k \in Nat /\ ~(k < 1 - 1) /\ k # 1 - 1
    BY <1>4
  <2>2. QED
    BY <1>3, <1>5, <2>1 DEF GoesOn
<1>7. 1 \in Nat \ {0} /\ 1 <= Len(Targets(q)) + 1
  BY <1>4
<1> HIDE DEF n
<1>8. QED
  <2>1. /\ OrderInv'
        /\ \E S \in SUBSET Queue : AddsNext(p, n, S)
        /\ \/ op' = [op EXCEPT ![p] = Idle]
           \/ \E j \in Nat : op' = [op EXCEPT ![p] = PutOp(q, j, <<p, n>>)]
    BY <1>1, <1>2, <1>3, <1>6, <1>7, PutStep
  <2>2. QED
    BY <2>1 DEF n

LEMMA ResumeStep ==
  ASSUME ~Py313, OrderInv, QueueInv', Observe, NEW p \in Proc, ResumePut(p),
         UNCHANGED <<sent, via, tapAt, cut>>
  PROVE  /\ OrderInv'
         /\ \E S \in SUBSET Queue : AddsNext(p, sent[p], S)
         /\ \/ op' = [op EXCEPT ![p] = Idle]
            \/ \E j \in Nat : op' = [op EXCEPT ![p] = PutOp(op[p].q, j, <<p, sent[p]>>)]
<1> DEFINE q == op[p].q
           at == op[p].at
           n == sent[p]
<1>1. QueueTypeOK /\ OrderTypeOK /\ Fits(p)
  BY DEF OrderInv, QueueInv
<1>2. /\ op[p].kind = "put" /\ q \in Queue /\ at \in Nat \ {0} /\ at \in DOMAIN Targets(q)
      /\ op[p].ev \in Event
  BY <1>1, OpType DEF ResumePut
<1>3. /\ p \notin cut /\ via[p] = {q} /\ op[p].ev = <<p, n>> /\ n \in Nat
      /\ q \in created /\ Served(p, q, n)
  <2>1. p \notin cut /\ via[p] = {q} /\ op[p].ev = <<p, n>> /\ n \in Nat
    BY <1>1, <1>2 DEF Fits, OrderTypeOK
  <2>2. q \in via[p]
    BY <2>1
  <2>3. QED
    BY <1>1, <2>1, <2>2 DEF Fits
<1>4. PutFrom(p, q, <<p, n>>, at + 1, {Targets(q)[at]}) /\ <<p, n>> \in Event
  BY <1>2, <1>3 DEF ResumePut
<1>5. /\ Len(Targets(q)) \in Nat /\ DOMAIN Targets(q) = 1..Len(Targets(q))
  BY <1>1, <1>2, TargetsType
<1> HIDE DEF q, at, n
<1>6. /\ at + 1 > 1 /\ at + 1 - 1 = at /\ at + 1 \in Nat \ {0}
      /\ at + 1 <= Len(Targets(q)) + 1
  BY <1>2, <1>5
<1>7. ASSUME NEW k \in DOMAIN Targets(q)
      PROVE  /\ k < at => Past(p, q, k, n)
             /\ k = at => ToCome(p, q, k, n)
             /\ k >= at + 1 => closed[Targets(q)[k]] \/ ToCome(p, q, k, n)
  <2>1. Owed(p, q, k, n)
    BY <1>3 DEF Served
  <2>2. k \in Nat /\ at \in Nat
    BY <1>2, <1>5
  <2>3. k >= at + 1 => k > at
    BY <2>2
  <2>4. QED
    BY <1>2, <2>1, <2>3 DEF Owed, at
<1>8. GoesOn(p, q, n, at + 1, {Targets(q)[at]})
  <2> DEFINE i == at + 1
  <2>1. i > 1 /\ i - 1 = at
    BY <1>2
  <2>2. \A k \in DOMAIN Targets(q) :
          k >= i => closed[Targets(q)[k]] \/ ToCome(p, q, k, n)
    BY <1>7
  <2> HIDE DEF i
  <2>3. GoesOn(p, q, n, i, {Targets(q)[at]})
    BY <1>7, <2>1, <2>2 DEF GoesOn
  <2>4. QED
    BY <2>3 DEF i
<1>9. sent' = [sent EXCEPT ![p] = n] /\ via' = [via EXCEPT ![p] = {q}]
  BY <1>1, <1>3 DEF OrderTypeOK, n
<1>10. /\ OrderInv'
       /\ \E S \in SUBSET Queue : AddsNext(p, n, S)
       /\ \/ op' = [op EXCEPT ![p] = Idle]
          \/ \E j \in Nat : op' = [op EXCEPT ![p] = PutOp(q, j, <<p, n>>)]
  <2>1. /\ p \notin cut /\ q \in Queue /\ q \in created /\ n \in Nat /\ <<p, n>> \in Event
        /\ at + 1 \in Nat \ {0} /\ at + 1 <= Len(Targets(q)) + 1
    BY <1>2, <1>3, <1>4, <1>6
  <2> DEFINE i == at + 1
             got == {Targets(q)[at]}
  <2>2. /\ i \in Nat \ {0} /\ i <= Len(Targets(q)) + 1
        /\ PutFrom(p, q, <<p, n>>, i, got) /\ GoesOn(p, q, n, i, got)
    BY <1>4, <1>8, <2>1
  <2> HIDE DEF i, got
  <2>3. QED
    BY <1>9, <2>1, <2>2, PutStep
<1>11. QED
  BY <1>10 DEF q, n

LEMMA QuietStep ==
  ASSUME OrderInv, QueueInv', Observe, Quiet, UNCHANGED <<sent, via, tapAt, cut>>
  PROVE  OrderInv' /\ log' = log
<1>1. QueueTypeOK /\ OrderTypeOK /\ TapsApart
  BY DEF OrderInv, QueueInv
<1>2. log' = log
  BY <1>1, NothingLogged DEF Quiet
<1>3. OrderTypeOK'
  BY <1>1, <1>2 DEF OrderTypeOK
<1>4. TapsApart'
  BY <1>1 DEF TapsApart, Quiet
<1>5. \A t \in Queue \ created' : \A p \in Proc : log'[t][p] = <<>>
  BY <1>2 DEF OrderInv, Quiet
<1>6. ASSUME NEW p \in Proc
      PROVE  Fits(p)'
  <2>1. Fits(p)
    BY DEF OrderInv
  <2>2. QED
    BY <1>1, <1>2, <2>1, FitsKept DEF Quiet
<1>7. QED
  BY <1>2, <1>3, <1>4, <1>5, <1>6 DEF OrderInv

\* A new tap has nothing of anybody, and is due what comes next.
LEMMA TapStep ==
  ASSUME OrderInv, QueueInv', Observe, NEW q \in Queue, NEW c \in Queue, q # c, NewTap(q, c)
  PROVE  OrderInv' /\ UNCHANGED <<sent, op, log>>
<1>1. QueueTypeOK /\ OrderTypeOK /\ TapsApart /\ QueueTypeOK'
  BY DEF OrderInv, QueueInv
<1>2. /\ q \in created /\ c \notin created /\ created' = created \union {c}
      /\ children' = [children EXCEPT ![q] = Append(@, c)]
      /\ tapAt' = [tapAt EXCEPT ![c] = sent]
      /\ UNCHANGED <<buf, closed, op, sent, via, cut>>
  BY DEF NewTap, Tap
<1>3. log' = log
  BY <1>1, <1>2, NothingLogged, SameBuffersQuiet
<1>4. OrderTypeOK'
  BY <1>1, <1>2, <1>3 DEF OrderTypeOK
<1>5. \A t \in Queue \ created' : \A p \in Proc : log'[t][p] = <<>>
  BY <1>2, <1>3 DEF OrderInv
<1>6. /\ children[q] \in Seq(Queue) /\ Len(children[q]) \in Nat
      /\ DOMAIN children[q] = 1..Len(children[q])
      /\ children'[q] = Append(children[q], c)
  BY <1>1, <1>2 DEF QueueTypeOK
<1>7. /\ DOMAIN children'[q] = 1..(Len(children[q]) + 1)
      /\ children'[q][Len(children[q]) + 1] = c
      /\ \A k \in 1..Len(children[q]) : children'[q][k] = children[q][k]
  BY <1>6
<1>8. \A r \in Queue : r # q => children'[r] = children[r]
  BY <1>1, <1>2 DEF QueueTypeOK
<1>9. TapsApart'
  <2>1. \A k \in 1..Len(children[q]) : children[q][k] \in created /\ children[q][k] # q
    BY <1>1, <1>6 DEF TapsApart
  <2>2. \A i, j \in 1..Len(children[q]) : children[q][i] = children[q][j] => i = j
    BY <1>1, <1>6 DEF TapsApart
  <2>3. \A k \in DOMAIN children'[q] :
          k \in 1..Len(children[q]) \/ k = Len(children[q]) + 1
    BY <1>6, <1>7
  <2>4. \A k \in DOMAIN children'[q] : children'[q][k] \in created' /\ children'[q][k] # q
    BY <1>2, <1>7, <2>1, <2>3
  <2>5. \A i, j \in DOMAIN children'[q] : children'[q][i] = children'[q][j] => i = j
    BY <1>2, <1>7, <2>1, <2>2, <2>3
  <2>6. QED
    BY <1>1, <1>2, <1>8, <2>4, <2>5 DEF TapsApart
<1>10. ASSUME NEW t \in Queue, t # c, NEW p \in Proc
       PROVE  log'[t][p] = log[t][p] /\ tapAt'[t][p] = tapAt[t][p] /\ Seen(t, p)' = Seen(t, p)
  <2>1. tapAt'[t] = tapAt[t]
    BY <1>1, <1>2, <1>10 DEF OrderTypeOK
  <2>2. QED
    BY <1>3, <2>1 DEF Seen, LastOf
<1>11. ASSUME NEW p \in Proc
       PROVE  log'[c][p] = <<>> /\ tapAt'[c][p] = sent[p] /\ Seen(c, p)' = sent[p]
  <2>1. log'[c][p] = <<>> /\ tapAt'[c] = sent
    BY <1>1, <1>2, <1>3 DEF OrderInv, OrderTypeOK
  <2>2. QED
    BY <2>1 DEF Seen
<1>12. ASSUME NEW p \in Proc, NEW r \in Queue, r \in created, NEW n, n = sent[p],
              Served(p, r, n)
       PROVE  Served(p, r, n)'
  <2>1. /\ DOMAIN Targets(r) = 1..(Len(children[r]) + 1) /\ Targets(r)[1] = r
        /\ \A k \in DOMAIN Targets(r) : Targets(r)[k] \in created /\ Targets(r)[k] \in Queue
        /\ Len(children[r]) \in Nat
    <3>1. /\ Len(Targets(r)) = Len(children[r]) + 1 /\ Targets(r)[1] = r
          /\ DOMAIN Targets(r) = 1..Len(Targets(r))
      BY <1>1, TargetsType
    <3>2. \A k \in DOMAIN Targets(r) : Targets(r)[k] \in created /\ Targets(r)[k] \in Queue
      BY <1>1, <1>12, TargetsApart
    <3>3. Len(children[r]) \in Nat
      BY <1>1 DEF QueueTypeOK
    <3>4. QED
      BY <3>1, <3>2, <3>3
  <2>2. ASSUME NEW k \in DOMAIN Targets(r), Targets(r)'[k] = Targets(r)[k]
        PROVE  Owed(p, r, k, n)'
    <3>1. Targets(r)[k] \in Queue /\ Targets(r)[k] # c
      BY <1>2, <2>1
    <3>2. Past(p, r, k, n) => Past(p, r, k, n)'
      BY <1>2, <1>10, <2>2, <3>1 DEF Past
    <3>3. ToCome(p, r, k, n) => ToCome(p, r, k, n)'
      BY <1>2, <1>10, <2>2, <3>1 DEF ToCome
    <3>4. closed'[Targets(r)'[k]] = closed[Targets(r)[k]] /\ op' = op
      BY <1>2, <2>2
    <3>5. Owed(p, r, k, n)
      BY <1>12 DEF Served
    <3>6. QED
      BY <3>2, <3>3, <3>4, <3>5 DEF Owed
  <2>3. CASE r # q
    <3>1. Targets(r)' = Targets(r)
      BY <1>8, <2>3 DEF Targets
    <3>2. QED
      BY <2>2, <3>1 DEF Served
  <2>4. CASE r = q
    <3>1. PICK last \in Nat : last = Len(children[q]) + 2
      BY <1>6
    <3>2. /\ DOMAIN (Targets(q)') = 1..last
          /\ \A k \in DOMAIN Targets(q) : Targets(q)'[k] = Targets(q)[k]
          /\ Targets(q)'[last] = c
      <4>1. Targets(q) = <<q>> \o children[q] /\ Targets(q)' = <<q>> \o Append(children[q], c)
        BY <1>6 DEF Targets
      <4>2. QED
        BY <1>6, <3>1, <4>1
    <3>3. ASSUME NEW k \in 1..last
          PROVE  k \in DOMAIN Targets(q) \/ k = last
      BY <1>6, <2>1, <2>4, <3>1, <3>3
    <3>4. Owed(p, q, last, n)'
      <4>1. Past(p, q, last, n)'
        BY <1>11, <1>12, <3>2 DEF Past
      <4>2. ToCome(p, q, last, n)'
        BY <1>11, <3>2 DEF ToCome
      <4>3. QED
        BY <4>1, <4>2 DEF Owed
    <3>5. QED
      BY <2>2, <2>4, <3>2, <3>3, <3>4 DEF Served
  <2>5. QED
    BY <2>3, <2>4
<1>13. ASSUME NEW p \in Proc
       PROVE  Fits(p)'
  <2>1. Fits(p)
    BY DEF OrderInv
  <2>2. via[p] = {} => \A t \in Queue : log'[t][p] = <<>> /\ tapAt'[t][p] = 0
    <3>1. ASSUME via[p] = {}, NEW t \in Queue
          PROVE  log'[t][p] = <<>> /\ tapAt'[t][p] = 0
      <4>1. log[t][p] = <<>> /\ tapAt[t][p] = 0 /\ sent[p] = 0
        BY <2>1, <3>1 DEF Fits
      <4>2. QED
        BY <1>10, <1>11, <4>1
    <3>2. QED
      BY <3>1
  <2>3. ASSUME NEW r \in via[p]
        PROVE  /\ via[p] = {r} /\ r \in created'
               /\ p \notin cut => Served(p, r, sent[p])'
    <3>1. via[p] = {r} /\ r \in created /\ r \in Queue
          /\ (p \notin cut => Served(p, r, sent[p]))
      BY <1>1, <2>1 DEF Fits, OrderTypeOK
    <3>2. sent'[p] = sent[p]
      BY <1>2
    <3>3. p \notin cut => Served(p, r, sent[p])'
      BY <1>12, <3>1, <3>2
    <3>4. QED
      BY <1>2, <3>1, <3>3
  <2>4. UNCHANGED <<sent, via, op, cut>>
    BY <1>2
  <2>5. QED
    BY <2>1, <2>2, <2>3, <2>4 DEF Fits
<1>14. QED
  BY <1>2, <1>3, <1>4, <1>5, <1>9, <1>13 DEF OrderInv

\* A cancelled publisher is served no more.
LEMMA CancelStep ==
  ASSUME OrderInv, QueueInv', Observe, NEW p \in Proc, Cancelled(p)
  PROVE  /\ OrderInv' /\ UNCHANGED <<sent, log>>
         /\ op' = [op EXCEPT ![p] = Idle]
<1>1. QueueTypeOK /\ OrderTypeOK /\ TapsApart
  BY DEF OrderInv, QueueInv
<1>2. /\ op' = [op EXCEPT ![p] = Idle] /\ cut' = cut \union {p}
      /\ UNCHANGED <<created, children, buf, closed, sent, via, tapAt>>
  BY DEF Cancelled, Cancel
<1>3. log' = log
  BY <1>1, <1>2, NothingLogged, SameBuffersQuiet
<1>4. OrderTypeOK' /\ TapsApart' /\ \A t \in Queue \ created' : \A r \in Proc : log'[t][r] = <<>>
  BY <1>1, <1>2, <1>3 DEF OrderTypeOK, TapsApart, OrderInv
<1>5. ASSUME NEW r \in Proc, r # p
      PROVE  Fits(r)'
  <2>1. op'[r] = op[r] /\ Fits(r) /\ (r \in cut' <=> r \in cut)
    BY <1>1, <1>2, <1>5 DEF QueueTypeOK, OrderInv
  <2>2. QED
    BY <1>1, <1>2, <1>3, <2>1, FitsKept
<1>6. Fits(p)'
  <2>1. op'[p].kind # "put" /\ p \in cut' /\ Fits(p)
    BY <1>1, <1>2 DEF QueueTypeOK, OrderInv, Idle
  <2>2. QED
    BY <1>2, <1>3, <2>1 DEF Fits
<1>7. QED
  BY <1>2, <1>3, <1>4, <1>5, <1>6 DEF OrderInv

-----------------------------------------------------------------------------
(* What an open tap has, and the refinement of Broadcast.                  *)

LEMMA OrderNextIsQueueNext ==
  ASSUME OrderAssumption, OrderInv, [OrderNext]_orderVars
  PROVE  [QueueNext]_queueVars
<1>1. ASSUME NEW p \in Proc, NEW q \in Queue, Publish(p, q)
      PROVE  QueueNext
  <2>1. sent[p] + 1 \in 1..MaxEvents
    <3>1. sent[p] \in Nat /\ sent[p] < MaxEvents /\ MaxEvents \in Nat
      BY <1>1, OrderAssumption DEF Publish, OrderInv, OrderTypeOK
    <3>2. QED
      BY <3>1
  <2>2. <<p, sent[p] + 1>> \in Event
    BY <2>1, OrderAssumption
  <2>3. Calls(p)
    BY <1>1, <2>2 DEF Publish, Calls
  <2>4. QED
    BY <2>3 DEF QueueNext, QueueSteps
<1>2. ASSUME NEW q \in Queue, NEW c \in Queue, q # c, NewTap(q, c)
      PROVE  QueueNext
  BY <1>2 DEF NewTap, QueueNext, QueueSteps
<1>3. ASSUME OtherSteps
      PROVE  QueueNext
  BY <1>3 DEF OtherSteps, QueueNext, QueueSteps, Calls
<1>4. ASSUME NEW p \in Proc, Cancelled(p)
      PROVE  QueueNext
  BY <1>4 DEF Cancelled, QueueNext
<1>5. UNCHANGED orderVars => UNCHANGED queueVars
  BY DEF orderVars
<1>6. QED
  BY <1>1, <1>2, <1>3, <1>4, <1>5 DEF OrderNext

LEMMA OrderStart == OrderInit => OrderInv
<1> SUFFICES ASSUME OrderInit PROVE OrderInv
  OBVIOUS
<1>1. QueueInv /\ \A q \in Queue : children[q] = <<>>
  BY InitEstablishes DEF OrderInit, QueueInit
<1>2. OrderTypeOK
  BY DEF OrderInit, OrderTypeOK
<1>3. TapsApart
  <2>1. DOMAIN (<<>>) = {}
    OBVIOUS
  <2>2. QED
    BY <1>1, <2>1 DEF TapsApart
<1>4. \A p \in Proc : Fits(p)
  <2>1. \A p \in Proc : /\ op[p].kind = "idle" /\ sent[p] = 0 /\ via[p] = {}
                        /\ \A t \in Queue : log[t][p] = <<>> /\ tapAt[t][p] = 0
    BY DEF OrderInit, QueueInit, Idle
  <2>2. QED
    BY <2>1 DEF Fits
<1>5. QED
  BY <1>1, <1>2, <1>3, <1>4 DEF OrderInv, OrderInit

\* A publication or its resumption is a step of the broadcast.
LEMMA PutIsBroadcast ==
  ASSUME QueueTypeOK, NEW p \in Proc, NEW q, NEW n, NEW S \in SUBSET Queue, AddsNext(p, n, S),
         \/ op' = [op EXCEPT ![p] = Idle]
         \/ \E j \in Nat : op' = [op EXCEPT ![p] = PutOp(q, j, <<p, n>>)]
  PROVE  /\ Abstract!Reach(p, n, S)
         /\ \E ends \in BOOLEAN :
              [r \in Proc |-> op'[r].kind = "put"] =
                [[r \in Proc |-> op[r].kind = "put"] EXCEPT ![p] = ~ends]
<1>1. Abstract!Reach(p, n, S)
  BY DEF AddsNext, LastOf, Abstract!Reach
<1>2. \A r \in Proc : r # p => op'[r] = op[r]
  BY DEF QueueTypeOK
<1>3. ASSUME NEW ends \in BOOLEAN, ends = ~(op'[p].kind = "put")
      PROVE  [r \in Proc |-> op'[r].kind = "put"] =
               [[r \in Proc |-> op[r].kind = "put"] EXCEPT ![p] = ~ends]
  <2>1. \A r \in Proc : (op'[r].kind = "put") = (IF r = p THEN ~ends ELSE op[r].kind = "put")
    BY <1>2, <1>3
  <2>2. QED
    BY <2>1
<1>4. QED
  BY <1>1, <1>3

\* Every step keeps the invariant, and is a step of the broadcast or none.
LEMMA OrderStep ==
  ASSUME OrderAssumption, ~Py313, OrderInv, [OrderNext]_orderVars
  PROVE  OrderInv' /\ [Abstract!Next]_(Abstract!broadcastVars)
<1> DEFINE under == [r \in Proc |-> op[r].kind = "put"]
           Keeps == OrderInv' /\ [Abstract!Next]_(Abstract!broadcastVars)
<1>1. /\ QueueInv' /\ QueueTypeOK /\ OrderTypeOK
      /\ op \in [Proc -> Ops] /\ Idle.kind # "put"
  <2>1. QueueInv /\ [QueueNext]_queueVars
    BY OrderNextIsQueueNext DEF OrderInv
  <2>2. QED
    BY <2>1, StepPreserves DEF OrderInv, QueueInv, QueueTypeOK, Idle
<1>2. ASSUME UNCHANGED <<sent, log>>, \A r \in Proc : op'[r].kind = "put" <=> op[r].kind = "put"
      PROVE  UNCHANGED Abstract!broadcastVars
  <2>1. under' = under
    BY <1>2
  <2>2. QED
    BY <1>2, <2>1 DEF Abstract!broadcastVars
<1>3. ASSUME NEW p \in Proc, NEW q \in Queue, Publish(p, q), Observe
      PROVE  Keeps
  <2>1. /\ OrderInv'
        /\ \E S \in SUBSET Queue : AddsNext(p, sent[p] + 1, S)
        /\ \/ op' = [op EXCEPT ![p] = Idle]
           \/ \E j \in Nat : op' = [op EXCEPT ![p] = PutOp(q, j, <<p, sent[p] + 1>>)]
    BY <1>1, <1>3, PublishStep
  <2>2. PICK S \in SUBSET Queue : AddsNext(p, sent[p] + 1, S)
    BY <2>1
  <2>3. /\ Abstract!Reach(p, sent[p] + 1, S)
        /\ \E ends \in BOOLEAN : under' = [under EXCEPT ![p] = ~ends]
    BY <1>1, <2>1, <2>2, PutIsBroadcast
  <2>4. PICK ends \in BOOLEAN : under' = [under EXCEPT ![p] = ~ends]
    BY <2>3
  <2>5. ~under[p] /\ sent' = [sent EXCEPT ![p] = @ + 1]
    BY <1>1, <1>3 DEF Publish, Enqueue
  <2>6. Abstract!Begin(p, S, ends)
    BY <2>3, <2>4, <2>5 DEF Abstract!Begin
  <2>7. QED
    BY <2>1, <2>6 DEF Abstract!Next
<1>4. ASSUME NEW q \in Queue, NEW c \in Queue, q # c, NewTap(q, c), Observe
      PROVE  Keeps
  <2>1. OrderInv' /\ UNCHANGED <<sent, op, log>>
    BY <1>1, <1>4, TapStep
  <2>2. QED
    BY <1>2, <2>1
<1>5. ASSUME NEW p \in Proc, ResumePut(p), UNCHANGED <<sent, via, tapAt, cut>>, Observe
      PROVE  Keeps
  <2>1. /\ OrderInv'
        /\ \E S \in SUBSET Queue : AddsNext(p, sent[p], S)
        /\ \/ op' = [op EXCEPT ![p] = Idle]
           \/ \E j \in Nat : op' = [op EXCEPT ![p] = PutOp(op[p].q, j, <<p, sent[p]>>)]
    BY <1>1, <1>5, ResumeStep
  <2>2. PICK S \in SUBSET Queue : AddsNext(p, sent[p], S)
    BY <2>1
  <2>3. /\ Abstract!Reach(p, sent[p], S)
        /\ \E ends \in BOOLEAN : under' = [under EXCEPT ![p] = ~ends]
    BY <1>1, <2>1, <2>2, PutIsBroadcast
  <2>4. PICK ends \in BOOLEAN : under' = [under EXCEPT ![p] = ~ends]
    BY <2>3
  <2>5. under[p] /\ sent' = sent
    BY <1>5 DEF ResumePut
  <2>6. Abstract!Continue(p, S, ends)
    BY <2>3, <2>4, <2>5 DEF Abstract!Continue
  <2>7. QED
    BY <2>1, <2>6 DEF Abstract!Next
<1>6. ASSUME Quiet, UNCHANGED <<sent, via, tapAt, cut>>, Observe
      PROVE  Keeps
  <2>1. OrderInv' /\ log' = log
    BY <1>1, <1>6, QuietStep
  <2>2. \A r \in Proc : op'[r].kind = "put" <=> op[r].kind = "put"
    BY <1>6 DEF Quiet
  <2>3. QED
    BY <1>2, <1>6, <2>1, <2>2
<1>7. ASSUME NEW p \in Proc, Cancelled(p), Observe
      PROVE  Keeps
  <2>1. OrderInv' /\ UNCHANGED <<sent, log>> /\ op' = [op EXCEPT ![p] = Idle]
    BY <1>1, <1>7, CancelStep
  <2>2. CASE op[p].kind = "put"
    <3>1. under[p]
      BY <2>2
    <3>2. under' = [under EXCEPT ![p] = ~TRUE]
      <4>1. \A r \in Proc : (op'[r].kind = "put") = (IF r = p THEN FALSE ELSE op[r].kind = "put")
        BY <1>1, <2>1
      <4>2. QED
        BY <4>1
    <3>3. Abstract!Reach(p, sent[p], {})
      BY <1>1, <2>1 DEF Abstract!Reach, OrderTypeOK
    <3>4. Abstract!Continue(p, {}, TRUE)
      BY <2>1, <3>1, <3>2, <3>3 DEF Abstract!Continue
    <3>5. QED
      BY <2>1, <3>4 DEF Abstract!Next
  <2>3. CASE op[p].kind # "put"
    <3>1. \A r \in Proc : op'[r].kind = "put" <=> op[r].kind = "put"
      BY <1>1, <2>1, <2>3
    <3>2. QED
      BY <1>2, <2>1, <3>1
  <2>4. QED
    BY <2>2, <2>3
<1>8. CASE UNCHANGED orderVars
  <2>1. UNCHANGED <<created, children, buf, closed, op, sent, via, log, tapAt, cut>>
    BY <1>8 DEF orderVars, historyVars, queueVars
  <2>2. OrderTypeOK' /\ TapsApart' /\ \A t \in Queue \ created' : \A r \in Proc : log'[t][r] = <<>>
    BY <2>1 DEF OrderInv, OrderTypeOK, TapsApart
  <2>3. ASSUME NEW p \in Proc PROVE Fits(p)'
    <3>1. Fits(p)
      BY DEF OrderInv
    <3>2. QED
      BY <1>1, <2>1, <3>1, FitsKept
  <2>4. OrderInv'
    BY <1>1, <2>2, <2>3 DEF OrderInv
  <2>5. QED
    BY <1>2, <2>1, <2>4
<1> HIDE DEF Keeps
<1>9. ASSUME OtherSteps, Observe
      PROVE  Keeps
  <2>1. UNCHANGED <<sent, via, tapAt, cut>>
    BY <1>9 DEF OtherSteps
  <2>2. CASE \A p \in Proc : ~ResumePut(p)
    BY <1>1, <1>6, <1>9, <2>1, <2>2, OthersAreQuiet
  <2>3. CASE \E p \in Proc : ResumePut(p)
    BY <1>5, <1>9, <2>1, <2>3
  <2>4. QED
    BY <2>2, <2>3
<1>10. Keeps
  BY <1>3, <1>4, <1>7, <1>8, <1>9 DEF OrderNext, Keeps
<1>11. QED
  BY <1>10 DEF Keeps

\* Once p's publication is over, an open target of its queue is served up to it.
LEMMA ServedTapsAgree == OrderInv => TapSeesAll
<1> SUFFICES ASSUME OrderInv, NEW q \in Queue, NEW c \in Kids(q), NEW p \in Proc,
                    via[p] = {q}, p \notin cut, op[p].kind # "put", ~closed[c],
                    LastOf(q, p) > tapAt[c][p]
             PROVE  LastOf(c, p) = LastOf(q, p)
  BY DEF TapSeesAll
<1>1. QueueTypeOK /\ OrderTypeOK /\ Fits(p)
  BY DEF OrderInv, QueueInv
<1>2. /\ Len(Targets(q)) = Len(children[q]) + 1 /\ Len(children[q]) \in Nat
      /\ DOMAIN Targets(q) = 1..Len(Targets(q)) /\ Targets(q)[1] = q
      /\ children[q] \in Seq(Queue)
  BY <1>1, TargetsType DEF QueueTypeOK
<1>3. PICK k \in DOMAIN Targets(q) : Targets(q)[k] = c
  <2>1. PICK i \in DOMAIN children[q] : children[q][i] = c
    BY DEF Kids
  <2>2. i + 1 \in DOMAIN Targets(q) /\ Targets(q)[i + 1] = children[q][i]
    BY <1>2, <2>1 DEF Targets
  <2>3. QED
    BY <2>1, <2>2
<1>4. \A l \in DOMAIN Targets(q) : Past(p, q, l, sent[p])
  BY <1>1 DEF Fits, Served, Owed
<1>5. 1 \in DOMAIN Targets(q)
  BY <1>2
<1>6. Seen(q, p) = sent[p] /\ Seen(c, p) = sent[p]
  BY <1>2, <1>3, <1>4, <1>5 DEF Past
<1>7. /\ tapAt[c][p] \in Nat /\ tapAt[q][p] \in Nat
      /\ log[c][p] \in Seq(Nat) /\ log[q][p] \in Seq(Nat) /\ sent[p] \in Nat
  <2>1. c \in Queue
    BY <1>1, KidsType
  <2>2. QED
    BY <1>1, <2>1 DEF OrderTypeOK
<1>8. log[q][p] # <<>>
  <2>1. CASE log[q][p] = <<>>
    <3>1. LastOf(q, p) = 0
      BY <2>1 DEF LastOf
    <3>2. QED
      BY <1>7, <3>1
  <2>2. QED
    BY <2>1
<1>9. LastOf(q, p) = sent[p]
  BY <1>6, <1>8 DEF Seen
<1>10. log[c][p] # <<>>
  <2>1. CASE log[c][p] = <<>>
    <3>1. tapAt[c][p] = sent[p]
      BY <1>6, <2>1 DEF Seen
    <3>2. QED
      BY <1>7, <1>9, <3>1
  <2>2. QED
    BY <2>1
<1>11. QED
  BY <1>6, <1>9, <1>10 DEF Seen

\* Before Python 3.13 an open tap misses nothing that was published to its queue
\* since it was made by publishers that were not cancelled.
THEOREM TapsMissNothing ==
  ASSUME ~Py313
  PROVE  OrderSpec => []TapSeesAll
<1>1. OrderInv /\ [OrderNext]_orderVars => OrderInv'
  BY OrderAssumption, OrderStep
<1>2. QED
  BY OrderStart, <1>1, ServedTapsAgree, PTL DEF OrderSpec

\* Before Python 3.13 a queue and its taps are a broadcast: each gets a
\* publisher's events in their order, none twice and, from its first, none left
\* out, whatever is full, closed, cleared or cancelled on the way.
THEOREM QueuesBroadcast ==
  ASSUME ~Py313
  PROVE  OrderSpec => IsBroadcast
<1>1. OrderInit => Abstract!Init
  <2> SUFFICES ASSUME OrderInit PROVE Abstract!Init
    OBVIOUS
  <2>1. \A p \in Proc : (op[p].kind = "put") = FALSE
    BY DEF OrderInit, QueueInit, Idle
  <2>2. [p \in Proc |-> op[p].kind = "put"] = [p \in Proc |-> FALSE]
    BY <2>1
  <2>3. QED
    BY <2>2 DEF OrderInit, Abstract!Init
<1>2. OrderInv /\ [OrderNext]_orderVars => OrderInv' /\ [Abstract!Next]_(Abstract!broadcastVars)
  BY OrderAssumption, OrderStep
<1>3. QED
  BY OrderStart, <1>1, <1>2, PTL DEF OrderSpec, IsBroadcast, Abstract!Spec
=============================================================================
