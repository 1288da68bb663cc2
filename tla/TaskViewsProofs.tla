--------------------------- MODULE TaskViewsProofs ---------------------------
(***************************************************************************)
(* What TaskUpdater guarantees for any number of events, readers with      *)
(* either store, and whichever puts are cancelled.                         *)
(***************************************************************************)
EXTENDS TaskViews, SequenceTheorems, WellFoundedInduction, TLAPS

\* The queue holds events, and the updater's lock at most one status update.
AgentTypeOK ==
  /\ events \in Seq(TaskEvents)
  /\ putting = <<>> \/ \E e \in StatusEvents : putting = <<e>>

\* A terminal status that is queued, or about to be, has set the latch; while
\* one is queued no update holds the lock, because update_status keeps it until
\* its put is over.
LatchHolds ==
  /\ \A i \in DOMAIN events : Final(i) => latched /\ putting = <<>>
  /\ putting # <<>> /\ putting[1].state = Completed => latched

LatchInv == AgentTypeOK /\ LatchHolds /\ TerminalIsLast

\* What is put on the queue is the last event there, or is dropped.
LEMMA EnqueueAppends ==
  ASSUME events \in Seq(TaskEvents), NEW e \in TaskEvents, Enqueue(e)
  PROVE  /\ events' \in Seq(TaskEvents)
         /\ \/ events' = events
            \/ /\ DOMAIN events' = DOMAIN events \union {Len(events) + 1}
               /\ Len(events) + 1 \notin DOMAIN events
               /\ \A i \in DOMAIN events : events'[i] = events[i] /\ i < Len(events) + 1
               /\ events'[Len(events) + 1] = e
<1>1. events' = events \/ events' = Append(events, e)
  BY DEF Enqueue
<1>2. Len(events) \in Nat /\ DOMAIN events = 1..Len(events)
  OBVIOUS
<1>3. ASSUME events' = Append(events, e)
      PROVE  /\ events' \in Seq(TaskEvents) /\ DOMAIN events' = 1..(Len(events) + 1)
             /\ \A i \in 1..Len(events) : events'[i] = events[i]
             /\ events'[Len(events) + 1] = e
  BY <1>3
<1>4. QED
  BY <1>1, <1>2, <1>3

\* The agent starts with nothing said.
LEMMA LatchInit == TaskInit => LatchInv
BY DEF TaskInit, LatchInv, AgentTypeOK, LatchHolds, TerminalIsLast

\* A step that leaves queue, latch and lock alone keeps the invariant.
LEMMA LatchQuiet ==
  ASSUME LatchInv, UNCHANGED agentVars
  PROVE  LatchInv'
BY DEF LatchInv, agentVars, AgentTypeOK, LatchHolds, TerminalIsLast, Final

\* update_status, its put, a put that is cancelled, and what the agent puts on
\* the queue itself keep it.
LEMMA LatchStep ==
  ASSUME LatchInv, [TaskNext]_taskVars
  PROVE  LatchInv'
<1> USE DEF LatchInv
<1>1. ASSUME NEW state \in {Working, Completed}, NEW msg \in BOOLEAN, UpdateStatus(state, msg)
      PROVE  LatchInv'
  <2>1. /\ putting' = <<[kind |-> "status", state |-> state, msg |-> msg]>>
        /\ latched' = (state = Completed) /\ ~latched /\ events' = events
    BY <1>1 DEF UpdateStatus
  <2>2. [kind |-> "status", state |-> state, msg |-> msg] \in StatusEvents
    BY DEF StatusEvents
  <2>3. \A i \in DOMAIN events : ~Final(i)
    BY <2>1 DEF LatchHolds
  <2>4. AgentTypeOK'
    BY <2>1, <2>2 DEF AgentTypeOK
  <2>5. LatchHolds'
    BY <2>1, <2>3 DEF LatchHolds, Final
  <2>6. TerminalIsLast'
    BY <2>1, <2>3 DEF TerminalIsLast, Final
  <2>7. QED
    BY <2>4, <2>5, <2>6
<1>2. CASE StatusPut
  <2>1. PICK e \in StatusEvents : putting = <<e>>
    BY <1>2 DEF StatusPut, AgentTypeOK
  <2>2. e \in TaskEvents /\ Enqueue(e) /\ putting' = <<>> /\ latched' = latched
    BY <1>2, <2>1 DEF StatusPut, TaskEvents
  <2>3. \A i \in DOMAIN events : ~Final(i)
    BY <2>1 DEF LatchHolds
  <2>4. e.state = Completed => latched
    BY <2>1 DEF LatchHolds
  <2>5. AgentTypeOK'
    BY <2>2, EnqueueAppends DEF AgentTypeOK
  <2>6. \A i \in DOMAIN events' : Final(i)' => i = Len(events) + 1 /\ latched
    BY <2>2, <2>3, <2>4, EnqueueAppends DEF AgentTypeOK, Final
  <2>7. LatchHolds'
    BY <2>2, <2>6 DEF LatchHolds
  <2>8. \A j \in DOMAIN events' : ~(j > Len(events) + 1)
    BY <2>2, EnqueueAppends DEF AgentTypeOK
  <2>9. TerminalIsLast'
    BY <2>6, <2>8 DEF TerminalIsLast
  <2>10. QED
    BY <2>5, <2>7, <2>9
<1>3. CASE StatusCancelled
  BY <1>3 DEF StatusCancelled, AgentTypeOK, LatchHolds, TerminalIsLast, Final
<1>4. ASSUME NEW e \in ArtifactEvents \union OtherEvents, Publish(e)
      PROVE  LatchInv'
  <2>1. /\ e \in TaskEvents /\ Enqueue(e)
        /\ putting' = putting /\ latched' = latched
    BY <1>4 DEF Publish, TaskEvents
  <2>2. e.kind # "status"
    BY DEF ArtifactEvents, OtherEvents
  <2>3. \A i \in DOMAIN events' : events'[i].kind = "status" =>
          i \in DOMAIN events /\ events'[i] = events[i]
    BY <2>1, <2>2, EnqueueAppends DEF AgentTypeOK
  <2>4. AgentTypeOK'
    BY <2>1, EnqueueAppends DEF AgentTypeOK
  <2>5. LatchHolds'
    BY <2>1, <2>3 DEF LatchHolds, Final
  <2>6. TerminalIsLast'
    BY <2>1, <2>3 DEF TerminalIsLast, Final
  <2>7. QED
    BY <2>4, <2>5, <2>6
<1>5. ASSUME NEW v \in View, ReaderStep(v)
      PROVE  UNCHANGED agentVars
  BY <1>5 DEF ReaderStep, TakeForeign, TakeInMemory, TakeToDatabase, Load, Create, Save, Yield
<1>6. CASE Resubscribe \/ TapEnds \/ Disconnect
  BY <1>6, LatchQuiet DEF Resubscribe, TapEnds, Disconnect
<1>7. CASE UNCHANGED taskVars
  BY <1>7, LatchQuiet DEF taskVars
<1>8. QED
  BY <1>1, <1>2, <1>3, <1>4, <1>5, <1>6, <1>7, LatchQuiet DEF TaskNext, AgentStep

\* After a terminal status the updater publishes no status any more: of any
\* number of calls of update_status, whichever of their puts are cancelled.
THEOREM TerminalStaysLast == TaskSpec => []TerminalIsLast
<1>1. LatchInv => TerminalIsLast
  BY DEF LatchInv
<1>2. QED
  BY LatchInit, LatchStep, <1>1, PTL DEF TaskSpec

-----------------------------------------------------------------------------
(* Numbers in their order.                                                 *)

Below == {ss \in Nat \X Nat : ss[1] < ss[2]}

\* The natural numbers are well-founded.
LEMMA BelowWF == IsWellFoundedOn(Below, Nat)
BY NatLessThanWellFounded, Zenon DEF OpToRel, Below

\* Induction: what does not hold of every number has a least exception.
LEMMA LeastNat ==
  ASSUME NEW T \in SUBSET Nat, T # {}
  PROVE  \E m \in T : \A k \in T : m <= k
<1>1. PICK m \in T : \A k \in T : ~(<<k, m>> \in Below)
  BY BelowWF, WFMin
<1>2. \A k \in T : ~(k < m)
  BY <1>1 DEF Below
<1>3. QED
  BY <1>2

\* The numbers of a set up to each one.
UpTo(S, n, f) ==
  f = [k \in 0..n |-> IF k = 0 THEN <<>>
                      ELSE IF k \in S THEN Append(f[k - 1], k) ELSE f[k - 1]]

\* The function that InOrder defines by recursion exists.
LEMMA UpToExists ==
  ASSUME NEW S, NEW n \in Nat
  PROVE  \E f : UpTo(S, n, f)
<1> DEFINE T == {k \in Nat : ~\E f : UpTo(S, k, f)}
<1>1. SUFFICES ASSUME T # {} PROVE FALSE
  OBVIOUS
<1>2. PICK k \in T : \A j \in T : k <= j
  BY <1>1, LeastNat
<1>3. CASE k = 0
  <2>1. UpTo(S, 0, [i \in 0..0 |-> <<>>])
    BY DEF UpTo
  <2>2. QED
    BY <1>2, <1>3, <2>1
<1>4. CASE k # 0
  <2>1. k \in Nat /\ k - 1 \in Nat /\ ~(k <= k - 1)
    BY <1>4
  <2>2. PICK g : UpTo(S, k - 1, g)
    BY <1>2, <2>1
  <2> DEFINE f == [i \in 0..k |-> IF i = k THEN IF k \in S THEN Append(g[k - 1], k) ELSE g[k - 1]
                                  ELSE g[i]]
  <2>3. \A i \in 0..(k - 1) :
          g[i] = IF i = 0 THEN <<>> ELSE IF i \in S THEN Append(g[i - 1], i) ELSE g[i - 1]
    BY <2>2 DEF UpTo
  <2>4. \A i \in 0..k :
          f[i] = IF i = 0 THEN <<>> ELSE IF i \in S THEN Append(f[i - 1], i) ELSE f[i - 1]
    <3>1. f[k] = IF k \in S THEN Append(f[k - 1], k) ELSE f[k - 1]
      BY <1>4, <2>1
    <3>2. ASSUME NEW i \in 0..(k - 1)
          PROVE  f[i] = IF i = 0 THEN <<>> ELSE IF i \in S THEN Append(f[i - 1], i) ELSE f[i - 1]
      BY <2>1, <2>3
    <3> HIDE DEF f
    <3>3. QED
      BY <1>4, <2>1, <3>1, <3>2
  <2>5. f = [i \in 0..k |-> f[i]]
    OBVIOUS
  <2> HIDE DEF f
  <2>6. UpTo(S, k, f)
    BY <2>4, <2>5 DEF UpTo
  <2>7. QED
    BY <1>2, <2>6
<1>5. QED
  BY <1>3, <1>4

Collects(S, n, f) ==
  f[0] = <<>> /\ \A k \in 1..n : f[k] = IF k \in S THEN Append(f[k - 1], k) ELSE f[k - 1]

\* InOrder looks at one number after the other.
LEMMA InOrderIs ==
  ASSUME NEW S, NEW n \in Nat
  PROVE  \E f : InOrder(S, n) = f[n] /\ Collects(S, n, f)
<1> DEFINE F == CHOOSE f : UpTo(S, n, f)
<1>1. UpTo(S, n, F)
  BY UpToExists
<1>2. InOrder(S, n) = F[n]
  BY DEF InOrder, UpTo
<1> HIDE DEF F
<1>3. Collects(S, n, F)
  <2>1. \A k \in 0..n :
          F[k] = IF k = 0 THEN <<>> ELSE IF k \in S THEN Append(F[k - 1], k) ELSE F[k - 1]
    BY <1>1 DEF UpTo
  <2>2. 0 \in 0..n /\ \A k \in 1..n : k \in 0..n /\ k # 0
    OBVIOUS
  <2>3. QED
    BY <2>1, <2>2, Zenon DEF Collects
<1>4. QED
  BY <1>2, <1>3

SameUpTo(S, T, n) == \A k \in 1..n : k \in S <=> k \in T

\* Only the members up to n matter.
LEMMA CollectsSame ==
  ASSUME NEW S, NEW T, NEW n \in Nat, NEW f, NEW g, SameUpTo(S, T, n),
         Collects(S, n, f), Collects(T, n, g)
  PROVE  f[n] = g[n]
<1> DEFINE Bad == {k \in Nat : k <= n /\ f[k] # g[k]}
<1>1. SUFFICES ASSUME Bad # {} PROVE FALSE
  OBVIOUS
<1>2. PICK k \in Bad : \A j \in Bad : k <= j
  BY <1>1, LeastNat
<1>3. k # 0 /\ k \in 1..n
  BY <1>2 DEF Collects
<1>4. k - 1 \in Nat /\ k - 1 <= n /\ ~(k <= k - 1)
  BY <1>3
<1>5. f[k - 1] = g[k - 1]
  BY <1>2, <1>4
<1>6. f[k] = g[k]
  BY <1>3, <1>5 DEF Collects, SameUpTo
<1>7. QED
  BY <1>2, <1>6

\* Sets that agree up to n have the same order.
LEMMA InOrderSame ==
  ASSUME NEW S, NEW T, NEW n \in Nat, SameUpTo(S, T, n)
  PROVE  InOrder(S, n) = InOrder(T, n)
BY InOrderIs, CollectsSame

\* Nothing up to nothing.
LEMMA InOrderNone == \A S : InOrder(S, 0) = <<>>
BY InOrderIs DEF Collects

\* One number more.
LEMMA InOrderNext ==
  ASSUME NEW S, NEW n \in Nat
  PROVE  InOrder(S, n + 1) = IF n + 1 \in S THEN Append(InOrder(S, n), n + 1) ELSE InOrder(S, n)
<1>1. PICK f : InOrder(S, n) = f[n] /\ Collects(S, n, f)
  BY InOrderIs
<1>2. PICK g : InOrder(S, n + 1) = g[n + 1] /\ Collects(S, n + 1, g)
  BY InOrderIs
<1>3. Collects(S, n, g) /\ SameUpTo(S, S, n)
  BY <1>2 DEF Collects, SameUpTo
<1>4. f[n] = g[n]
  BY <1>1, <1>3, CollectsSame
<1>5. n + 1 \in 1..(n + 1) /\ (n + 1) - 1 = n
  OBVIOUS
<1>6. g[n + 1] = IF n + 1 \in S THEN Append(g[(n + 1) - 1], n + 1) ELSE g[(n + 1) - 1]
  BY <1>2, <1>5 DEF Collects
<1>7. QED
  BY <1>1, <1>2, <1>4, <1>5, <1>6

Rising(s, S, n) ==
  /\ \A k \in 1..Len(s) : s[k] \in S /\ s[k] \in 1..n
  /\ \A k, l \in 1..Len(s) : k < l => s[k] < s[l]
  /\ \A i \in 1..n : i \in S => \E k \in 1..Len(s) : s[k] = i

\* The sequence has the members up to n, each once and in order.
LEMMA InOrderRises ==
  ASSUME NEW S, NEW n \in Nat
  PROVE  InOrder(S, n) \in Seq(Nat) /\ Rising(InOrder(S, n), S, n)
<1> DEFINE Good(k) == InOrder(S, k) \in Seq(Nat) /\ Rising(InOrder(S, k), S, k)
           Bad == {k \in Nat : ~Good(k)}
<1>1. SUFFICES ASSUME Bad # {} PROVE FALSE
  OBVIOUS
<1>2. PICK k \in Bad : \A j \in Bad : k <= j
  BY <1>1, LeastNat
<1>3. Good(0)
  <2>1. <<>> \in Seq(Nat) /\ Rising(<<>>, S, 0)
    BY DEF Rising
  <2>2. QED
    BY <2>1, InOrderNone
<1>4. ASSUME NEW j \in Nat, Good(j) PROVE Good(j + 1)
  <2> DEFINE s == InOrder(S, j)
  <2>1. s \in Seq(Nat) /\ Rising(s, S, j) /\ Len(s) \in Nat
    BY <1>4, LenProperties
  <2>2. InOrder(S, j + 1) = IF j + 1 \in S THEN Append(s, j + 1) ELSE s
    BY InOrderNext
  <2> HIDE DEF s
  <2>3. CASE j + 1 \in S
    <3> DEFINE t == Append(s, j + 1)
    <3>1. /\ t \in Seq(Nat) /\ Len(t) = Len(s) + 1 /\ t[Len(s) + 1] = j + 1
          /\ \A i \in 1..Len(s) : t[i] = s[i]
      BY <2>1, AppendProperties
    <3> HIDE DEF t
    <3>2. \A i \in 1..Len(t) : i = Len(s) + 1 \/ i \in 1..Len(s)
      BY <2>1, <3>1
    <3>3. ASSUME NEW i \in 1..Len(t) PROVE t[i] \in S /\ t[i] \in 1..(j + 1)
      <4>1. CASE i = Len(s) + 1
        BY <2>3, <3>1, <4>1
      <4>2. CASE i \in 1..Len(s)
        <5>1. s[i] \in S /\ s[i] \in 1..j
          BY <2>1, <4>2 DEF Rising
        <5>2. QED
          BY <3>1, <4>2, <5>1
      <4>3. QED
        BY <3>2, <4>1, <4>2
    <3>4. ASSUME NEW i \in 1..Len(t), NEW l \in 1..Len(t), i < l PROVE t[i] < t[l]
      <4>1. i \in 1..Len(s)
        BY <2>1, <3>1, <3>4
      <4>2. s[i] \in 1..j
        BY <2>1, <4>1 DEF Rising
      <4>3. CASE l = Len(s) + 1
        BY <3>1, <4>1, <4>2, <4>3
      <4>4. CASE l \in 1..Len(s)
        <5>1. s[i] < s[l]
          BY <2>1, <3>4, <4>1, <4>4 DEF Rising
        <5>2. QED
          BY <3>1, <4>1, <4>4, <5>1
      <4>5. QED
        BY <3>2, <4>3, <4>4
    <3>5. \A i \in 1..(j + 1) : i \in S => \E l \in 1..Len(t) : t[l] = i
      <4>1. \A l \in 1..Len(s) : l \in 1..Len(t)
        BY <2>1, <3>1
      <4>2. Len(s) + 1 \in 1..Len(t)
        BY <2>1, <3>1
      <4>3. \A i \in 1..(j + 1) : i = j + 1 \/ i \in 1..j
        OBVIOUS
      <4>4. QED
        BY <2>1, <3>1, <4>1, <4>2, <4>3 DEF Rising
    <3>6. QED
      BY <2>2, <2>3, <3>1, <3>3, <3>4, <3>5 DEF t, Rising
  <2>4. CASE j + 1 \notin S
    <3>1. \A i \in 1..(j + 1) : i \in S => i \in 1..j
      BY <2>4
    <3>2. Rising(s, S, j + 1)
      BY <2>1, <3>1 DEF Rising
    <3>3. QED
      BY <2>1, <2>2, <2>4, <3>2
  <2>5. QED
    BY <2>3, <2>4
<1> HIDE DEF Good
<1>5. CASE k = 0
  BY <1>2, <1>3, <1>5
<1>6. CASE k # 0
  <2>1. k - 1 \in Nat /\ ~(k <= k - 1) /\ (k - 1) + 1 = k
    BY <1>6
  <2>2. Good(k - 1)
    BY <1>2, <2>1
  <2>3. Good((k - 1) + 1)
    BY <1>4, <2>1, <2>2
  <2>4. QED
    BY <1>2, <2>1, <2>3
<1>7. QED
  BY <1>5, <1>6

\* Nothing is added by numbers that are not members; ...
LEMMA InOrderStops ==
  ASSUME NEW S, NEW m \in Nat, NEW n \in Nat, m <= n, \A k \in (m + 1)..n : k \notin S
  PROVE  InOrder(S, n) = InOrder(S, m)
<1> DEFINE Bad == {k \in Nat : m <= k /\ k <= n /\ InOrder(S, k) # InOrder(S, m)}
<1>1. SUFFICES ASSUME Bad # {} PROVE FALSE
  OBVIOUS
<1>2. PICK k \in Bad : \A j \in Bad : k <= j
  BY <1>1, LeastNat
<1>3. k # m /\ k - 1 \in Nat /\ m <= k - 1 /\ ~(k <= k - 1) /\ k \in (m + 1)..n
  BY <1>2
<1>4. InOrder(S, k - 1) = InOrder(S, m)
  BY <1>2, <1>3
<1>5. (k - 1) + 1 = k
  BY <1>3
<1>6. InOrder(S, (k - 1) + 1) = InOrder(S, k - 1)
  BY <1>3, <1>5, InOrderNext
<1>7. QED
  BY <1>2, <1>4, <1>5, <1>6

\* ... a number above all members comes last.
LEMMA InOrderAdds ==
  ASSUME NEW S, NEW n \in Nat, NEW m \in 1..n, \A k \in 1..n : k \in S => k < m
  PROVE  InOrder(S \union {m}, n) = Append(InOrder(S, n), m)
<1>1. m - 1 \in Nat /\ m - 1 <= n /\ m \in Nat /\ (m - 1) + 1 = m /\ m <= n
  OBVIOUS
<1>2. InOrder(S \union {m}, n) = InOrder(S \union {m}, m)
  <2>1. \A k \in (m + 1)..n : k \notin S \union {m}
    BY <1>1
  <2>2. QED
    BY <1>1, <2>1, InOrderStops
<1>3. InOrder(S \union {m}, (m - 1) + 1) = Append(InOrder(S \union {m}, m - 1), (m - 1) + 1)
  BY <1>1, InOrderNext
<1>4. InOrder(S \union {m}, m - 1) = InOrder(S, m - 1)
  <2>1. SameUpTo(S \union {m}, S, m - 1)
    BY DEF SameUpTo
  <2>2. QED
    BY <1>1, <2>1, InOrderSame
<1>5. InOrder(S, n) = InOrder(S, m - 1)
  <2>1. \A k \in ((m - 1) + 1)..n : k \notin S
    BY <1>1
  <2>2. QED
    BY <1>1, <2>1, InOrderStops
<1>6. QED
  BY <1>1, <1>2, <1>3, <1>4, <1>5

\* The greatest of some positions.
LEMMA LastOf ==
  ASSUME NEW n \in Nat, NEW I \in SUBSET (1..n), I # {}
  PROVE  Max(I) \in I /\ \A i \in I : Max(I) >= i
<1> DEFINE T == {n - i : i \in I}
<1>1. T \in SUBSET Nat /\ T # {}
  <2>1. \A i \in I : n - i \in Nat
    OBVIOUS
  <2>2. QED
    BY <2>1
<1>2. PICK m \in T : \A k \in T : m <= k
  BY <1>1, LeastNat
<1>3. PICK last \in I : m = n - last
  BY <1>2
<1>4. \A i \in I : last >= i
  <2>1. TAKE i \in I
  <2>2. n - i \in T
    OBVIOUS
  <2>3. n - last <= n - i
    BY <1>2, <1>3, <2>2
  <2>4. QED
    BY <2>3
<1>5. QED
  BY <1>4 DEF Max

\* The least likewise.
LEMMA FirstOf ==
  ASSUME NEW n \in Nat, NEW I \in SUBSET (1..n), I # {}
  PROVE  Min(I) \in I /\ \A i \in I : Min(I) <= i
<1>1. I \in SUBSET Nat
  OBVIOUS
<1>2. \E m \in I : \A k \in I : m <= k
  BY <1>1, LeastNat
<1>3. QED
  BY <1>2 DEF Min

-----------------------------------------------------------------------------
(* What one event more changes in the log.                                 *)

\* What counts is among the first n events.
LEMMA CountsIn ==
  ASSUME NEW n \in Nat, NEW D
  PROVE  /\ Tasks(n, D) \subseteq 1..n /\ Counts(n, D) \subseteq 1..n
         /\ Spoken(n, D) \subseteq 1..n /\ Replaced(n, D) \subseteq 1..n
         /\ \A old : Openings(n, D, old) \subseteq 1..n
         /\ \A id : /\ Chunks(n, D, id) \subseteq 1..n /\ Firsts(n, D, id) \subseteq 1..n
                    /\ Content(n, D, id) \subseteq 1..n
BY DEF Tasks, Counts, Spoken, Replaced, Openings, Chunks, Firsts, Content

\* An event more counts as well, ...
LEMMA CountsNext ==
  ASSUME NEW n \in Nat, NEW D, n + 1 \notin D, events[n + 1].kind # "task"
  PROVE  /\ Tasks(n + 1, D) = Tasks(n, D) /\ Counts(n + 1, D) = Counts(n, D) \union {n + 1}
         /\ n + 1 \notin Counts(n, D)
<1>1. (1..(n + 1)) \ D = ((1..n) \ D) \union {n + 1}
  OBVIOUS
<1>2. Tasks(n + 1, D) = Tasks(n, D)
  BY <1>1 DEF Tasks
<1>3. \A j \in Tasks(n, D) : j <= n + 1
  BY DEF Tasks
<1>4. QED
  BY <1>1, <1>2, <1>3 DEF Counts

\* ... a Task alone, ...
LEMMA CountsAfresh ==
  ASSUME NEW n \in Nat, NEW D, n + 1 \notin D, events[n + 1].kind = "task"
  PROVE  Tasks(n + 1, D) # {} /\ Counts(n + 1, D) = {n + 1}
<1>1. n + 1 \in Tasks(n + 1, D)
  BY DEF Tasks
<1>2. \A i \in 1..(n + 1) : n + 1 <= i => i = n + 1
  OBVIOUS
<1>3. \A j \in Tasks(n + 1, D) : j <= n + 1
  BY DEF Tasks
<1>4. QED
  BY <1>1, <1>2, <1>3 DEF Counts

\* ... and one that is lost does not.
LEMMA CountsLost ==
  ASSUME NEW n \in Nat, NEW D, n + 1 \in D
  PROVE  Tasks(n + 1, D) = Tasks(n, D) /\ Counts(n + 1, D) = Counts(n, D)
<1>1. (1..(n + 1)) \ D = (1..n) \ D
  OBVIOUS
<1>2. QED
  BY <1>1 DEF Tasks, Counts

\* The task before any of the events, and the artifacts it had.
Start(n, D) ==
  IF turn.new \/ Tasks(n, D) # {} THEN Fresh("main") ELSE WithMessage(Asked, FollowUp)
Old(n, D) == IF Tasks(n, D) # {} THEN <<>> ELSE turn.kept

\* The log, field by field.
LEMMA LogIs ==
  ASSUME NEW n, NEW D
  PROVE  Log(n, D) =
           [state |-> IF Latest(n, D) # 0 /\ events[Latest(n, D)].kind = "status"
                        THEN events[Latest(n, D)].state ELSE Start(n, D).state,
            msg |-> IF Latest(n, D) # 0 /\ events[Latest(n, D)].msg THEN Latest(n, D) ELSE 0,
            history |-> Start(n, D).history \o InOrder(Replaced(n, D), n),
            artifacts |-> LogArtifacts(n, D, Old(n, D))]
BY DEF Log, Start, Old

\* A task, field by field.
LEMMA TaskIs ==
  ASSUME NEW state, NEW msg, NEW history, NEW artifacts,
         NEW t \in [state : {state}, msg : {msg}, history : {history}, artifacts : {artifacts}]
  PROVE  t = [state |-> state, msg |-> msg, history |-> history, artifacts |-> artifacts]
OBVIOUS

\* What earlier turns left, ...
Brought == [k \in DOMAIN turn.kept |-> ArtifactOf(turn.kept[k], 0, <<Earlier>>)]

\* ... the task of a follow-up as it was, ...
LEMMA AskedIs ==
  Asked = [state |-> "input_required", msg |-> AgentQuestion, history |-> <<UserMessage>>,
           artifacts |-> Brought]
<1> DEFINE t == TaskOf("input_required", AgentQuestion, <<UserMessage>>)
<1>1. t \in [state : {"input_required"}, msg : {AgentQuestion}, history : {<<UserMessage>>},
            artifacts : {<<>>}]
  BY DEF TaskOf
<1>2. Asked = [t EXCEPT !.artifacts = Brought]
  BY DEF Asked, Brought
<1> HIDE DEF t
<1>3. [t EXCEPT !.artifacts = Brought] \in
        [state : {"input_required"}, msg : {AgentQuestion}, history : {<<UserMessage>>},
         artifacts : {Brought}]
  BY <1>1
<1>4. QED
  BY <1>2, <1>3, TaskIs

\* ... and as the handler prepared it.
LEMMA PreparedIs ==
  WithMessage(Asked, FollowUp) =
    [state |-> "input_required", msg |-> 0,
     history |-> Append(<<UserMessage>>, AgentQuestion) \o <<FollowUp>>, artifacts |-> Brought]
<1> DEFINE h == Append(<<UserMessage>>, AgentQuestion) \o <<FollowUp>>
           A == Brought
           q == AgentQuestion
           u == [Asked EXCEPT !.history = h]
<1>1. Asked.msg = q /\ Asked.history = <<UserMessage>>
  BY AskedIs
<1>2. q # 0
  BY DEF AgentQuestion
<1>3. WithMessage(Asked, FollowUp) = [u EXCEPT !.msg = 0]
  BY <1>1, <1>2 DEF WithMessage
<1>4. Asked \in [state : {"input_required"}, msg : {q}, history : {<<UserMessage>>},
                 artifacts : {A}]
  BY AskedIs
<1> HIDE DEF h, A, q
<1>5. u \in [state : {"input_required"}, msg : {q}, history : {h}, artifacts : {A}]
  BY <1>4
<1> HIDE DEF u
<1>6. [u EXCEPT !.msg = 0] \in [state : {"input_required"}, msg : {0}, history : {h},
                                artifacts : {A}]
  BY <1>5
<1>7. [u EXCEPT !.msg = 0] = [state |-> "input_required", msg |-> 0, history |-> h,
                              artifacts |-> A]
  BY <1>6, TaskIs
<1>8. QED
  BY <1>3, <1>7 DEF h, A

\* It begins with messages.
LEMMA StartIs ==
  ASSUME NEW n, NEW D
  PROVE  Start(n, D).history \in Seq(Int)
<1>1. UserMessage \in Int /\ AgentQuestion \in Int /\ FollowUp \in Int
  BY DEF UserMessage, AgentQuestion, FollowUp
<1>2. Fresh("main").history = <<UserMessage>>
  BY DEF Fresh, TaskOf
<1>3. WithMessage(Asked, FollowUp).history = Append(<<UserMessage>>, AgentQuestion) \o <<FollowUp>>
  BY PreparedIs
<1>4. <<UserMessage>> \in Seq(Int) /\ Append(<<UserMessage>>, AgentQuestion) \o <<FollowUp>> \in Seq(Int)
  BY <1>1
<1>5. QED
  BY <1>2, <1>3, <1>4 DEF Start

\* Artifacts that no event has touched are the same.
LEMMA LogArtifactsSame ==
  ASSUME NEW n \in Nat, NEW D, NEW old, Openings(n + 1, D, old) = Openings(n, D, old),
         \A id : Content(n + 1, D, id) = Content(n, D, id) /\ Firsts(n + 1, D, id) = Firsts(n, D, id)
  PROVE  LogArtifacts(n + 1, D, old) = LogArtifacts(n, D, old)
<1>1. n + 1 \notin Openings(n, D, old) /\ \A id : n + 1 \notin Content(n, D, id)
  <2>1. n + 1 \notin 1..n
    OBVIOUS
  <2>2. QED
    BY <2>1, CountsIn
<1>2. InOrder(Openings(n + 1, D, old), n + 1) = InOrder(Openings(n, D, old), n)
  BY <1>1, InOrderNext
<1>3. \A id : InOrder(Content(n + 1, D, id), n + 1) = InOrder(Content(n, D, id), n)
  BY <1>1, InOrderNext
<1>4. \A id : Text(n + 1, D, old, id) = Text(n, D, old, id)
  BY <1>3 DEF Text
<1>5. Ids(n + 1, D, old) = Ids(n, D, old)
  BY <1>2 DEF Ids
<1>6. QED
  BY <1>4, <1>5 DEF LogArtifacts

\* The last of what was said.
LEMMA LatestIs ==
  ASSUME NEW n \in Nat, NEW D
  PROVE  \/ Spoken(n, D) = {} /\ Latest(n, D) = 0
         \/ /\ Latest(n, D) \in Spoken(n, D) /\ Latest(n, D) \in 1..n
            /\ \A i \in Spoken(n, D) : i <= Latest(n, D)
<1>1. CASE Spoken(n, D) = {}
  BY <1>1 DEF Latest
<1>2. CASE Spoken(n, D) # {}
  <2>1. Spoken(n, D) \in SUBSET (1..n)
    BY CountsIn
  <2>2. Max(Spoken(n, D)) \in Spoken(n, D) /\ \A i \in Spoken(n, D) : Max(Spoken(n, D)) >= i
    BY <1>2, <2>1, LastOf
  <2>3. QED
    BY <1>2, <2>1, <2>2 DEF Latest
<1>3. QED
  BY <1>1, <1>2

\* An event that says something is the last.
LEMMA LatestNext ==
  ASSUME NEW n \in Nat, NEW D, n + 1 \in Spoken(n + 1, D)
  PROVE  Latest(n + 1, D) = n + 1
<1>1. n + 1 \in Nat /\ \A i \in 1..(n + 1) : n + 1 <= i => i = n + 1
  OBVIOUS
<1>2. QED
  BY <1>1, LatestIs

\* One more at the end of what follows.
LEMMA ConcatAppend ==
  ASSUME NEW S, NEW s \in Seq(S), NEW t \in Seq(S), NEW x \in S
  PROVE  s \o Append(t, x) = Append(s \o t, x)
OBVIOUS

\* A status moves the message of the one before to the history.
LEMMA LogStatus ==
  ASSUME NEW n \in Nat, NEW D, n + 1 \notin D, events[n + 1].kind = "status"
  PROVE  Log(n + 1, D) = WithStatus(Log(n, D), n + 1)
<1> DEFINE l == Latest(n, D)
           m == n + 1
<1>1. /\ Tasks(m, D) = Tasks(n, D) /\ Counts(m, D) = Counts(n, D) \union {m}
      /\ m \notin Counts(n, D)
  BY CountsNext
<1>2. /\ \A id : Chunks(m, D, id) = Chunks(n, D, id) /\ Firsts(m, D, id) = Firsts(n, D, id)
      /\ \A id : Content(m, D, id) = Content(n, D, id)
  BY <1>1 DEF Chunks, Firsts, Content
<1>3. \A old : Openings(m, D, old) = Openings(n, D, old)
  BY <1>1, <1>2 DEF Openings
<1>4. LogArtifacts(m, D, Old(n, D)) = LogArtifacts(n, D, Old(n, D))
  BY <1>2, <1>3, LogArtifactsSame
<1>5. Start(m, D) = Start(n, D) /\ Old(m, D) = Old(n, D)
  BY <1>1 DEF Start, Old
<1>6. Spoken(m, D) = Spoken(n, D) \union {m}
  BY <1>1 DEF Spoken
<1>7. Latest(m, D) = m /\ m # 0
  BY <1>6, LatestNext
<1>8. InOrder(Replaced(m, D), m) =
        IF l # 0 /\ events[l].msg THEN Append(InOrder(Replaced(n, D), n), l)
        ELSE InOrder(Replaced(n, D), n)
  <2>1. m \notin Spoken(n, D) /\ m \notin 1..n
    <3>1. m \notin 1..n
      OBVIOUS
    <3>2. QED
      BY <3>1, CountsIn
  <2>2. Replaced(m, D) = {i \in Spoken(n, D) : events[i].msg}
    BY <1>6, <1>7, <2>1 DEF Replaced
  <2>3. InOrder(Replaced(m, D), m) = InOrder(Replaced(m, D), n)
    BY <2>1, <2>2, InOrderNext
  <2>4. CASE l # 0 /\ events[l].msg
    <3>1. l \in Spoken(n, D) /\ l \in 1..n /\ \A i \in Spoken(n, D) : i <= l
      BY <2>4, LatestIs
    <3>2. Replaced(m, D) = Replaced(n, D) \union {l}
      BY <2>2, <2>4, <3>1 DEF Replaced
    <3>3. \A k \in 1..n : k \in Replaced(n, D) => k < l
      BY <3>1 DEF Replaced
    <3>4. InOrder(Replaced(n, D) \union {l}, n) = Append(InOrder(Replaced(n, D), n), l)
      BY <3>1, <3>3, InOrderAdds
    <3>5. QED
      BY <2>3, <2>4, <3>2, <3>4
  <2>5. CASE ~(l # 0 /\ events[l].msg)
    <3>1. Replaced(m, D) = Replaced(n, D)
      BY <2>2, <2>5, LatestIs DEF Replaced
    <3>2. QED
      BY <2>3, <2>5, <3>1
  <2>6. QED
    BY <2>4, <2>5
<1> HIDE DEF l, m
<1> DEFINE old == Log(n, D)
<1>9. Start(n, D).history \in Seq(Int) /\ InOrder(Replaced(n, D), n) \in Seq(Int)
  <2>1. InOrder(Replaced(n, D), n) \in Seq(Nat)
    BY InOrderRises
  <2>2. QED
    BY <2>1, StartIs
<1>10. /\ old.msg = IF l # 0 /\ events[l].msg THEN l ELSE 0
       /\ old.history = Start(n, D).history \o InOrder(Replaced(n, D), n)
       /\ old.artifacts = LogArtifacts(n, D, Old(n, D))
  BY LogIs DEF l
<1>11. /\ l \in Int
       /\ Start(n, D).history \o Append(InOrder(Replaced(n, D), n), l)
            = Append(Start(n, D).history \o InOrder(Replaced(n, D), n), l)
  <2>1. l \in Int
    BY LatestIs DEF l
  <2>2. \A s, t \in Seq(Int), x \in Int : s \o Append(t, x) = Append(s \o t, x)
    BY ConcatAppend
  <2>3. QED
    BY <1>9, <2>1, <2>2, Zenon
<1>12. WithStatus(old, m) =
         [state |-> events[m].state, msg |-> IF events[m].msg THEN m ELSE 0,
          history |-> IF old.msg = 0 THEN old.history ELSE Append(old.history, old.msg),
          artifacts |-> old.artifacts]
  <2>1. old = [state |-> old.state, msg |-> old.msg, history |-> old.history,
               artifacts |-> old.artifacts]
    BY LogIs
  <2> HIDE DEF old
  <2>2. WithStatus(old, m) \in
          [state : {events[m].state}, msg : {IF events[m].msg THEN m ELSE 0},
           history : {IF old.msg = 0 THEN old.history ELSE Append(old.history, old.msg)},
           artifacts : {old.artifacts}]
    BY <2>1 DEF WithStatus
  <2>3. QED
    BY <2>2, TaskIs
<1> HIDE DEF old
<1>13. Log(m, D) =
         [state |-> events[m].state, msg |-> IF events[m].msg THEN m ELSE 0,
          history |-> Start(n, D).history \o InOrder(Replaced(m, D), m),
          artifacts |-> LogArtifacts(n, D, Old(n, D))]
  BY <1>4, <1>5, <1>7, LogIs DEF m
<1>14. Start(n, D).history \o InOrder(Replaced(m, D), m) =
         IF old.msg = 0 THEN old.history ELSE Append(old.history, old.msg)
  BY <1>8, <1>10, <1>11
<1>15. Log(m, D) = WithStatus(old, m)
  BY <1>10, <1>12, <1>13, <1>14
<1>16. QED
  BY <1>15 DEF m, old

-----------------------------------------------------------------------------
(* Artifacts.                                                              *)

\* The turn is one, and the first n events are events.
Heard(n) == turn \in Turns /\ \A i \in 1..n : events[i] \in TaskEvents

\* An artifact of its own parts.
Values == [id : ArtifactIds, ref : {0}, parts : Seq(Nat)]

\* What an earlier turn may have left: artifacts, each once.
OldOK(old) ==
  old \in Seq(ArtifactIds) /\ \A j, k \in 1..Len(old) : old[j] = old[k] => j = k
Held(old, id) == \E k \in DOMAIN old : old[k] = id

\* It is what the turn found, or nothing.
LEMMA OldIs ==
  ASSUME turn \in Turns
  PROVE  /\ turn.new \in BOOLEAN /\ OldOK(turn.kept) /\ OldOK(<<>>)
         /\ turn.new => turn.kept = <<>>
         /\ \A n, D : OldOK(Old(n, D))
<1>1. OldOK(<<>>)
  BY DEF OldOK
<1>2. turn.new \in BOOLEAN /\ OldOK(turn.kept) /\ (turn.new => turn.kept = <<>>)
  <2>1. CASE turn = [new |-> TRUE, kept |-> <<>>]
    BY <1>1, <2>1
  <2>2. ASSUME NEW ids \in UNION {[1..k -> ArtifactIds] : k \in 0..MaxEarlier},
               \A j, k \in DOMAIN ids : ids[j] = ids[k] => j = k,
               turn = [new |-> FALSE, kept |-> ids]
        PROVE  turn.new \in BOOLEAN /\ OldOK(turn.kept) /\ (turn.new => turn.kept = <<>>)
    <3>1. PICK k \in 0..MaxEarlier : ids \in [1..k -> ArtifactIds]
      BY <2>2
    <3>2. ids \in Seq(ArtifactIds) /\ DOMAIN ids = 1..Len(ids)
      BY <3>1, TaskAssumption
    <3>3. OldOK(ids)
      BY <2>2, <3>2 DEF OldOK
    <3>4. QED
      BY <2>2, <3>3
  <2>3. QED
    BY <2>1, <2>2 DEF Turns
<1>3. QED
  BY <1>1, <1>2 DEF Old

\* Where an artifact of this id is, if one is.
LEMMA FindIs ==
  ASSUME NEW S, NEW A \in Seq(S), NEW id
  PROVE  \/ Find(A, id) = 0 /\ \A k \in 1..Len(A) : A[k].id # id
         \/ Find(A, id) \in 1..Len(A) /\ A[Find(A, id)].id = id
<1> DEFINE I == {k \in 1..Len(A) : A[k].id = id}
<1>1. Find(A, id) = IF I # {} THEN Min(I) ELSE 0
  BY DEF Find, SelectInSeq
<1>2. CASE I = {}
  BY <1>1, <1>2
<1>3. CASE I # {}
  <2>1. Len(A) \in Nat /\ I \in SUBSET (1..Len(A))
    BY LenProperties
  <2>2. Min(I) \in I
    BY <1>3, <2>1, FirstOf
  <2>3. QED
    BY <1>1, <1>3, <2>2
<1>4. QED
  BY <1>2, <1>3

\* What an artifact event is.
LEMMA ArtifactEventIs ==
  ASSUME NEW e \in TaskEvents, e.kind = "artifact"
  PROVE  e.id \in ArtifactIds /\ e.append \in BOOLEAN
<1>1. e \in ArtifactEvents
  BY DEF TaskEvents, StatusEvents, OtherEvents
<1>2. QED
  BY <1>1 DEF ArtifactEvents

\* The artifacts there are: the old ones and those that were begun, each once.
LEMMA IdsAre ==
  ASSUME NEW n \in Nat, NEW D, NEW old, OldOK(old), Heard(n)
  PROVE  LET ids == Ids(n, D, old) IN
         /\ ids \in Seq(ArtifactIds) /\ Len(ids) \in Nat
         /\ \A j, k \in 1..Len(ids) : ids[j] = ids[k] => j = k
         /\ \A id : (\E k \in 1..Len(ids) : ids[k] = id) <=> Held(old, id) \/ Firsts(n, D, id) # {}
<1> DEFINE s == InOrder(Openings(n, D, old), n)
           u == [k \in DOMAIN s |-> events[s[k]].id]
           ids == Ids(n, D, old)
<1>1. s \in Seq(Nat) /\ Rising(s, Openings(n, D, old), n)
  BY InOrderRises
<1>2. Len(s) \in Nat /\ DOMAIN s = 1..Len(s)
  BY <1>1, LenProperties
<1>3. ASSUME NEW k \in 1..Len(s)
      PROVE  /\ events[s[k]].id \in ArtifactIds /\ s[k] \in Nat
             /\ ~Held(old, events[s[k]].id)
             /\ s[k] \in Firsts(n, D, events[s[k]].id)
             /\ \A i \in Firsts(n, D, events[s[k]].id) : s[k] <= i
  <2>1. s[k] \in Openings(n, D, old) /\ s[k] \in 1..n
    BY <1>1 DEF Rising
  <2>2. events[s[k]].id \in ArtifactIds
    BY <2>1, ArtifactEventIs DEF Heard, Openings
  <2> HIDE DEF s
  <2>3. /\ s[k] \in Firsts(n, D, events[s[k]].id)
        /\ \A i \in Firsts(n, D, events[s[k]].id) : s[k] <= i
    BY <2>1 DEF Openings, Firsts, Chunks
  <2>4. ~Held(old, events[s[k]].id)
    BY <2>1 DEF Openings, Held
  <2>5. QED
    BY <2>1, <2>2, <2>3, <2>4
<1>4. ids = old \o u
  BY DEF Ids
<1> HIDE DEF s
<1>5. u \in Seq(ArtifactIds) /\ Len(u) = Len(s) /\ \A k \in 1..Len(s) : u[k] = events[s[k]].id
  <2>1. u \in [1..Len(s) -> ArtifactIds]
    BY <1>2, <1>3
  <2>2. QED
    BY <1>2, <2>1
<1>6. old \in Seq(ArtifactIds) /\ Len(old) \in Nat /\ DOMAIN old = 1..Len(old)
  BY LenProperties DEF OldOK
<1> HIDE DEF u, ids
<1>7. /\ ids \in Seq(ArtifactIds) /\ Len(ids) = Len(old) + Len(s)
      /\ \A i \in 1..Len(old) : ids[i] = old[i]
      /\ \A i \in 1..Len(s) : ids[Len(old) + i] = u[i]
  <2>1. /\ ids \in Seq(ArtifactIds) /\ Len(ids) = Len(old) + Len(u)
        /\ \A i \in 1..(Len(old) + Len(u)) :
             ids[i] = IF i <= Len(old) THEN old[i] ELSE u[i - Len(old)]
    <3>1. old \o u \in Seq(ArtifactIds) /\ Len(old \o u) = Len(old) + Len(u)
      BY <1>5, <1>6, ConcatProperties
    <3>2. \A i \in 1..(Len(old) + Len(u)) :
            (old \o u)[i] = IF i <= Len(old) THEN old[i] ELSE u[i - Len(old)]
      BY <1>5, <1>6, ConcatProperties
    <3>3. QED
      BY <1>4, <3>1, <3>2
  <2>2. \A i \in 1..Len(old) : i \in 1..(Len(old) + Len(u)) /\ i <= Len(old)
    BY <1>2, <1>5, <1>6
  <2>3. \A i \in 1..Len(s) : /\ Len(old) + i \in 1..(Len(old) + Len(u))
                             /\ ~(Len(old) + i <= Len(old)) /\ (Len(old) + i) - Len(old) = i
    BY <1>2, <1>5, <1>6
  <2>4. QED
    BY <1>5, <2>1, <2>2, <2>3
<1>8. \A i \in 1..Len(ids) : i \in 1..Len(old) \/ \E k \in 1..Len(s) : i = Len(old) + k
  <2>1. TAKE i \in 1..Len(ids)
  <2>2. CASE i <= Len(old)
    BY <1>6, <2>2
  <2>3. CASE ~(i <= Len(old))
    <3>1. i - Len(old) \in 1..Len(s) /\ i = Len(old) + (i - Len(old))
      BY <1>2, <1>6, <1>7, <2>3
    <3>2. QED
      BY <3>1
  <2>4. QED
    BY <2>2, <2>3
<1>9. \A k \in 1..Len(s) : \A j \in 1..Len(old) : u[k] # old[j]
  BY <1>3, <1>5, <1>6 DEF Held
<1>10. \A k, l \in 1..Len(s) : u[k] = u[l] => k = l
  <2>1. TAKE k, l \in 1..Len(s)
  <2>2. SUFFICES ASSUME u[k] = u[l], k # l PROVE FALSE
    OBVIOUS
  <2>3. s[k] <= s[l] /\ s[l] <= s[k] /\ s[k] \in Nat /\ s[l] \in Nat
    BY <1>3, <1>5, <2>2
  <2>4. s[k] < s[l] \/ s[l] < s[k]
    <3>1. k < l \/ l < k
      BY <1>2, <2>2
    <3>2. QED
      BY <1>1, <3>1 DEF Rising
  <2>5. QED
    BY <2>3, <2>4
<1>11. \A j, k \in 1..Len(ids) : ids[j] = ids[k] => j = k
  <2>1. TAKE j, k \in 1..Len(ids)
  <2>2. SUFFICES ASSUME ids[j] = ids[k] PROVE j = k
    OBVIOUS
  <2>3. CASE j \in 1..Len(old) /\ k \in 1..Len(old)
    BY <1>7, <2>2, <2>3 DEF OldOK
  <2>4. ASSUME NEW a \in 1..Len(s), j = Len(old) + a, k \in 1..Len(old) PROVE FALSE
    BY <1>7, <1>9, <2>2, <2>4
  <2>5. ASSUME NEW b \in 1..Len(s), k = Len(old) + b, j \in 1..Len(old) PROVE FALSE
    BY <1>7, <1>9, <2>2, <2>5
  <2>6. ASSUME NEW a \in 1..Len(s), j = Len(old) + a, NEW b \in 1..Len(s), k = Len(old) + b
        PROVE  j = k
    <3>1. u[a] = u[b]
      BY <1>7, <2>2, <2>6
    <3>2. QED
      BY <1>10, <2>6, <3>1
  <2>7. QED
    BY <1>8, <2>3, <2>4, <2>5, <2>6
<1>12. ASSUME NEW id
       PROVE  (\E k \in 1..Len(ids) : ids[k] = id) <=> Held(old, id) \/ Firsts(n, D, id) # {}
  <2>1. ASSUME NEW k \in 1..Len(ids), ids[k] = id PROVE Held(old, id) \/ Firsts(n, D, id) # {}
    <3>1. CASE k \in 1..Len(old)
      BY <1>6, <1>7, <2>1, <3>1 DEF Held
    <3>2. ASSUME NEW a \in 1..Len(s), k = Len(old) + a PROVE Firsts(n, D, id) # {}
      <4>1. events[s[a]].id = id
        BY <1>5, <1>7, <2>1, <3>2
      <4>2. QED
        BY <1>3, <4>1
    <3>3. QED
      BY <1>8, <3>1, <3>2
  <2>2. ASSUME Held(old, id) PROVE \E k \in 1..Len(ids) : ids[k] = id
    <3>1. PICK k \in 1..Len(old) : old[k] = id
      BY <1>6, <2>2 DEF Held
    <3>2. k \in 1..Len(ids) /\ ids[k] = id
      BY <1>2, <1>6, <1>7, <3>1
    <3>3. QED
      BY <3>2
  <2>3. ASSUME Firsts(n, D, id) # {}, ~Held(old, id) PROVE \E k \in 1..Len(ids) : ids[k] = id
    <3>1. Firsts(n, D, id) \in SUBSET (1..n)
      BY CountsIn
    <3> DEFINE f == Min(Firsts(n, D, id))
    <3>2. f \in Firsts(n, D, id) /\ \A i \in Firsts(n, D, id) : f <= i
      BY <2>3, <3>1, FirstOf
    <3>3. f \in Openings(n, D, old) /\ f \in 1..n /\ events[f].id = id
      BY <2>3, <3>1, <3>2 DEF Firsts, Chunks, Openings, Held
    <3>4. PICK j \in 1..Len(s) : s[j] = f
      BY <1>1, <3>3 DEF Rising
    <3> HIDE DEF f
    <3>5. Len(old) + j \in 1..Len(ids) /\ ids[Len(old) + j] = id
      BY <1>2, <1>5, <1>6, <1>7, <3>3, <3>4
    <3>6. QED
      BY <3>5
  <2>4. QED
    BY <2>1, <2>2, <2>3
<1>13. Len(ids) \in Nat
  BY <1>2, <1>6, <1>7
<1>14. QED
  BY <1>7, <1>11, <1>12, <1>13 DEF ids

\* What each holds.
LEMMA TextIs ==
  ASSUME NEW n \in Nat, NEW D, NEW old, NEW id
  PROVE  Text(n, D, old, id) \in Seq(Nat)
<1>1. InOrder(Content(n, D, id), n) \in Seq(Nat)
  BY InOrderRises
<1>2. <<Earlier>> \in Seq(Nat) /\ <<>> \in Seq(Nat)
  BY DEF Earlier
<1>3. QED
  BY <1>1, <1>2, ConcatProperties DEF Text

\* The artifacts of the log are values, one for each of these.
LEMMA LogArtifactsAre ==
  ASSUME NEW n \in Nat, NEW D, NEW old, OldOK(old), Heard(n)
  PROVE  LET A == LogArtifacts(n, D, old) ids == Ids(n, D, old) IN
         /\ A \in Seq(Values) /\ Len(A) = Len(ids) /\ Len(ids) \in Nat
         /\ \A k \in 1..Len(ids) : A[k] = ArtifactOf(ids[k], 0, Text(n, D, old, ids[k]))
<1> DEFINE ids == Ids(n, D, old)
<1>1. ids \in Seq(ArtifactIds) /\ Len(ids) \in Nat /\ DOMAIN ids = 1..Len(ids)
  BY IdsAre, LenProperties
<1>2. LogArtifacts(n, D, old) = [k \in 1..Len(ids) |-> ArtifactOf(ids[k], 0, Text(n, D, old, ids[k]))]
  BY <1>1 DEF LogArtifacts
<1> HIDE DEF ids
<1>3. ASSUME NEW k \in 1..Len(ids) PROVE ArtifactOf(ids[k], 0, Text(n, D, old, ids[k])) \in Values
  <2>1. ids[k] \in ArtifactIds
    BY <1>1
  <2>2. QED
    BY <2>1, TextIs DEF Values, ArtifactOf
<1>4. LogArtifacts(n, D, old) \in [1..Len(ids) -> Values]
  BY <1>2, <1>3
<1>5. LogArtifacts(n, D, old) \in Seq(Values) /\ Len(LogArtifacts(n, D, old)) = Len(ids)
  BY <1>1, <1>4
<1>6. QED
  BY <1>1, <1>2, <1>5 DEF ids

\* An artifact has one place and no other, if it is there.
LEMMA ArtifactPlace ==
  ASSUME NEW n \in Nat, NEW D, NEW old, OldOK(old), Heard(n), NEW id
  PROVE  LET A == LogArtifacts(n, D, old) k == Find(A, id) IN
         \/ /\ k = 0 /\ Firsts(n, D, id) = {} /\ ~Held(old, id)
            /\ \A j \in 1..Len(A) : A[j].id # id
         \/ /\ k \in 1..Len(A) /\ (Firsts(n, D, id) # {} \/ Held(old, id))
            /\ A[k] = ArtifactOf(id, 0, Text(n, D, old, id))
            /\ \A j \in 1..Len(A) : j # k => A[j].id # id
<1> DEFINE A == LogArtifacts(n, D, old)
           ids == Ids(n, D, old)
           k == Find(A, id)
<1>1. /\ A \in Seq(Values) /\ Len(A) = Len(ids) /\ Len(ids) \in Nat
      /\ \A j \in 1..Len(ids) : A[j] = ArtifactOf(ids[j], 0, Text(n, D, old, ids[j]))
  BY LogArtifactsAre
<1>2. /\ \A i, j \in 1..Len(ids) : ids[i] = ids[j] => i = j
      /\ (\E j \in 1..Len(ids) : ids[j] = id) <=> Held(old, id) \/ Firsts(n, D, id) # {}
  BY IdsAre
<1>3. \/ k = 0 /\ \A j \in 1..Len(A) : A[j].id # id
      \/ k \in 1..Len(A) /\ A[k].id = id
  BY <1>1, FindIs
<1> HIDE DEF A, ids, k
<1>4. ASSUME NEW j \in 1..Len(ids) PROVE A[j].id = ids[j]
  <2>1. A[j] = ArtifactOf(ids[j], 0, Text(n, D, old, ids[j]))
    BY <1>1
  <2>2. QED
    BY <2>1 DEF ArtifactOf
<1>5. CASE k = 0 /\ \A j \in 1..Len(A) : A[j].id # id
  BY <1>1, <1>2, <1>4, <1>5 DEF A, k
<1>6. CASE k \in 1..Len(A) /\ A[k].id = id
  <2>1. ids[k] = id /\ k \in 1..Len(ids)
    BY <1>1, <1>4, <1>6
  <2>2. A[k] = ArtifactOf(id, 0, Text(n, D, old, id))
    BY <1>1, <2>1
  <2>3. \A j \in 1..Len(A) : j # k => A[j].id # id
    BY <1>1, <1>2, <1>4, <2>1
  <2>4. QED
    BY <1>2, <1>6, <2>1, <2>2, <2>3 DEF A, k
<1>7. QED
  BY <1>3, <1>5, <1>6

\* B is A after a chunk.
Chunked(A, B, id, append, ps) ==
  LET k == Find(A, id) IN
  /\ k = 0 => B = IF append THEN A ELSE Append(A, ArtifactOf(id, 0, ps))
  /\ k # 0 =>
       /\ B \in Seq(Values) /\ Len(B) = Len(A)
       /\ B[k] = ArtifactOf(id, 0, IF append THEN A[k].parts \o ps ELSE ps)
       /\ \A j \in 1..Len(A) : j # k => B[j] = A[j]

\* What append_artifact_to_task makes of artifacts that are values.
LEMMA ChunkIs ==
  ASSUME NEW A \in Seq(Values), NEW id, NEW append \in BOOLEAN, NEW ps \in Seq(Nat)
  PROVE  Chunked(A, ClientChunk(A, id, append, ps), id, append, ps)
<1> DEFINE k == Find(A, id)
           B == ClientChunk(A, id, append, ps)
           x == ArtifactOf(id, 0, IF append THEN A[k].parts \o ps ELSE ps)
<1>1. \/ k = 0
      \/ k \in 1..Len(A) /\ A[k].id = id
  BY FindIs
<1>2. Len(A) \in Nat
  BY LenProperties
<1>3. CASE k = 0
  BY <1>3 DEF ClientChunk, Chunked
<1>4. CASE k \in 1..Len(A) /\ A[k].id = id
  <2>1. A[k] \in Values /\ k # 0
    BY <1>4, ElementOfSeq
  <2>2. x \in Values
    BY <1>4, <2>1 DEF Values, ArtifactOf
  <2>3. B = IF append THEN [A EXCEPT ![k].parts = @ \o ps] ELSE [A EXCEPT ![k].parts = ps]
    BY <2>1 DEF ClientChunk
  <2>4. [A[k] EXCEPT !.parts = IF append THEN A[k].parts \o ps ELSE ps] = x
    <3> DEFINE a == A[k]
               q == IF append THEN A[k].parts \o ps ELSE ps
    <3>1. a \in [id : {id}, ref : {0}, parts : Seq(Nat)]
      BY <1>4, <2>1 DEF Values
    <3> HIDE DEF a, q
    <3>2. [a EXCEPT !.parts = q] \in [id : {id}, ref : {0}, parts : {q}]
      BY <3>1
    <3>3. ArtifactOf(id, 0, q) \in [id : {id}, ref : {0}, parts : {q}]
      BY DEF ArtifactOf
    <3>4. [a EXCEPT !.parts = q] = ArtifactOf(id, 0, q)
      BY <3>2, <3>3
    <3>5. QED
      BY <3>4 DEF a, q
  <2>5. B = [A EXCEPT ![k] = x]
    <3>1. CASE append
      BY <2>3, <2>4, <3>1
    <3>2. CASE ~append
      BY <2>3, <2>4, <3>2
    <3>3. QED
      BY <3>1, <3>2
  <2> HIDE DEF B, x, k
  <2>6. \A e \in Values : /\ [A EXCEPT ![k] = e] \in Seq(Values) /\ Len([A EXCEPT ![k] = e]) = Len(A)
                          /\ [A EXCEPT ![k] = e][k] = e
                          /\ \A j \in 1..Len(A) : j # k => [A EXCEPT ![k] = e][j] = A[j]
    BY <1>2, <1>4
  <2>7. B \in Seq(Values) /\ Len(B) = Len(A) /\ B[k] = x /\ \A j \in 1..Len(A) : j # k => B[j] = A[j]
    BY <2>2, <2>5, <2>6
  <2>8. QED
    BY <2>1, <2>7 DEF Chunked, B, x, k
<1>5. QED
  BY <1>1, <1>3, <1>4

\* A chunk has one outcome.
LEMMA ChunkOnce ==
  ASSUME NEW A \in Seq(Values), NEW B, NEW C, NEW id, NEW append, NEW ps,
         Chunked(A, B, id, append, ps), Chunked(A, C, id, append, ps)
  PROVE  B = C
<1> DEFINE k == Find(A, id)
<1>1. CASE k = 0
  BY <1>1 DEF Chunked
<1>2. CASE k # 0
  <2>1. B \in Seq(Values) /\ C \in Seq(Values) /\ Len(B) = Len(A) /\ Len(C) = Len(A)
    BY <1>2 DEF Chunked
  <2>2. \A j \in 1..Len(A) : B[j] = C[j]
    BY <1>2 DEF Chunked
  <2>3. QED
    BY <2>1, <2>2, SeqEqual
<1>3. QED
  BY <1>1, <1>2

\* What an artifact event adds to the chunks of its artifact.
LEMMA ChunksNext ==
  ASSUME NEW n \in Nat, NEW D, NEW old, n + 1 \notin D, events[n + 1].kind = "artifact",
         events[n + 1].append \in BOOLEAN
  PROVE  LET e == events[n + 1] IN
         /\ \A id : id # e.id => /\ Content(n + 1, D, id) = Content(n, D, id)
                                 /\ Firsts(n + 1, D, id) = Firsts(n, D, id)
         /\ Content(n + 1, D, e.id) = IF e.append THEN Content(n, D, e.id) \union {n + 1} ELSE {n + 1}
         /\ Firsts(n + 1, D, e.id) = IF e.append THEN Firsts(n, D, e.id)
                                     ELSE Firsts(n, D, e.id) \union {n + 1}
         /\ Openings(n + 1, D, old) =
              IF ~e.append /\ Firsts(n, D, e.id) = {} /\ ~Held(old, e.id)
                THEN Openings(n, D, old) \union {n + 1} ELSE Openings(n, D, old)
<1> DEFINE m == n + 1
           e == events[m]
<1>1. Counts(m, D) = Counts(n, D) \union {m} /\ m \notin Counts(n, D)
  BY CountsNext
<1>2. Counts(n, D) \subseteq 1..n /\ m \in Nat
  BY CountsIn
<1>3. \A i \in 1..n : i < m /\ ~(m <= i)
  OBVIOUS
<1>4. \A id : id # e.id => Chunks(m, D, id) = Chunks(n, D, id) /\ Firsts(m, D, id) = Firsts(n, D, id)
  BY <1>1 DEF Chunks, Firsts
<1>5. /\ Chunks(m, D, e.id) = Chunks(n, D, e.id) \union {m}
      /\ Firsts(m, D, e.id) = IF e.append THEN Firsts(n, D, e.id) ELSE Firsts(n, D, e.id) \union {m}
  BY <1>1 DEF Chunks, Firsts
<1>6. \A id : Chunks(n, D, id) \subseteq 1..n /\ Firsts(n, D, id) \subseteq 1..n
  BY CountsIn
<1> HIDE DEF e, m
<1>7. \A id : id # e.id => Content(m, D, id) = Content(n, D, id)
  BY <1>4 DEF Content
<1>8. Content(m, D, e.id) = IF e.append THEN Content(n, D, e.id) \union {m} ELSE {m}
  <2>1. CASE e.append
    <3>1. \A j \in Firsts(n, D, e.id) : j <= m
      BY <1>2, <1>3, <1>6
    <3>2. Firsts(m, D, e.id) = Firsts(n, D, e.id)
      BY <1>5, <2>1
    <3>3. QED
      BY <1>5, <2>1, <3>1, <3>2 DEF Content
  <2>2. CASE ~e.append
    <3>1. Firsts(m, D, e.id) = Firsts(n, D, e.id) \union {m}
      BY <1>5, <2>2
    <3>2. \A j \in Firsts(m, D, e.id) : j <= m
      BY <1>2, <1>3, <1>6, <3>1
    <3>3. \A i \in Chunks(n, D, e.id) : ~(m <= i)
      BY <1>3, <1>6
    <3>4. m \in Content(m, D, e.id)
      BY <1>5, <3>2 DEF Content
    <3>5. \A i \in Content(m, D, e.id) : i = m
      BY <1>5, <3>1, <3>3 DEF Content
    <3>6. QED
      BY <2>2, <3>4, <3>5
  <2>3. QED
    BY <2>1, <2>2
<1>9. \A i \in 1..n : (\A j \in Firsts(m, D, events[i].id) : i <= j)
                        <=> (\A j \in Firsts(n, D, events[i].id) : i <= j)
  <2>1. TAKE i \in 1..n
  <2>2. i <= m
    BY <1>2, <1>3
  <2>3. CASE events[i].id = e.id
    BY <1>5, <2>2, <2>3
  <2>4. CASE events[i].id # e.id
    BY <1>4, <2>4
  <2>5. QED
    BY <2>3, <2>4
<1>10. ASSUME NEW i PROVE i \in Openings(m, D, old) <=>
          \/ i \in Openings(n, D, old)
          \/ i = m /\ ~e.append /\ Firsts(n, D, e.id) = {} /\ ~Held(old, e.id)
  <2>1. CASE i = m
    <3>1. m \notin Openings(n, D, old)
      BY <1>1 DEF Openings
    <3>2. m \in Openings(m, D, old) <=>
            ~e.append /\ (\A j \in Firsts(m, D, e.id) : m <= j) /\ ~Held(old, e.id)
      BY <1>1 DEF Openings, e, m, Held
    <3>3. ~e.append => ((\A j \in Firsts(m, D, e.id) : m <= j) <=> Firsts(n, D, e.id) = {})
      <4>1. \A j \in Firsts(n, D, e.id) : ~(m <= j)
        BY <1>3, <1>6
      <4>2. m <= m
        BY <1>2
      <4>3. QED
        BY <1>5, <4>1, <4>2
    <3>4. QED
      BY <2>1, <3>1, <3>2, <3>3
  <2>2. CASE i # m
    <3>1. i \in Counts(m, D) <=> i \in Counts(n, D)
      BY <1>1, <2>2
    <3>2. QED
      BY <1>2, <1>9, <2>2, <3>1 DEF Openings
  <2>3. QED
    BY <2>1, <2>2
<1>11. Openings(m, D, old) =
         IF ~e.append /\ Firsts(n, D, e.id) = {} /\ ~Held(old, e.id)
           THEN Openings(n, D, old) \union {m} ELSE Openings(n, D, old)
  BY <1>10
<1>12. QED
  BY <1>4, <1>5, <1>7, <1>8, <1>11 DEF e, m

\* It is a new artifact if there is none and the chunk begins one, ...
LEMMA IdsNext ==
  ASSUME NEW n \in Nat, NEW D, NEW old, OldOK(old), n + 1 \notin D, Heard(n + 1),
         events[n + 1].kind = "artifact"
  PROVE  LET e == events[n + 1] IN
         Ids(n + 1, D, old) =
           IF ~e.append /\ Firsts(n, D, e.id) = {} /\ ~Held(old, e.id)
             THEN Append(Ids(n, D, old), e.id) ELSE Ids(n, D, old)
<1> DEFINE m == n + 1
           e == events[m]
           s == InOrder(Openings(n, D, old), n)
           t == InOrder(Openings(m, D, old), m)
           new == ~e.append /\ Firsts(n, D, e.id) = {} /\ ~Held(old, e.id)
           u == [k \in DOMAIN s |-> events[s[k]].id]
           v == [k \in DOMAIN t |-> events[t[k]].id]
<1>1. m \in Nat /\ m \in 1..m /\ Heard(n)
  BY DEF Heard
<1>2. e.id \in ArtifactIds /\ e.append \in BOOLEAN
  BY <1>1, ArtifactEventIs DEF Heard
<1>3. Openings(m, D, old) = IF new THEN Openings(n, D, old) \union {m} ELSE Openings(n, D, old)
  BY <1>2, ChunksNext
<1>4. m \notin Openings(n, D, old)
  <2>1. m \notin 1..n
    OBVIOUS
  <2>2. QED
    BY <2>1, CountsIn
<1>5. t = IF new THEN Append(s, m) ELSE s
  <2>1. t = IF m \in Openings(m, D, old) THEN Append(InOrder(Openings(m, D, old), n), m)
            ELSE InOrder(Openings(m, D, old), n)
    BY InOrderNext
  <2>2. SameUpTo(Openings(m, D, old), Openings(n, D, old), n)
    BY <1>3 DEF SameUpTo
  <2>3. InOrder(Openings(m, D, old), n) = s
    BY <2>2, InOrderSame
  <2>4. m \in Openings(m, D, old) <=> new
    BY <1>3, <1>4
  <2> HIDE DEF t, s, m, new
  <2>5. QED
    BY <2>1, <2>3, <2>4
<1>6. Ids(n, D, old) = old \o u /\ Ids(m, D, old) = old \o v
  BY DEF Ids
<1>7. s \in Seq(Nat) /\ Rising(s, Openings(n, D, old), n) /\ DOMAIN s = 1..Len(s) /\ Len(s) \in Nat
  BY InOrderRises, LenProperties
<1>8. u \in Seq(ArtifactIds) /\ Len(u) = Len(s)
  <2>1. ASSUME NEW k \in 1..Len(s) PROVE events[s[k]].id \in ArtifactIds
    <3>1. s[k] \in Openings(n, D, old) /\ s[k] \in 1..n
      BY <1>7 DEF Rising
    <3>2. QED
      BY <1>1, <3>1, ArtifactEventIs DEF Heard, Openings
  <2> HIDE DEF s
  <2>2. u \in [1..Len(s) -> ArtifactIds]
    BY <1>7, <2>1
  <2>3. QED
    BY <1>7, <2>2
<1>9. CASE ~new
  <2>1. v = u
    BY <1>5, <1>9
  <2> HIDE DEF u, v, new
  <2>2. QED
    BY <1>6, <1>9, <2>1 DEF new
<1>10. CASE new
  <2>1. t = Append(s, m)
    BY <1>5, <1>10
  <2> HIDE DEF s, t, new
  <2>2. /\ t \in Seq(Nat) /\ Len(t) = Len(s) + 1 /\ t[Len(s) + 1] = m
        /\ \A k \in 1..Len(s) : t[k] = s[k]
    BY <1>1, <1>7, <2>1, AppendProperties
  <2>3. DOMAIN t = 1..(Len(s) + 1)
    BY <2>2, LenProperties
  <2>4. /\ Append(u, e.id) \in Seq(ArtifactIds) /\ Len(Append(u, e.id)) = Len(s) + 1
        /\ Append(u, e.id)[Len(s) + 1] = e.id
        /\ \A k \in 1..Len(s) : Append(u, e.id)[k] = u[k]
    BY <1>2, <1>8, AppendProperties
  <2>5. \A k \in 1..Len(s) : v[k] = u[k]
    BY <1>7, <2>2, <2>3
  <2>6. v[Len(s) + 1] = e.id
    BY <1>7, <2>2, <2>3
  <2>7. v \in [1..(Len(s) + 1) -> ArtifactIds]
    <3>1. \A k \in 1..(Len(s) + 1) : k \in 1..Len(s) \/ k = Len(s) + 1
      BY <1>7
    <3>2. \A k \in 1..Len(s) : u[k] \in ArtifactIds
      BY <1>8
    <3>3. \A k \in 1..(Len(s) + 1) : v[k] \in ArtifactIds
      BY <1>2, <2>5, <2>6, <3>1, <3>2
    <3>4. v = [k \in 1..(Len(s) + 1) |-> v[k]]
      BY <2>3
    <3> HIDE DEF v
    <3>5. QED
      BY <3>3, <3>4
  <2> HIDE DEF u, v, e, m
  <2>8. v = Append(u, e.id)
    <3>1. v \in Seq(ArtifactIds) /\ Len(v) = Len(s) + 1
      BY <1>7, <2>7
    <3>2. \A k \in 1..(Len(s) + 1) : k \in 1..Len(s) \/ k = Len(s) + 1
      BY <1>7
    <3>3. \A k \in 1..Len(v) : v[k] = Append(u, e.id)[k]
      BY <2>4, <2>5, <2>6, <3>1, <3>2
    <3>4. QED
      BY <2>4, <3>1, <3>3, SeqEqual
  <2>9. old \o Append(u, e.id) = Append(old \o u, e.id)
    <3>1. old \in Seq(ArtifactIds)
      BY DEF OldOK
    <3>2. QED
      BY <1>2, <1>8, <3>1, ConcatAppend
  <2>10. QED
    BY <1>6, <1>10, <2>8, <2>9 DEF new, e, m
<1>11. QED
  BY <1>9, <1>10

\* ... and it is added to what the artifact holds, or begins it anew.
LEMMA TextNext ==
  ASSUME NEW n \in Nat, NEW D, NEW old, n + 1 \notin D, Heard(n + 1),
         events[n + 1].kind = "artifact"
  PROVE  LET e == events[n + 1] IN
         /\ \A id : id # e.id => Text(n + 1, D, old, id) = Text(n, D, old, id)
         /\ Text(n + 1, D, old, e.id) =
              IF e.append THEN Text(n, D, old, e.id) \o <<n + 1>> ELSE <<n + 1>>
<1> DEFINE m == n + 1
           id == events[m].id
           append == events[m].append
<1>1. m \in Nat /\ m \in 1..m
  OBVIOUS
<1>2. id \in ArtifactIds /\ append \in BOOLEAN
  BY <1>1, ArtifactEventIs DEF Heard
<1>3. /\ \A x : x # id => Content(m, D, x) = Content(n, D, x) /\ Firsts(m, D, x) = Firsts(n, D, x)
      /\ Content(m, D, id) = IF append THEN Content(n, D, id) \union {m} ELSE {m}
      /\ Firsts(m, D, id) = IF append THEN Firsts(n, D, id) ELSE Firsts(n, D, id) \union {m}
  BY <1>2, ChunksNext
<1>4. \A x : m \notin Content(n, D, x)
  <2>1. m \notin 1..n
    OBVIOUS
  <2>2. QED
    BY <2>1, CountsIn
<1>5. \A x : x # id => InOrder(Content(m, D, x), m) = InOrder(Content(n, D, x), n)
  BY <1>3, <1>4, InOrderNext
<1>6. \A x : x # id => Text(m, D, old, x) = Text(n, D, old, x)
  BY <1>3, <1>5 DEF Text
<1>7. InOrder(Content(m, D, id), m) = Append(InOrder(Content(m, D, id), n), m)
  <2>1. m \in Content(m, D, id)
    BY <1>3
  <2>2. QED
    BY <2>1, InOrderNext
<1> DEFINE p == IF Firsts(n, D, id) = {} /\ \E k \in DOMAIN old : old[k] = id
                  THEN <<Earlier>> ELSE <<>>
           c == InOrder(Content(n, D, id), n)
<1>8. p \in Seq(Nat) /\ c \in Seq(Nat)
  BY InOrderRises DEF Earlier
<1>9. Text(n, D, old, id) = p \o c
  BY DEF Text
<1>10. CASE append
  <2>1. SameUpTo(Content(m, D, id), Content(n, D, id), n)
    BY <1>3, <1>10 DEF SameUpTo
  <2>2. InOrder(Content(m, D, id), n) = c
    BY <2>1, InOrderSame
  <2>3. Text(m, D, old, id) = p \o InOrder(Content(m, D, id), m)
    BY <1>3, <1>10 DEF Text
  <2> HIDE DEF p, c
  <2>4. Text(m, D, old, id) = p \o Append(c, m)
    BY <1>7, <2>2, <2>3
  <2>5. p \o Append(c, m) = Append(p \o c, m)
    BY <1>1, <1>8, ConcatAppend
  <2>6. Append(p \o c, m) = (p \o c) \o <<m>>
    <3>1. p \o c \in Seq(Nat)
      BY <1>8, ConcatProperties
    <3>2. QED
      BY <1>1, <3>1
  <2> HIDE DEF m, id, append
  <2>7. Text(m, D, old, id) = IF append THEN Text(n, D, old, id) \o <<m>> ELSE <<m>>
    BY <1>9, <1>10, <2>4, <2>5, <2>6
  <2>8. QED
    BY <1>6, <2>7 DEF m, id, append
<1>11. CASE ~append
  <2>1. \A i \in (0 + 1)..n : i \notin Content(m, D, id)
    BY <1>3, <1>11
  <2>2. InOrder(Content(m, D, id), n) = InOrder(Content(m, D, id), 0)
    BY <2>1, InOrderStops
  <2>3. Append(<<>>, m) = <<m>> /\ <<>> \o <<m>> = <<m>>
    BY <1>1
  <2>4. InOrder(Content(m, D, id), m) = <<m>>
    BY <1>7, <2>2, <2>3, InOrderNone
  <2>5. Firsts(m, D, id) # {}
    BY <1>3, <1>11
  <2>6. Text(m, D, old, id) = <<m>>
    BY <2>3, <2>4, <2>5 DEF Text
  <2> HIDE DEF m, id, append, p, c
  <2>7. Text(m, D, old, id) = IF append THEN Text(n, D, old, id) \o <<m>> ELSE <<m>>
    BY <1>11, <2>6
  <2>8. QED
    BY <1>6, <2>7 DEF m, id, append
<1>12. QED
  BY <1>2, <1>10, <1>11

\* The artifacts of the log take the chunk an artifact event brings.
LEMMA LogChunk ==
  ASSUME NEW n \in Nat, NEW D, NEW old, OldOK(old), n + 1 \notin D, Heard(n + 1),
         events[n + 1].kind = "artifact"
  PROVE  Chunked(LogArtifacts(n, D, old), LogArtifacts(n + 1, D, old), events[n + 1].id,
                 events[n + 1].append, <<n + 1>>)
<1> DEFINE m == n + 1
           id == events[m].id
           append == events[m].append
           A == LogArtifacts(n, D, old)
           B == LogArtifacts(m, D, old)
           k == Find(A, id)
           s == Ids(n, D, old)
           t == Ids(m, D, old)
           was(x) == Text(n, D, old, x)
           is(x) == Text(m, D, old, x)
<1>0. m \in Nat /\ m \in 1..m /\ Heard(n)
  BY DEF Heard
<1>1. id \in ArtifactIds /\ append \in BOOLEAN
  BY <1>0, ArtifactEventIs DEF Heard
<1>2. /\ \A x : x # id => is(x) = was(x)
      /\ is(id) = IF append THEN was(id) \o <<m>> ELSE <<m>>
  BY TextNext
<1>3. t = IF ~append /\ Firsts(n, D, id) = {} /\ ~Held(old, id) THEN Append(s, id) ELSE s
  BY IdsNext
<1>4. /\ A \in Seq(Values) /\ Len(A) = Len(s) /\ Len(s) \in Nat
      /\ \A j \in 1..Len(s) : A[j] = ArtifactOf(s[j], 0, was(s[j]))
  BY <1>0, LogArtifactsAre
<1>5. /\ B \in Seq(Values) /\ Len(B) = Len(t) /\ Len(t) \in Nat
      /\ \A j \in 1..Len(t) : B[j] = ArtifactOf(t[j], 0, is(t[j]))
  BY <1>0, LogArtifactsAre
<1>6. \/ k = 0 /\ Firsts(n, D, id) = {} /\ ~Held(old, id) /\ \A j \in 1..Len(A) : A[j].id # id
      \/ /\ k \in 1..Len(A) /\ (Firsts(n, D, id) # {} \/ Held(old, id))
         /\ A[k] = ArtifactOf(id, 0, was(id))
         /\ \A j \in 1..Len(A) : j # k => A[j].id # id
  BY <1>0, ArtifactPlace
<1>7. s \in Seq(ArtifactIds)
  BY <1>0, IdsAre
<1>8. ArtifactOf(id, 0, <<m>>) \in Values
  BY <1>0, <1>1 DEF ArtifactOf, Values
<1> HIDE DEF m, id, append, A, B, k, s, t, was, is
<1>9. ASSUME NEW j \in 1..Len(s), j \in 1..Len(t), A[j].id # id, t[j] = s[j] PROVE B[j] = A[j]
  <2>1. A[j] = ArtifactOf(s[j], 0, was(s[j])) /\ B[j] = ArtifactOf(s[j], 0, is(s[j]))
    BY <1>4, <1>5, <1>9
  <2>2. s[j] # id
    BY <1>9, <2>1 DEF ArtifactOf
  <2>3. QED
    BY <1>2, <2>1, <2>2
<1>10. CASE k = 0 /\ append
  <2>1. t = s
    BY <1>3, <1>10
  <2>2. \A j \in 1..Len(s) : B[j] = A[j]
    BY <1>4, <1>6, <1>9, <1>10, <2>1
  <2>3. B = A
    BY <1>4, <1>5, <2>1, <2>2, SeqEqual
  <2>4. Chunked(A, B, id, append, <<m>>)
    BY <1>10, <2>3 DEF Chunked, k
  <2>5. QED
    BY <2>4 DEF A, B, id, append, m
<1>11. CASE k = 0 /\ ~append
  <2> DEFINE x == ArtifactOf(id, 0, <<m>>)
             C == Append(A, x)
  <2>1. t = Append(s, id)
    BY <1>3, <1>6, <1>11
  <2>2. Len(t) = Len(s) + 1 /\ t[Len(s) + 1] = id /\ \A j \in 1..Len(s) : t[j] = s[j]
    BY <1>1, <1>7, <2>1, AppendProperties
  <2>3. C \in Seq(Values) /\ Len(C) = Len(A) + 1 /\ C[Len(A) + 1] = x
        /\ \A j \in 1..Len(A) : C[j] = A[j]
    BY <1>4, <1>8, AppendProperties
  <2> HIDE DEF C
  <2>4. ASSUME NEW j \in 1..Len(s) PROVE B[j] = C[j]
    <3>1. A[j].id # id /\ t[j] = s[j] /\ j \in 1..Len(t)
      BY <1>4, <1>6, <1>11, <2>2
    <3>2. QED
      BY <1>4, <1>9, <2>3, <3>1
  <2>5. B[Len(s) + 1] = C[Len(s) + 1]
    <3>1. Len(s) + 1 \in 1..Len(t)
      BY <1>4, <2>2
    <3>2. B[Len(s) + 1] = ArtifactOf(id, 0, is(id))
      BY <1>5, <2>2, <3>1
    <3>3. is(id) = <<m>>
      BY <1>2, <1>11
    <3>4. QED
      BY <1>4, <2>3, <3>2, <3>3
  <2>6. \A j \in 1..(Len(s) + 1) : j \in 1..Len(s) \/ j = Len(s) + 1
    BY <1>4
  <2>7. B = C
    <3>1. Len(B) = Len(s) + 1 /\ Len(C) = Len(s) + 1
      BY <1>4, <1>5, <2>2, <2>3
    <3>2. \A j \in 1..Len(B) : B[j] = C[j]
      BY <2>4, <2>5, <2>6, <3>1
    <3>3. QED
      BY <1>5, <2>3, <3>1, <3>2, SeqEqual
  <2>8. Chunked(A, B, id, append, <<m>>)
    BY <1>11, <2>7 DEF Chunked, k, C
  <2>9. QED
    BY <2>8 DEF A, B, id, append, m
<1>12. CASE k # 0
  <2>1. /\ k \in 1..Len(A) /\ (Firsts(n, D, id) # {} \/ Held(old, id))
        /\ A[k] = ArtifactOf(id, 0, was(id))
        /\ \A j \in 1..Len(A) : j # k => A[j].id # id
    BY <1>6, <1>12
  <2>2. t = s
    BY <1>3, <2>1
  <2>3. \A j \in 1..Len(A) : j # k => B[j] = A[j]
    BY <1>4, <1>9, <2>1, <2>2
  <2>4. B[k] = ArtifactOf(id, 0, IF append THEN A[k].parts \o <<m>> ELSE <<m>>)
    <3>1. s[k] = id
      <4>1. A[k] = ArtifactOf(s[k], 0, was(s[k])) /\ A[k] = ArtifactOf(id, 0, was(id))
        BY <1>4, <2>1
      <4>2. QED
        BY <4>1 DEF ArtifactOf
    <3>2. B[k] = ArtifactOf(id, 0, is(id))
      BY <1>4, <1>5, <2>1, <2>2, <3>1
    <3>3. A[k].parts = was(id)
      BY <2>1 DEF ArtifactOf
    <3>4. QED
      BY <1>2, <3>2, <3>3
  <2>5. Len(B) = Len(A)
    BY <1>4, <1>5, <2>2
  <2>6. Chunked(A, B, id, append, <<m>>)
    BY <1>5, <1>12, <2>3, <2>4, <2>5 DEF Chunked, k
  <2>7. QED
    BY <2>6 DEF A, B, id, append, m
<1>13. QED
  BY <1>1, <1>10, <1>11, <1>12

\* An artifact event changes the artifacts of the log and nothing else.
LEMMA LogArtifact ==
  ASSUME NEW n \in Nat, NEW D, n + 1 \notin D, events[n + 1].kind = "artifact"
  PROVE  Log(n + 1, D) =
           [state |-> Log(n, D).state, msg |-> Log(n, D).msg, history |-> Log(n, D).history,
            artifacts |-> LogArtifacts(n + 1, D, Old(n, D))]
<1> DEFINE m == n + 1
<1>1. /\ Tasks(m, D) = Tasks(n, D) /\ Counts(m, D) = Counts(n, D) \union {m}
      /\ m \notin Counts(n, D)
  BY CountsNext
<1>2. Spoken(m, D) = Spoken(n, D)
  BY <1>1 DEF Spoken
<1>3. /\ Latest(m, D) = Latest(n, D) /\ Replaced(m, D) = Replaced(n, D) /\ Start(m, D) = Start(n, D)
      /\ Old(m, D) = Old(n, D)
  BY <1>1, <1>2 DEF Latest, Replaced, Start, Old
<1>4. m \notin Replaced(n, D)
  BY <1>1 DEF Replaced, Spoken
<1>5. InOrder(Replaced(m, D), m) = InOrder(Replaced(n, D), n)
  BY <1>3, <1>4, InOrderNext
<1> HIDE DEF m
<1>6. Log(m, D) =
        [state |-> Log(n, D).state, msg |-> Log(n, D).msg, history |-> Log(n, D).history,
         artifacts |-> LogArtifacts(m, D, Old(n, D))]
  BY <1>3, <1>5, LogIs
<1>7. QED
  BY <1>6 DEF m

\* A Task as the agent made it.
First(i) == TaskOf("submitted", IF events[i].msg THEN i ELSE 0, <<UserMessage>>)

\* As long as none is begun, the artifacts are what earlier turns left.
LEMMA LogArtifactsNone ==
  ASSUME NEW n \in Nat, NEW D, NEW old, OldOK(old), Counts(n, D) = {}
  PROVE  LogArtifacts(n, D, old) = [k \in DOMAIN old |-> ArtifactOf(old[k], 0, <<Earlier>>)]
<1>1. /\ Openings(n, D, old) = {}
      /\ \A id : Content(n, D, id) = {} /\ Firsts(n, D, id) = {}
  BY DEF Openings, Content, Firsts, Chunks
<1>2. InOrder({}, n) = <<>>
  BY InOrderStops, InOrderNone
<1>3. Ids(n, D, old) = old
  <2>1. DOMAIN InOrder(Openings(n, D, old), n) = {}
    BY <1>1, <1>2
  <2>2. [k \in DOMAIN InOrder(Openings(n, D, old), n) |->
           events[InOrder(Openings(n, D, old), n)[k]].id] = <<>>
    BY <2>1
  <2>3. Ids(n, D, old) = old \o <<>>
    BY <2>2, Zenon DEF Ids
  <2>4. old \o <<>> = old
    BY ConcatEmptySeq DEF OldOK
  <2>5. QED
    BY <2>3, <2>4
<1>4. \A id : Held(old, id) => Text(n, D, old, id) = <<Earlier>>
  <2>1. <<Earlier>> \o <<>> = <<Earlier>>
    OBVIOUS
  <2>2. QED
    BY <1>1, <1>2, <2>1 DEF Text, Held
<1>5. \A k \in DOMAIN old : Held(old, old[k])
  BY DEF Held
<1>6. QED
  BY <1>3, <1>4, <1>5 DEF LogArtifacts

\* A Task object has begun none.
LEMMA LogArtifactsAfresh ==
  ASSUME NEW n \in Nat, NEW D, Openings(n, D, <<>>) = {}
  PROVE  LogArtifacts(n, D, <<>>) = <<>>
<1>1. InOrder({}, n) = <<>>
  BY InOrderStops, InOrderNone
<1>2. [k \in DOMAIN InOrder(Openings(n, D, <<>>), n) |->
         events[InOrder(Openings(n, D, <<>>), n)[k]].id] = <<>>
  BY <1>1
<1>3. Ids(n, D, <<>>) = <<>> \o <<>>
  BY <1>2, Zenon DEF Ids
<1>4. DOMAIN Ids(n, D, <<>>) = {}
  BY <1>3
<1>5. QED
  BY <1>4 DEF LogArtifacts

\* A Task event is the log from there on.
LEMMA LogTask ==
  ASSUME NEW n \in Nat, NEW D, n + 1 \notin D, events[n + 1].kind = "task"
  PROVE  Log(n + 1, D) = First(n + 1)
<1> DEFINE m == n + 1
<1>1. Tasks(m, D) # {} /\ Counts(m, D) = {m}
  BY CountsAfresh
<1>2. Spoken(m, D) = {m} /\ Openings(m, D, <<>>) = {}
  BY <1>1 DEF Spoken, Openings
<1>3. Latest(m, D) = m /\ m # 0
  BY <1>2, LatestNext
<1>4. Replaced(m, D) = {}
  BY <1>2, <1>3 DEF Replaced
<1>5. InOrder(Replaced(m, D), m) = <<>>
  <2>1. m \in Nat
    OBVIOUS
  <2>2. InOrder({}, m) = InOrder({}, 0)
    BY <2>1, InOrderStops
  <2>3. QED
    BY <1>4, <2>2, InOrderNone
<1>6. Old(m, D) = <<>> /\ LogArtifacts(m, D, <<>>) = <<>>
  <2>1. m \in Nat
    OBVIOUS
  <2>2. QED
    BY <1>1, <1>2, <2>1, LogArtifactsAfresh DEF Old
<1>7. Start(m, D) = Fresh("main")
  BY <1>1 DEF Start
<1>8. Start(m, D).history \o <<>> = <<UserMessage>> /\ Start(m, D).state = "submitted"
  <2>1. Start(m, D).history = <<UserMessage>> /\ Start(m, D).state = "submitted"
    BY <1>7 DEF Fresh, TaskOf
  <2>2. <<UserMessage>> \in Seq({UserMessage})
    OBVIOUS
  <2>3. QED
    BY <2>1, <2>2, ConcatEmptySeq
<1>9. events[m].kind # "status"
  OBVIOUS
<1> HIDE DEF m
<1>10. Log(m, D) =
         [state |-> "submitted", msg |-> IF events[m].msg THEN m ELSE 0,
          history |-> <<UserMessage>>, artifacts |-> <<>>]
  BY <1>3, <1>5, <1>6, <1>8, <1>9, LogIs
<1>11. QED
  BY <1>10 DEF m, First, TaskOf

\* An event that is lost changes nothing.
LEMMA LogLost ==
  ASSUME NEW n \in Nat, NEW D, n + 1 \in D
  PROVE  Log(n + 1, D) = Log(n, D)
<1> DEFINE m == n + 1
<1>1. Tasks(m, D) = Tasks(n, D) /\ Counts(m, D) = Counts(n, D) /\ m \notin Counts(n, D)
  BY CountsLost DEF Counts
<1>2. Spoken(m, D) = Spoken(n, D)
  BY <1>1 DEF Spoken
<1>3. /\ Latest(m, D) = Latest(n, D) /\ Replaced(m, D) = Replaced(n, D)
      /\ Start(m, D) = Start(n, D) /\ Old(m, D) = Old(n, D)
  BY <1>1, <1>2 DEF Latest, Replaced, Start, Old
<1>4. m \notin Replaced(n, D)
  BY <1>1 DEF Replaced, Spoken
<1>5. InOrder(Replaced(m, D), m) = InOrder(Replaced(n, D), n)
  BY <1>3, <1>4, InOrderNext
<1>6. \A id : Chunks(m, D, id) = Chunks(n, D, id) /\ Firsts(m, D, id) = Firsts(n, D, id)
  BY <1>1 DEF Chunks, Firsts
<1>7. (\A old : Openings(m, D, old) = Openings(n, D, old)) /\ \A id : Content(m, D, id) = Content(n, D, id)
  BY <1>1, <1>6 DEF Openings, Content
<1>8. LogArtifacts(m, D, Old(n, D)) = LogArtifacts(n, D, Old(n, D))
  BY <1>6, <1>7, LogArtifactsSame
<1> HIDE DEF m
<1>9. Log(m, D) = Log(n, D)
  BY <1>3, <1>5, <1>8, LogIs
<1>10. QED
  BY <1>9 DEF m

\* Before the first event, and when there is no other than the one that is lost,
\* the task is as it was made, or as the handler prepared it.
LEMMA LogBefore ==
  ASSUME NEW n \in {0, 1}, NEW D, n = 0 \/ 1 \in D, turn \in Turns
  PROVE  Log(n, D) = IF turn.new THEN Fresh("main") ELSE WithMessage(Asked, FollowUp)
<1>1. Log(0, D) = IF turn.new THEN Fresh("main") ELSE WithMessage(Asked, FollowUp)
  <2>1. 1..0 = {}
    OBVIOUS
  <2>2. Tasks(0, D) = {} /\ Spoken(0, D) = {} /\ Counts(0, D) = {}
    BY <2>1, CountsIn
  <2>3. Latest(0, D) = 0
    BY <2>2 DEF Latest
  <2>4. Old(0, D) = turn.kept /\ LogArtifacts(0, D, turn.kept) = Brought
    BY <2>2, LogArtifactsNone, OldIs DEF Old, Brought
  <2>5. Start(0, D) = IF turn.new THEN Fresh("main") ELSE WithMessage(Asked, FollowUp)
    BY <2>2 DEF Start
  <2>6. Start(0, D).history \o <<>> = Start(0, D).history
    BY StartIs, ConcatEmptySeq
  <2>7. Log(0, D) = [state |-> Start(0, D).state, msg |-> 0, history |-> Start(0, D).history,
                     artifacts |-> Brought]
    BY <2>3, <2>4, <2>6, InOrderNone, LogIs
  <2>8. CASE turn.new
    <3>1. Brought = <<>>
      BY <2>8, OldIs DEF Brought
    <3>2. Fresh("main") = [state |-> "submitted", msg |-> 0, history |-> <<UserMessage>>,
                           artifacts |-> <<>>]
      BY DEF Fresh, TaskOf
    <3>3. QED
      BY <2>5, <2>7, <2>8, <3>1, <3>2
  <2>9. CASE ~turn.new
    BY <2>5, <2>7, <2>9, PreparedIs
  <2>10. QED
    BY <2>8, <2>9
<1>2. CASE n = 0
  BY <1>1, <1>2
<1>3. CASE n = 1 /\ 1 \in D
  <2>1. Log(0 + 1, D) = Log(0, D)
    BY <1>3, LogLost
  <2>2. QED
    BY <1>1, <1>3, <2>1
<1>4. QED
  BY <1>2, <1>3

\* What is lost after the first n is of no account.
LEMMA LogSame ==
  ASSUME NEW n \in Nat, NEW D, NEW E, SameUpTo(D, E, n)
  PROVE  Log(n, D) = Log(n, E)
<1>1. (1..n) \ D = (1..n) \ E
  BY DEF SameUpTo
<1>2. Tasks(n, D) = Tasks(n, E) /\ Counts(n, D) = Counts(n, E)
  BY <1>1 DEF Tasks, Counts
<1>3. Spoken(n, D) = Spoken(n, E)
  BY <1>2 DEF Spoken
<1>4. /\ Latest(n, D) = Latest(n, E) /\ Replaced(n, D) = Replaced(n, E)
      /\ Start(n, D) = Start(n, E) /\ Old(n, D) = Old(n, E)
  BY <1>2, <1>3 DEF Latest, Replaced, Start, Old
<1>5. \A id : Chunks(n, D, id) = Chunks(n, E, id) /\ Firsts(n, D, id) = Firsts(n, E, id)
  BY <1>2 DEF Chunks, Firsts
<1>6. (\A old : Openings(n, D, old) = Openings(n, E, old)) /\ \A id : Content(n, D, id) = Content(n, E, id)
  BY <1>2, <1>5 DEF Openings, Content
<1>7. \A old : LogArtifacts(n, D, old) = LogArtifacts(n, E, old)
  <2>1. \A old, id : Text(n, D, old, id) = Text(n, E, old, id)
    BY <1>5, <1>6 DEF Text
  <2>2. \A old : Ids(n, D, old) = Ids(n, E, old)
    BY <1>6 DEF Ids
  <2>3. QED
    BY <2>1, <2>2 DEF LogArtifacts
<1>8. QED
  BY <1>4, <1>7, LogIs

\* The log is about the events there were: what the agent adds does not change it.
LEMMA LogStays ==
  ASSUME NEW n \in Nat, NEW D, turn' = turn, \A i \in 1..n : events'[i] = events[i]
  PROVE  /\ Log(n, D)' = Log(n, D)
         /\ \A old : LogArtifacts(n, D, old)' = LogArtifacts(n, D, old)
<1>1. Tasks(n, D)' = Tasks(n, D)
  BY DEF Tasks
<1>2. Counts(n, D)' = Counts(n, D)
  BY <1>1 DEF Counts
<1>3. Spoken(n, D)' = Spoken(n, D)
  BY <1>2 DEF Spoken, Counts
<1>4. Latest(n, D)' = Latest(n, D)
  BY <1>3 DEF Latest
<1>5. Replaced(n, D)' = Replaced(n, D)
  BY <1>3, <1>4 DEF Replaced, Spoken, Counts
<1>6. Start(n, D)' = Start(n, D) /\ Old(n, D)' = Old(n, D)
  BY <1>1 DEF Start, Old, Asked
<1>7. \A id : Chunks(n, D, id)' = Chunks(n, D, id) /\ Firsts(n, D, id)' = Firsts(n, D, id)
  <2>1. TAKE id
  <2>2. Chunks(n, D, id)' = Chunks(n, D, id)
    BY <1>2 DEF Chunks, Counts
  <2>3. QED
    BY <2>2 DEF Firsts, Chunks, Counts
<1>8. \A old : Openings(n, D, old)' = Openings(n, D, old)
  BY <1>2, <1>7 DEF Openings, Counts
<1>9. \A id : Content(n, D, id)' = Content(n, D, id)
  BY <1>7 DEF Content
<1>10. ASSUME NEW old PROVE LogArtifacts(n, D, old)' = LogArtifacts(n, D, old)
  <2> DEFINE s == InOrder(Openings(n, D, old), n)
  <2>1. s \in Seq(Nat) /\ Rising(s, Openings(n, D, old), n)
    BY InOrderRises
  <2>2. DOMAIN s = 1..Len(s)
    BY <2>1, LenProperties
  <2>3. \A k \in DOMAIN s : s[k] \in 1..n
    BY <2>1, <2>2 DEF Rising
  <2>4. s' = s
    BY <1>8
  <2>5. Ids(n, D, old) = old \o [k \in DOMAIN s |-> events[s[k]].id]
    BY DEF Ids
  <2>6. Ids(n, D, old)' = old \o [k \in DOMAIN s |-> events'[s[k]].id]
    BY <2>4 DEF Ids
  <2> HIDE DEF s
  <2>7. \A k \in DOMAIN s : events'[s[k]] = events[s[k]]
    BY <2>3
  <2>8. [k \in DOMAIN s |-> events'[s[k]].id] = [k \in DOMAIN s |-> events[s[k]].id]
    BY <2>7
  <2>9. Ids(n, D, old)' = Ids(n, D, old)
    BY <2>5, <2>6, <2>8
  <2>10. \A id : Text(n, D, old, id)' = Text(n, D, old, id)
    BY <1>7, <1>9 DEF Text
  <2>11. QED
    BY <2>9, <2>10 DEF LogArtifacts
<1>11. Latest(n, D) # 0 => events'[Latest(n, D)] = events[Latest(n, D)]
  BY LatestIs
<1> DEFINE l == Latest(n, D)
<1>12. Log(n, D)' =
         [state |-> IF l # 0 /\ events'[l].kind = "status" THEN events'[l].state
                    ELSE Start(n, D).state,
          msg |-> IF l # 0 /\ events'[l].msg THEN l ELSE 0,
          history |-> Start(n, D).history \o InOrder(Replaced(n, D), n),
          artifacts |-> LogArtifacts(n, D, Old(n, D))]
  <2>1. LogArtifacts(n, D, Old(n, D))' = LogArtifacts(n, D, Old(n, D))
    BY <1>6, <1>10
  <2>2. Log(n, D)' =
          [state |-> IF Latest(n, D)' # 0 /\ events'[Latest(n, D)'].kind = "status"
                       THEN events'[Latest(n, D)'].state ELSE Start(n, D)'.state,
           msg |-> IF Latest(n, D)' # 0 /\ events'[Latest(n, D)'].msg THEN Latest(n, D)' ELSE 0,
           history |-> Start(n, D)'.history \o InOrder(Replaced(n, D)', n),
           artifacts |-> LogArtifacts(n, D, Old(n, D))']
    BY DEF Log, Start, Old
  <2>3. QED
    BY <1>4, <1>5, <1>6, <2>1, <2>2
<1>13. QED
  BY <1>10, <1>11, <1>12, LogIs

-----------------------------------------------------------------------------
(* The tasks of the heap and their copies.                                 *)

Refs == [id : ArtifactIds, ref : 0..MaxEvents, parts : Seq(0..MaxEvents)]
PartsType == [1..MaxEvents -> Seq(0..MaxEvents)]
Worlds == [cur : [View -> Obj \union {None}], heap : [Obj -> TaskValues],
           shelf : Obj \union {None}, parts : PartsType]

\* The artifacts of a copy.
Copied(A, ps) == [k \in DOMAIN A |-> ArtifactOf(A[k].id, 0, PartsOf(A[k], ps))]
CopiedFrom(A, B, ps) ==
  /\ B \in Seq(Refs) /\ B \in Seq(Values) /\ Len(B) = Len(A)
  /\ \A k \in 1..Len(A) : B[k] = ArtifactOf(A[k].id, 0, PartsOf(A[k], ps))

\* A copy of artifacts has the parts that the originals stand for.
LEMMA CopiedIs ==
  ASSUME NEW A \in Seq(Refs), NEW ps \in PartsType
  PROVE  CopiedFrom(A, Copied(A, ps), ps)
<1>1. DOMAIN A = 1..Len(A) /\ Len(A) \in Nat
  BY LenProperties
<1>2. ASSUME NEW k \in 1..Len(A)
      PROVE  ArtifactOf(A[k].id, 0, PartsOf(A[k], ps)) \in Refs \intersect Values
  <2>1. A[k] \in Refs
    BY <1>2, ElementOfSeq
  <2>2. A[k].id \in ArtifactIds /\ A[k].ref \in 0..MaxEvents /\ A[k].parts \in Seq(0..MaxEvents)
    BY <2>1 DEF Refs
  <2>3. A[k].ref # 0 => ps[A[k].ref] \in Seq(0..MaxEvents)
    BY <2>2, TaskAssumption DEF PartsType
  <2>4. PartsOf(A[k], ps) \in Seq(0..MaxEvents)
    BY <2>2, <2>3 DEF PartsOf
  <2>5. \A s \in Seq(0..MaxEvents) : s \in Seq(Nat)
    <3>1. 0..MaxEvents \subseteq Nat
      BY TaskAssumption
    <3>2. QED
      BY <3>1, SeqMonotonic
  <2> DEFINE s == PartsOf(A[k], ps)
             id == A[k].id
  <2>6. s \in Seq(0..MaxEvents) /\ s \in Seq(Nat) /\ id \in ArtifactIds /\ 0 \in 0..MaxEvents
    BY <2>2, <2>4, <2>5, TaskAssumption
  <2> HIDE DEF s, id
  <2>7. ArtifactOf(id, 0, s) \in Refs \intersect Values
    BY <2>6 DEF ArtifactOf, Refs, Values
  <2>8. QED
    BY <2>7 DEF s, id
<1> DEFINE e(k) == ArtifactOf(A[k].id, 0, PartsOf(A[k], ps))
<1>3. Copied(A, ps) = [k \in 1..Len(A) |-> e(k)]
  BY <1>1 DEF Copied
<1>4. \A k \in 1..Len(A) : e(k) \in Refs /\ e(k) \in Values
  BY <1>2
<1> HIDE DEF e
<1>5. [k \in 1..Len(A) |-> e(k)] \in Seq(Refs) /\ [k \in 1..Len(A) |-> e(k)] \in Seq(Values)
  BY <1>1, <1>4
<1>6. Len([k \in 1..Len(A) |-> e(k)]) = Len(A)
  BY <1>1
<1>7. \A k \in 1..Len(A) : Copied(A, ps)[k] = e(k)
  BY <1>3
<1>8. QED
  BY <1>3, <1>5, <1>6, <1>7 DEF CopiedFrom, e

\* Parts that the artifacts do not refer to are of no account.
LEMMA CopiedSame ==
  ASSUME NEW A \in Seq(Refs), NEW ps, NEW qs,
         \A k \in 1..Len(A) : A[k].ref # 0 => ps[A[k].ref] = qs[A[k].ref]
  PROVE  Copied(A, ps) = Copied(A, qs)
<1>1. DOMAIN A = 1..Len(A)
  BY LenProperties
<1>2. \A k \in DOMAIN A : PartsOf(A[k], ps) = PartsOf(A[k], qs)
  BY <1>1 DEF PartsOf
<1>3. QED
  BY <1>2 DEF Copied

\* A copy, field by field.
LEMMA CopyIs ==
  ASSUME NEW t \in TaskValues, NEW ps
  PROVE  Copy(t, ps) = [state |-> t.state, msg |-> t.msg, history |-> t.history,
                        artifacts |-> Copied(t.artifacts, ps)]
<1> DEFINE C == Copied(t.artifacts, ps)
<1>1. Copy(t, ps) = [t EXCEPT !.artifacts = C]
  BY DEF Copy, Copied
<1> HIDE DEF C
<1>2. t \in [state : {t.state}, msg : {t.msg}, history : {t.history}, artifacts : {t.artifacts}]
  BY DEF TaskValues
<1>3. [t EXCEPT !.artifacts = C]
        \in [state : {t.state}, msg : {t.msg}, history : {t.history}, artifacts : {C}]
  BY <1>2
<1>4. [t EXCEPT !.artifacts = C] =
        [state |-> t.state, msg |-> t.msg, history |-> t.history, artifacts |-> C]
  BY <1>3, TaskIs
<1>5. QED
  BY <1>1, <1>4 DEF C

\* A copy is a task.
LEMMA CopyIn ==
  ASSUME NEW t \in TaskValues, NEW ps \in PartsType
  PROVE  Copy(t, ps) \in TaskValues
<1>1. t.artifacts \in Seq(Refs)
  BY DEF TaskValues, Refs
<1>2. Copied(t.artifacts, ps) \in Seq(Refs)
  BY <1>1, CopiedIs DEF CopiedFrom
<1> DEFINE C == Copied(t.artifacts, ps)
<1> HIDE DEF C
<1>3. C \in Seq([id : ArtifactIds, ref : 0..MaxEvents, parts : Seq(0..MaxEvents)])
  BY <1>2 DEF C, Refs
<1>4. [state |-> t.state, msg |-> t.msg, history |-> t.history, artifacts |-> C] \in TaskValues
  BY <1>3 DEF TaskValues
<1>5. QED
  BY <1>4, CopyIs DEF C

\* With other artifacts it is a task still.
LEMMA OtherArtifacts ==
  ASSUME NEW t \in TaskValues, NEW B \in Seq(Refs)
  PROVE  /\ [t EXCEPT !.artifacts = B] \in TaskValues
         /\ [t EXCEPT !.artifacts = B] =
              [state |-> t.state, msg |-> t.msg, history |-> t.history, artifacts |-> B]
<1>1. t \in [state : {t.state}, msg : {t.msg}, history : {t.history}, artifacts : {t.artifacts}]
  BY DEF TaskValues
<1>2. [t EXCEPT !.artifacts = B]
        \in [state : {t.state}, msg : {t.msg}, history : {t.history}, artifacts : {B}]
  BY <1>1
<1>3. [t EXCEPT !.artifacts = B] =
        [state |-> t.state, msg |-> t.msg, history |-> t.history, artifacts |-> B]
  BY <1>2, TaskIs
<1>4. B \in Seq([id : ArtifactIds, ref : 0..MaxEvents, parts : Seq(0..MaxEvents)])
  BY DEF Refs
<1>5. [state |-> t.state, msg |-> t.msg, history |-> t.history, artifacts |-> B] \in TaskValues
  BY <1>4 DEF TaskValues
<1>6. QED
  BY <1>3, <1>5

\* A status replaces that of a task, ...
LEMMA WithStatusIs ==
  ASSUME NEW t \in TaskValues, NEW i
  PROVE  WithStatus(t, i) =
           [state |-> events[i].state, msg |-> IF events[i].msg THEN i ELSE 0,
            history |-> IF t.msg = 0 THEN t.history ELSE Append(t.history, t.msg),
            artifacts |-> t.artifacts]
<1> DEFINE state == t.state
           msg == t.msg
           history == t.history
           artifacts == t.artifacts
<1>1. t = [state |-> state, msg |-> msg, history |-> history, artifacts |-> artifacts]
  BY DEF TaskValues
<1>2. ASSUME NEW a, NEW b, NEW c, NEW d, NEW r,
             r = [state |-> a, msg |-> b, history |-> c, artifacts |-> d]
      PROVE  WithStatus(r, i) \in
               [state : {events[i].state}, msg : {IF events[i].msg THEN i ELSE 0},
                history : {IF b = 0 THEN c ELSE Append(c, b)}, artifacts : {d}]
  BY <1>2 DEF WithStatus
<1>3. \A r : r = [state |-> state, msg |-> msg, history |-> history, artifacts |-> artifacts] =>
        WithStatus(r, i) \in
          [state : {events[i].state}, msg : {IF events[i].msg THEN i ELSE 0},
           history : {IF msg = 0 THEN history ELSE Append(history, msg)}, artifacts : {artifacts}]
  BY <1>2
<1>4. WithStatus(t, i) \in
          [state : {events[i].state}, msg : {IF events[i].msg THEN i ELSE 0},
           history : {IF msg = 0 THEN history ELSE Append(history, msg)}, artifacts : {artifacts}]
  BY <1>1, <1>3, Zenon
<1>5. QED
  BY <1>4, TaskIs

\* ... which is as true of its copy.
LEMMA StatusOfCopy ==
  ASSUME NEW t \in TaskValues, NEW ps \in PartsType, NEW i
  PROVE  Copy(WithStatus(t, i), ps) = WithStatus(Copy(t, ps), i)
<1> DEFINE w == WithStatus(t, i)
<1>1. w.artifacts = t.artifacts
  BY WithStatusIs
<1> DEFINE C == Copied(t.artifacts, ps)
<1>2. Copy(w, ps) = [w EXCEPT !.artifacts = C]
  BY <1>1 DEF Copy, Copied
<1>3. WithStatus(Copy(t, ps), i) =
        [state |-> events[i].state, msg |-> IF events[i].msg THEN i ELSE 0,
         history |-> IF t.msg = 0 THEN t.history ELSE Append(t.history, t.msg),
         artifacts |-> C]
  <2>1. Copy(t, ps) \in TaskValues
    BY CopyIn
  <2>2. Copy(t, ps).msg = t.msg /\ Copy(t, ps).history = t.history /\ Copy(t, ps).artifacts = C
    BY CopyIs
  <2> HIDE DEF C
  <2>3. QED
    BY <2>1, <2>2, WithStatusIs
<1> HIDE DEF C
<1> DEFINE history == IF t.msg = 0 THEN t.history ELSE Append(t.history, t.msg)
           msg == IF events[i].msg THEN i ELSE 0
           state == events[i].state
<1>4. w \in [state : {state}, msg : {msg}, history : {history}, artifacts : {t.artifacts}]
  BY WithStatusIs
<1> HIDE DEF w
<1>5. [w EXCEPT !.artifacts = C]
        \in [state : {state}, msg : {msg}, history : {history}, artifacts : {C}]
  BY <1>4
<1>6. [w EXCEPT !.artifacts = C] =
        [state |-> state, msg |-> msg, history |-> history, artifacts |-> C]
  BY <1>5, TaskIs
<1>7. QED
  BY <1>2, <1>3, <1>6 DEF w

\* What becomes of the artifacts A and the parts ps with artifact event i.
Taken(A, ps, B, qs, i) ==
  LET id == events[i].id
      k == Find(A, id)
      held == ArtifactOf(id, i, <<>>)
  IN IF ~events[i].append
       THEN qs = ps /\ B = IF k = 0 THEN Append(A, held) ELSE [A EXCEPT ![k] = held]
     ELSE IF k = 0 THEN qs = ps /\ B = A
     ELSE IF A[k].ref = 0
       THEN qs = ps /\ B = [A EXCEPT ![k] = ArtifactOf(id, 0, A[k].parts \o ps[i])]
     ELSE B = A /\ qs = [ps EXCEPT ![A[k].ref] = @ \o ps[i]]

\* The world with other artifacts for one object, and other parts.
WithArts(w, o, B, qs) ==
  [cur |-> w.cur, heap |-> [w.heap EXCEPT ![o] = [w.heap[o] EXCEPT !.artifacts = B]],
   shelf |-> w.shelf, parts |-> qs]

\* One object changes, and the parts.
LEMMA WithArtifactIs ==
  ASSUME NEW w \in Worlds, NEW o \in Obj, NEW i
  PROVE  \E B, qs :
           /\ Taken(w.heap[o].artifacts, w.parts, B, qs, i)
           /\ WithArtifact(w, o, i) = WithArts(w, o, B, qs)
<1> DEFINE h == w.heap
           ps == w.parts
           t == h[o]
           A == t.artifacts
           id == events[i].id
           k == Find(A, id)
           held == ArtifactOf(id, i, <<>>)
           With(B, qs) == WithArts(w, o, B, qs)
<1>1. h \in [Obj -> TaskValues] /\ t \in TaskValues /\ A \in Seq(Refs)
  BY DEF Worlds, TaskValues, Refs
<1>2. w \in [cur : {w.cur}, heap : {h}, shelf : {w.shelf}, parts : {ps}]
  BY DEF Worlds
<1>3. ASSUME NEW H PROVE [w EXCEPT !.heap = H] = [cur |-> w.cur, heap |-> H, shelf |-> w.shelf,
                                                 parts |-> ps]
  BY <1>2
<1>4. ASSUME NEW qs PROVE [w EXCEPT !.parts = qs] = [cur |-> w.cur, heap |-> h, shelf |-> w.shelf,
                                                  parts |-> qs]
  BY <1>2
<1>5. [t EXCEPT !.artifacts = A] = t /\ [h EXCEPT ![o] = t] = h
  BY <1>1 DEF TaskValues
<1>6. ASSUME NEW qs PROVE With(A, qs) = [cur |-> w.cur, heap |-> h, shelf |-> w.shelf, parts |-> qs]
  BY <1>5 DEF WithArts
<1>7. ASSUME NEW B PROVE [w EXCEPT !.heap[o].artifacts = B] = With(B, ps)
  <2>1. [w EXCEPT !.heap[o].artifacts = B] =
          [w EXCEPT !.heap = [h EXCEPT ![o] = [t EXCEPT !.artifacts = B]]]
    OBVIOUS
  <2>2. QED
    BY <1>3, <2>1 DEF WithArts
<1>8. w = With(A, ps)
  <2>1. w = [cur |-> w.cur, heap |-> h, shelf |-> w.shelf, parts |-> ps]
    BY <1>2
  <2>2. QED
    BY <1>6, <2>1
<1>9. CASE ~events[i].append /\ k = 0
  <2>1. WithArtifact(w, o, i) = [w EXCEPT !.heap[o].artifacts = Append(@, held)]
    BY <1>9 DEF WithArtifact
  <2>2. [w EXCEPT !.heap[o].artifacts = Append(@, held)] =
        [w EXCEPT !.heap[o].artifacts = Append(A, held)]
    OBVIOUS
  <2>3. WithArtifact(w, o, i) = With(Append(A, held), ps)
    BY <1>7, <2>1, <2>2
  <2>4. Taken(A, ps, Append(A, held), ps, i)
    BY <1>9 DEF Taken
  <2>5. QED
    BY <2>3, <2>4
<1>10. CASE ~events[i].append /\ k # 0
  <2>1. WithArtifact(w, o, i) = [w EXCEPT !.heap[o].artifacts[k] = held]
    BY <1>10 DEF WithArtifact
  <2>2. [w EXCEPT !.heap[o].artifacts[k] = held] =
        [w EXCEPT !.heap[o].artifacts = [A EXCEPT ![k] = held]]
    OBVIOUS
  <2>3. WithArtifact(w, o, i) = With([A EXCEPT ![k] = held], ps)
    BY <1>7, <2>1, <2>2
  <2>4. Taken(A, ps, [A EXCEPT ![k] = held], ps, i)
    BY <1>10 DEF Taken
  <2>5. QED
    BY <2>3, <2>4
<1>11. CASE events[i].append /\ k = 0
  <2>1. WithArtifact(w, o, i) = w
    BY <1>11 DEF WithArtifact
  <2>2. Taken(A, ps, A, ps, i)
    BY <1>11 DEF Taken
  <2>3. QED
    BY <1>8, <2>1, <2>2
<1>12. CASE events[i].append /\ k # 0 /\ A[k].ref = 0
  <2> DEFINE a == ArtifactOf(id, 0, A[k].parts \o ps[i])
  <2>1. WithArtifact(w, o, i) = [w EXCEPT !.heap[o].artifacts[k].parts = @ \o w.parts[i]]
    BY <1>12 DEF WithArtifact
  <2>2. [w EXCEPT !.heap[o].artifacts[k].parts = @ \o w.parts[i]] =
        [w EXCEPT !.heap[o].artifacts =
           [A EXCEPT ![k] = [A[k] EXCEPT !.parts = A[k].parts \o ps[i]]]]
    OBVIOUS
  <2>3. [A[k] EXCEPT !.parts = A[k].parts \o ps[i]] = a
    <3> DEFINE x == A[k]
               q == A[k].parts \o ps[i]
    <3>1. x \in [id : {id}, ref : {0}, parts : {x.parts}]
      <4>1. k \in 1..Len(A) /\ x.id = id
        BY <1>1, <1>12, FindIs
      <4>2. x \in Refs
        BY <1>1, <4>1, ElementOfSeq
      <4>3. QED
        BY <1>12, <4>1, <4>2 DEF Refs
    <3> HIDE DEF x, q
    <3>2. [x EXCEPT !.parts = q] \in [id : {id}, ref : {0}, parts : {q}]
      BY <3>1
    <3>3. ArtifactOf(id, 0, q) \in [id : {id}, ref : {0}, parts : {q}]
      BY DEF ArtifactOf
    <3>4. [x EXCEPT !.parts = q] = ArtifactOf(id, 0, q)
      BY <3>2, <3>3
    <3>5. QED
      BY <3>4 DEF x, q
  <2>4. WithArtifact(w, o, i) = With([A EXCEPT ![k] = a], ps)
    BY <1>7, <2>1, <2>2, <2>3
  <2>5. Taken(A, ps, [A EXCEPT ![k] = a], ps, i)
    BY <1>12 DEF Taken
  <2>6. QED
    BY <2>4, <2>5
<1>13. CASE events[i].append /\ k # 0 /\ A[k].ref # 0
  <2> DEFINE qs == [ps EXCEPT ![A[k].ref] = @ \o ps[i]]
  <2>1. WithArtifact(w, o, i) = [w EXCEPT !.parts[A[k].ref] = @ \o w.parts[i]]
    BY <1>13 DEF WithArtifact
  <2>2. [w EXCEPT !.parts[A[k].ref] = @ \o w.parts[i]] = [w EXCEPT !.parts = qs]
    OBVIOUS
  <2>3. WithArtifact(w, o, i) = With(A, qs)
    BY <1>4, <1>6, <2>1, <2>2
  <2>4. Taken(A, ps, A, qs, i)
    BY <1>13 DEF Taken
  <2>5. QED
    BY <2>3, <2>4
<1>14. QED
  BY <1>9, <1>10, <1>11, <1>12, <1>13

\* Artifacts and parts keep their shape, and only the parts of an event that A
\* refers to may change.
LEMMA TakenIn ==
  ASSUME NEW A \in Seq(Refs), NEW ps \in PartsType, NEW B, NEW qs, NEW i \in 1..MaxEvents,
         events[i].id \in ArtifactIds, Taken(A, ps, B, qs, i)
  PROVE  /\ B \in Seq(Refs) /\ qs \in PartsType
         /\ \A r \in 1..MaxEvents : (\A k \in 1..Len(A) : A[k].ref # r) => qs[r] = ps[r]
<1> DEFINE id == events[i].id
           k == Find(A, id)
           held == ArtifactOf(id, i, <<>>)
<1>1. k = 0 \/ k \in 1..Len(A)
  BY FindIs
<1>2. held \in Refs
  <2>1. <<>> \in Seq(0..MaxEvents)
    OBVIOUS
  <2>2. QED
    BY <2>1 DEF ArtifactOf, Refs
<1>3. ps[i] \in Seq(0..MaxEvents)
  BY DEF PartsType
<1>4. k \in 1..Len(A) => /\ A[k] \in Refs /\ A[k].parts \in Seq(0..MaxEvents)
                         /\ A[k].ref \in 0..MaxEvents
  <2>1. k \in 1..Len(A) => A[k] \in Refs
    BY ElementOfSeq
  <2> DEFINE a == A[k]
  <2> HIDE DEF a
  <2>2. a \in Refs => a.parts \in Seq(0..MaxEvents) /\ a.ref \in 0..MaxEvents
    BY DEF Refs
  <2>3. QED
    BY <2>1, <2>2 DEF a
<1>5. k \in 1..Len(A) => ArtifactOf(id, 0, A[k].parts \o ps[i]) \in Refs
  <2>1. \A s \in Seq(0..MaxEvents) : ArtifactOf(id, 0, s) \in Refs
    BY TaskAssumption DEF ArtifactOf, Refs
  <2>2. \A s, t \in Seq(0..MaxEvents) : s \o t \in Seq(0..MaxEvents)
    BY ConcatProperties
  <2>3. QED
    BY <1>3, <1>4, <2>1, <2>2
<1>6. CASE ~events[i].append
  <2>1. qs = ps /\ B = IF k = 0 THEN Append(A, held) ELSE [A EXCEPT ![k] = held]
    BY <1>6 DEF Taken
  <2> HIDE DEF k, held
  <2>2. B \in Seq(Refs)
    BY <1>1, <1>2, <2>1, AppendProperties, ExceptSeq
  <2>3. QED
    BY <2>1, <2>2
<1>7. CASE events[i].append /\ k = 0
  BY <1>7 DEF Taken
<1>8. CASE events[i].append /\ k \in 1..Len(A) /\ k # 0 /\ A[k].ref = 0
  <2>1. qs = ps /\ B = [A EXCEPT ![k] = ArtifactOf(id, 0, A[k].parts \o ps[i])]
    BY <1>8 DEF Taken
  <2> HIDE DEF k
  <2>2. B \in Seq(Refs)
    BY <1>5, <1>8, <2>1, ExceptSeq
  <2>3. QED
    BY <2>1, <2>2
<1>9. CASE events[i].append /\ k \in 1..Len(A) /\ k # 0 /\ A[k].ref # 0
  <2> DEFINE r == A[k].ref
  <2>1. B = A /\ qs = [ps EXCEPT ![r] = ps[r] \o ps[i]]
    BY <1>9 DEF Taken
  <2>2. r \in 1..MaxEvents
    BY <1>4, <1>9, TaskAssumption
  <2>3. ps[r] \o ps[i] \in Seq(0..MaxEvents)
    BY <1>3, <2>2 DEF PartsType
  <2>4. qs \in PartsType /\ \A s \in 1..MaxEvents : s # r => qs[s] = ps[s]
    BY <2>1, <2>2, <2>3 DEF PartsType
  <2>5. \A s \in 1..MaxEvents : (\A j \in 1..Len(A) : A[j].ref # s) => s # r
    BY <1>9
  <2> HIDE DEF r, k
  <2>6. QED
    BY <2>1, <2>4, <2>5
<1>10. k \in 1..Len(A) => k # 0
  OBVIOUS
<1>11. QED
  BY <1>1, <1>6, <1>7, <1>8, <1>9, <1>10

\* An artifact is there once, and is its own or the object of an earlier event
\* about it.
Distinct(A) == \A k, l \in 1..Len(A) : A[k].id = A[l].id => k = l
Refers(a, n) ==
  a.ref # 0 => a.ref \in 1..n /\ events[a.ref].kind = "artifact" /\ events[a.ref].id = a.id
SoundTo(A, n) == Distinct(A) /\ \A k \in 1..Len(A) : Refers(A[k], n)

\* An artifact, field by field.
LEMMA ArtifactFields ==
  ASSUME NEW id, NEW ref, NEW own
  PROVE  /\ ArtifactOf(id, ref, own).id = id /\ ArtifactOf(id, ref, own).ref = ref
         /\ ArtifactOf(id, ref, own).parts = own
BY DEF ArtifactOf

\* What refers to the first n events refers to more.
LEMMA SoundLater ==
  ASSUME NEW A, NEW n \in Nat, NEW m \in Nat, n <= m, SoundTo(A, n)
  PROVE  SoundTo(A, m)
<1>1. \A r \in 1..n : r \in 1..m
  OBVIOUS
<1>2. QED
  BY <1>1 DEF SoundTo, Refers

\* The copy has the artifact where the original has it.
LEMMA FindCopied ==
  ASSUME NEW A \in Seq(Refs), NEW C, NEW ps, CopiedFrom(A, C, ps), Distinct(A), NEW id
  PROVE  Find(C, id) = Find(A, id)
<1>1. Len(C) = Len(A) /\ C \in Seq(Refs) /\ \A k \in 1..Len(A) : C[k].id = A[k].id
  BY ArtifactFields DEF CopiedFrom
<1>2. \/ Find(A, id) = 0 /\ \A k \in 1..Len(A) : A[k].id # id
      \/ Find(A, id) \in 1..Len(A) /\ A[Find(A, id)].id = id
  BY FindIs
<1>3. \/ Find(C, id) = 0 /\ \A k \in 1..Len(A) : C[k].id # id
      \/ Find(C, id) \in 1..Len(A) /\ C[Find(C, id)].id = id
  BY <1>1, FindIs
<1>4. QED
  BY <1>1, <1>2, <1>3 DEF Distinct

\* Where one element is replaced by one of the same id.
LEMMA DistinctReplaced ==
  ASSUME NEW A \in Seq(Refs), NEW k \in 1..Len(A), NEW a \in Refs, a.id = A[k].id, NEW n \in Nat,
         NEW m \in Nat, n <= m, SoundTo(A, n), Refers(a, m)
  PROVE  SoundTo([A EXCEPT ![k] = a], m)
<1> DEFINE B == [A EXCEPT ![k] = a]
<1>1. Len(B) = Len(A) /\ \A j \in 1..Len(A) : B[j] = IF j = k THEN a ELSE A[j]
  BY ExceptSeq
<1>2. \A j \in 1..Len(A) : B[j].id = A[j].id
  BY <1>1
<1>3. \A j \in 1..Len(A) : Refers(B[j], m)
  BY <1>1 DEF SoundTo, Refers
<1> HIDE DEF B
<1>4. Distinct(B)
  BY <1>1, <1>2 DEF SoundTo, Distinct
<1>5. QED
  BY <1>1, <1>3, <1>4 DEF SoundTo, B

\* Where one more is added.
LEMMA DistinctAppended ==
  ASSUME NEW A \in Seq(Refs), NEW a \in Refs, \A k \in 1..Len(A) : A[k].id # a.id, NEW n \in Nat,
         NEW m \in Nat, n <= m, SoundTo(A, n), Refers(a, m)
  PROVE  SoundTo(Append(A, a), m)
<1> DEFINE B == Append(A, a)
<1>1. /\ Len(B) = Len(A) + 1 /\ Len(A) \in Nat /\ B[Len(A) + 1] = a
      /\ \A j \in 1..Len(A) : B[j] = A[j]
  BY LenProperties, AppendProperties
<1>2. \A j \in 1..(Len(A) + 1) : j \in 1..Len(A) \/ j = Len(A) + 1
  BY <1>1
<1> HIDE DEF B
<1>3. \A j \in 1..Len(A) : Refers(A[j], m)
  BY DEF SoundTo, Refers
<1>4. \A j \in 1..Len(B) : Refers(B[j], m)
  BY <1>1, <1>2, <1>3
<1>5. Distinct(B)
  <2>1. ASSUME NEW j \in 1..Len(B), NEW l \in 1..Len(B), B[j].id = B[l].id PROVE j = l
    <3>1. CASE j \in 1..Len(A) /\ l \in 1..Len(A)
      BY <1>1, <2>1, <3>1 DEF SoundTo, Distinct
    <3>2. CASE j = Len(A) + 1
      BY <1>1, <1>2, <2>1, <3>2
    <3>3. CASE l = Len(A) + 1
      BY <1>1, <1>2, <2>1, <3>3
    <3>4. QED
      BY <1>1, <1>2, <3>1, <3>2, <3>3
  <2>2. QED
    BY <2>1 DEF Distinct
<1>6. QED
  BY <1>4, <1>5 DEF SoundTo, B

\* What an artifact event does to the artifacts of an object, and to the parts
\* they share with events, is what it does to their values.
LEMMA TakenMeans ==
  ASSUME NEW n \in Nat, n + 1 \in 1..MaxEvents, events[n + 1].kind = "artifact",
         events[n + 1].id \in ArtifactIds, events[n + 1].append \in BOOLEAN,
         NEW A \in Seq(Refs), NEW ps \in PartsType, NEW B, NEW qs, SoundTo(A, n),
         ps[n + 1] = <<n + 1>>, Taken(A, ps, B, qs, n + 1)
  PROVE  /\ SoundTo(B, n + 1)
         /\ Chunked(Copied(A, ps), Copied(B, qs), events[n + 1].id, events[n + 1].append, <<n + 1>>)
<1> DEFINE m == n + 1
           id == events[m].id
           append == events[m].append
           k == Find(A, id)
           held == ArtifactOf(id, m, <<>>)
           C == Copied(A, ps)
           E == Copied(B, qs)
<1>1. m \in 1..MaxEvents /\ m \in Nat /\ n <= m /\ m # 0
  OBVIOUS
<1>2. B \in Seq(Refs) /\ qs \in PartsType
  BY TakenIn
<1>3. CopiedFrom(A, C, ps)
  BY CopiedIs
<1>4. CopiedFrom(B, E, qs)
  BY <1>2, CopiedIs
<1>5. Find(C, id) = k
  BY <1>3, FindCopied DEF SoundTo
<1>6. \/ k = 0 /\ \A j \in 1..Len(A) : A[j].id # id
      \/ k \in 1..Len(A) /\ A[k].id = id
  BY FindIs
<1>7. /\ held \in Refs /\ held.id = id /\ Refers(held, m)
      /\ PartsOf(held, ps) = <<m>>
  <2>1. <<>> \in Seq(0..MaxEvents)
    OBVIOUS
  <2>2. held.id = id /\ held.ref = m
    BY DEF ArtifactOf
  <2>3. held \in Refs
    BY <1>1, <2>1 DEF ArtifactOf, Refs
  <2>4. PartsOf(held, ps) = ps[m]
    BY <1>1, <2>2 DEF PartsOf
  <2>5. m \in 1..m
    BY <1>1
  <2>6. QED
    BY <2>2, <2>3, <2>4, <2>5 DEF Refers
<1>8. /\ C \in Seq(Values) /\ Len(C) = Len(A) /\ Len(A) \in Nat
      /\ \A j \in 1..Len(A) : C[j] = ArtifactOf(A[j].id, 0, PartsOf(A[j], ps))
  BY <1>3, LenProperties DEF CopiedFrom
<1>9. /\ E \in Seq(Values) /\ Len(E) = Len(B)
      /\ \A j \in 1..Len(B) : E[j] = ArtifactOf(B[j].id, 0, PartsOf(B[j], qs))
  BY <1>4 DEF CopiedFrom
<1>10. <<m>> \in Seq(Nat) /\ ps[m] = <<m>>
  BY <1>1
<1>11. CASE ~append /\ k = 0
  <2>1. qs = ps /\ B = Append(A, held)
    BY <1>11 DEF Taken
  <2> HIDE DEF held, C, E, k, id, append
  <2>2. SoundTo(B, m)
    BY <1>1, <1>6, <1>7, <1>11, <2>1, DistinctAppended
  <2>3. ArtifactOf(id, 0, <<m>>) \in Values
    BY <1>10 DEF ArtifactOf, Values, id
  <2> DEFINE F == Append(C, ArtifactOf(id, 0, <<m>>))
  <2>4. /\ F \in Seq(Values) /\ Len(F) = Len(C) + 1 /\ F[Len(C) + 1] = ArtifactOf(id, 0, <<m>>)
        /\ \A j \in 1..Len(C) : F[j] = C[j]
    BY <1>8, <2>3, AppendProperties
  <2>5. /\ Len(B) = Len(A) + 1 /\ B[Len(A) + 1] = held
        /\ \A j \in 1..Len(A) : B[j] = A[j]
    BY <1>7, <2>1, AppendProperties
  <2> HIDE DEF F, m
  <2>6. \A j \in 1..Len(E) : E[j] = F[j]
    <3>1. TAKE j \in 1..Len(E)
    <3>2. j \in 1..Len(B) /\ (j \in 1..Len(A) \/ j = Len(A) + 1)
      BY <1>8, <1>9, <2>5
    <3>3. CASE j \in 1..Len(A)
      BY <1>8, <1>9, <2>1, <2>4, <2>5, <3>2, <3>3
    <3>4. CASE j = Len(A) + 1
      BY <1>7, <1>8, <1>9, <2>1, <2>4, <2>5, <3>2, <3>4
    <3>5. QED
      BY <3>2, <3>3, <3>4
  <2>7. E = F
    BY <1>8, <1>9, <2>4, <2>5, <2>6, SeqEqual
  <2>8. Chunked(C, E, id, append, <<m>>)
    BY <1>5, <1>11, <2>7 DEF Chunked, F
  <2>9. QED
    BY <2>2, <2>8 DEF C, E, id, append, m
<1>12. CASE ~append /\ k # 0
  <2>1. qs = ps /\ B = [A EXCEPT ![k] = held]
    BY <1>12 DEF Taken
  <2> HIDE DEF held, C, E, k, id, append
  <2>2. k \in 1..Len(A) /\ A[k].id = id
    BY <1>6, <1>12
  <2>3. SoundTo(B, m)
    BY <1>1, <1>7, <2>1, <2>2, DistinctReplaced
  <2>4. Len(B) = Len(A) /\ \A j \in 1..Len(A) : B[j] = IF j = k THEN held ELSE A[j]
    BY <1>7, <2>1, <2>2, ExceptSeq
  <2>5. E[k] = ArtifactOf(id, 0, <<m>>)
    BY <1>7, <1>9, <2>1, <2>2, <2>4
  <2>6. \A j \in 1..Len(A) : j # k => E[j] = C[j]
    BY <1>8, <1>9, <2>1, <2>4
  <2> HIDE DEF m
  <2>7. Chunked(C, E, id, append, <<m>>)
    BY <1>5, <1>8, <1>9, <1>12, <2>4, <2>5, <2>6 DEF Chunked
  <2>8. QED
    BY <2>3, <2>7 DEF C, E, id, append, m
<1>13. CASE append /\ k = 0
  <2>1. qs = ps /\ B = A
    BY <1>13 DEF Taken
  <2>2. SoundTo(B, m)
    BY <1>1, <2>1, SoundLater
  <2>3. C = E
    BY <2>1
  <2> HIDE DEF C, E, k, id, append, m
  <2>4. Chunked(C, E, id, append, <<m>>)
    BY <1>5, <1>13, <2>3 DEF Chunked
  <2>5. QED
    BY <2>2, <2>4 DEF C, E, id, append, m
<1>14. CASE append /\ k # 0 /\ A[k].ref = 0
  <2> DEFINE a == ArtifactOf(id, 0, A[k].parts \o <<m>>)
  <2>1. qs = ps /\ B = [A EXCEPT ![k] = a]
    BY <1>10, <1>14 DEF Taken
  <2>2. k \in 1..Len(A) /\ A[k].id = id
    BY <1>6, <1>14
  <2>3. a \in Refs /\ a.id = id /\ a.ref = 0
    <3>1. A[k] \in Refs
      BY <2>2, ElementOfSeq
    <3> DEFINE p == A[k].parts
               q == p \o <<m>>
    <3>2. p \in Seq(0..MaxEvents)
      BY <3>1 DEF Refs
    <3> HIDE DEF p
    <3>3. q \in Seq(0..MaxEvents)
      BY <1>1, <3>2
    <3> HIDE DEF q
    <3>4. 0 \in 0..MaxEvents
      BY TaskAssumption
    <3>5. ArtifactOf(id, 0, q) \in Refs
      BY <3>3, <3>4 DEF Refs, ArtifactOf
    <3>6. QED
      BY <3>5 DEF p, q, ArtifactOf
  <2>4. PartsOf(a, ps) = A[k].parts \o <<m>> /\ PartsOf(A[k], ps) = A[k].parts
    BY <1>14, <2>3 DEF PartsOf, ArtifactOf
  <2>5. Refers(a, m)
    BY <2>3 DEF Refers
  <2> HIDE DEF a, C, E, k, id, append
  <2>6. SoundTo(B, m)
    BY <1>1, <2>1, <2>2, <2>3, <2>5, DistinctReplaced
  <2>7. Len(B) = Len(A) /\ \A j \in 1..Len(A) : B[j] = IF j = k THEN a ELSE A[j]
    BY <2>1, <2>2, <2>3, ExceptSeq
  <2>8. C[k].parts = A[k].parts
    BY <1>8, <2>2, <2>4, ArtifactFields
  <2>9. E[k] = ArtifactOf(id, 0, C[k].parts \o <<m>>)
    <3>1. k \in 1..Len(B) /\ B[k] = a
      BY <2>2, <2>7
    <3>2. E[k] = ArtifactOf(a.id, 0, PartsOf(a, ps))
      BY <1>9, <2>1, <3>1
    <3>3. QED
      BY <2>3, <2>4, <2>8, <3>2
  <2>10. \A j \in 1..Len(A) : j # k => E[j] = C[j]
    BY <1>8, <1>9, <2>1, <2>7
  <2> HIDE DEF m
  <2>11. Chunked(C, E, id, append, <<m>>)
    BY <1>5, <1>8, <1>9, <1>14, <2>7, <2>9, <2>10 DEF Chunked
  <2>12. QED
    BY <2>6, <2>11 DEF C, E, id, append, m
<1>15. CASE append /\ k # 0 /\ A[k].ref # 0
  <2> DEFINE r == A[k].ref
  <2>1. B = A /\ qs = [ps EXCEPT ![r] = ps[r] \o <<m>>]
    BY <1>10, <1>15 DEF Taken
  <2>2. k \in 1..Len(A) /\ A[k].id = id
    BY <1>6, <1>15
  <2>3. r \in 1..n /\ r \in 1..MaxEvents
    <3>1. Refers(A[k], n)
      BY <2>2 DEF SoundTo
    <3>2. r \in 1..n
      BY <1>15, <3>1 DEF Refers
    <3> HIDE DEF r
    <3>3. QED
      BY <1>1, <3>2, TaskAssumption
  <2>4. \A j \in 1..Len(A) : j # k => A[j].ref # r
    BY <1>15, <2>2 DEF SoundTo, Refers, Distinct
  <2>5. qs[r] = ps[r] \o <<m>> /\ \A s \in 1..MaxEvents : s # r => qs[s] = ps[s]
    BY <2>1, <2>3 DEF PartsType
  <2>6. SoundTo(B, m)
    BY <1>1, <2>1, SoundLater
  <2>7. PartsOf(A[k], qs) = PartsOf(A[k], ps) \o <<m>>
    BY <1>15, <2>5 DEF PartsOf
  <2>8. \A j \in 1..Len(A) : j # k => PartsOf(A[j], qs) = PartsOf(A[j], ps)
    <3>1. TAKE j \in 1..Len(A)
    <3>2. A[j] \in Refs
      BY ElementOfSeq
    <3>3. A[j].ref # 0 => A[j].ref \in 1..MaxEvents
      BY <3>2, TaskAssumption DEF Refs
    <3>4. QED
      BY <2>4, <2>5, <3>3 DEF PartsOf
  <2> HIDE DEF r, C, E, k, id, append
  <2>9. C[k].parts = PartsOf(A[k], ps)
    BY <1>8, <2>2, ArtifactFields
  <2>10. E[k] = ArtifactOf(id, 0, C[k].parts \o <<m>>)
    BY <1>9, <2>1, <2>2, <2>7, <2>9
  <2>11. \A j \in 1..Len(A) : j # k => E[j] = C[j]
    BY <1>8, <1>9, <2>1, <2>8
  <2> HIDE DEF m
  <2>12. Chunked(C, E, id, append, <<m>>)
    BY <1>5, <1>8, <1>9, <1>15, <2>1, <2>10, <2>11 DEF Chunked
  <2>13. QED
    BY <2>6, <2>12 DEF C, E, id, append, m
<1>16. QED
  BY <1>11, <1>12, <1>13, <1>14, <1>15

\* What a status event is.
LEMMA StatusEventIs ==
  ASSUME NEW e \in TaskEvents, e.kind = "status"
  PROVE  e.state \in {Working, Completed} /\ e.msg \in BOOLEAN
<1>1. e \in StatusEvents
  BY DEF TaskEvents, ArtifactEvents, OtherEvents
<1>2. QED
  BY <1>1 DEF StatusEvents

\* A task with a status is a task.
LEMMA WithStatusIn ==
  ASSUME NEW t \in TaskValues, NEW i \in 1..MaxEvents, events[i] \in TaskEvents,
         events[i].kind = "status"
  PROVE  WithStatus(t, i) \in TaskValues
<1> DEFINE msg == IF events[i].msg THEN i ELSE 0
           history == IF t.msg = 0 THEN t.history ELSE Append(t.history, t.msg)
           state == events[i].state
           artifacts == t.artifacts
<1>1. state \in {"submitted", "input_required", Working, Completed} /\ msg \in -3..MaxEvents
  BY StatusEventIs, TaskAssumption
<1>2. history \in Seq(-3..MaxEvents)
  BY AppendProperties DEF TaskValues
<1>3. artifacts \in Seq([id : ArtifactIds, ref : 0..MaxEvents, parts : Seq(0..MaxEvents)])
  BY DEF TaskValues
<1>4. WithStatus(t, i) = [state |-> state, msg |-> msg, history |-> history, artifacts |-> artifacts]
  BY WithStatusIs
<1> HIDE DEF msg, history, state, artifacts
<1>5. QED
  BY <1>1, <1>2, <1>3, <1>4 DEF TaskValues

\* A world, field by field.
LEMMA WorldIs ==
  ASSUME NEW c, NEW h, NEW s, NEW ps,
         NEW w \in [cur : {c}, heap : {h}, shelf : {s}, parts : {ps}]
  PROVE  w = [cur |-> c, heap |-> h, shelf |-> s, parts |-> ps]
OBVIOUS

\* The status of one object changes.
LEMMA AbsorbStatusIs ==
  ASSUME NEW w \in Worlds, NEW o \in Obj, NEW i, events[i].kind = "status"
  PROVE  Absorb(w, o, i) = [cur |-> w.cur, heap |-> [w.heap EXCEPT ![o] = WithStatus(w.heap[o], i)],
                            shelf |-> w.shelf, parts |-> w.parts]
<1> DEFINE H == [w.heap EXCEPT ![o] = WithStatus(w.heap[o], i)]
<1>1. Absorb(w, o, i) = [w EXCEPT !.heap = H]
  BY DEF Absorb
<1> HIDE DEF H
<1>2. w \in [cur : {w.cur}, heap : {w.heap}, shelf : {w.shelf}, parts : {w.parts}]
  BY DEF Worlds
<1>3. [w EXCEPT !.heap = H] \in [cur : {w.cur}, heap : {H}, shelf : {w.shelf}, parts : {w.parts}]
  BY <1>2
<1>4. QED
  BY <1>1, <1>3, WorldIs DEF H

\* An event changes one object, and the parts that object refers to.
Absorbed(w, x, o) ==
  /\ x \in Worlds /\ x.cur = w.cur /\ x.shelf = w.shelf
  /\ \A q \in Obj : q # o => x.heap[q] = w.heap[q]
  /\ \A r \in 1..MaxEvents :
       (\A k \in 1..Len(w.heap[o].artifacts) : w.heap[o].artifacts[k].ref # r)
         => x.parts[r] = w.parts[r]

\* A status event changes the status of the object ...
LEMMA AbsorbStatus ==
  ASSUME NEW w \in Worlds, NEW o \in Obj, NEW i \in 1..MaxEvents, events[i] \in TaskEvents,
         events[i].kind = "status"
  PROVE  LET x == Absorb(w, o, i) IN
         Absorbed(w, x, o) /\ x.heap[o] = WithStatus(w.heap[o], i) /\ x.parts = w.parts
<1> DEFINE t == WithStatus(w.heap[o], i)
           h == w.heap
           c == w.cur
           s == w.shelf
           ps == w.parts
<1>1. /\ h \in [Obj -> TaskValues] /\ c \in [View -> Obj \union {None}]
      /\ s \in Obj \union {None} /\ ps \in PartsType
  BY DEF Worlds
<1>2. t \in TaskValues
  BY <1>1, WithStatusIn
<1> HIDE DEF t
<1> DEFINE x == [cur |-> c, heap |-> [h EXCEPT ![o] = t], shelf |-> s, parts |-> ps]
<1>3. [h EXCEPT ![o] = t] \in [Obj -> TaskValues]
  BY <1>1, <1>2
<1>4. Absorb(w, o, i) = x
  BY AbsorbStatusIs DEF t
<1>5. x \in Worlds
  BY <1>1, <1>3 DEF Worlds
<1>6. x.cur = w.cur /\ x.shelf = w.shelf /\ x.parts = w.parts /\ x.heap[o] = t
      /\ \A q \in Obj : q # o => x.heap[q] = w.heap[q]
  BY <1>1
<1> HIDE DEF x
<1>7. QED
  BY <1>4, <1>5, <1>6 DEF Absorbed, t

\* ... and an artifact event its artifacts, or parts it shares.
LEMMA AbsorbArtifact ==
  ASSUME NEW w \in Worlds, NEW o \in Obj, NEW i \in 1..MaxEvents, events[i] \in TaskEvents,
         events[i].kind = "artifact"
  PROVE  LET x == Absorb(w, o, i) t == w.heap[o] IN
         /\ Absorbed(w, x, o)
         /\ Taken(t.artifacts, w.parts, x.heap[o].artifacts, x.parts, i)
         /\ x.heap[o] = [state |-> t.state, msg |-> t.msg, history |-> t.history,
                         artifacts |-> x.heap[o].artifacts]
<1>0. PICK B, qs :
        /\ Taken(w.heap[o].artifacts, w.parts, B, qs, i)
        /\ WithArtifact(w, o, i) = WithArts(w, o, B, qs)
  BY WithArtifactIs
<1> DEFINE h == w.heap
           t == h[o]
           c == w.cur
           s == w.shelf
           ps == w.parts
           A == t.artifacts
<1>1. /\ h \in [Obj -> TaskValues] /\ c \in [View -> Obj \union {None}]
      /\ s \in Obj \union {None} /\ ps \in PartsType /\ t \in TaskValues
  BY DEF Worlds
<1>2. A \in Seq(Refs)
  BY <1>1 DEF TaskValues, Refs
<1>3. /\ Taken(A, ps, B, qs, i)
      /\ WithArtifact(w, o, i) = [cur |-> c, heap |-> [h EXCEPT ![o] = [t EXCEPT !.artifacts = B]],
                                  shelf |-> s, parts |-> qs]
  BY <1>0 DEF WithArts
<1>4. /\ B \in Seq(Refs) /\ qs \in PartsType
      /\ \A r \in 1..MaxEvents : (\A k \in 1..Len(A) : A[k].ref # r) => qs[r] = ps[r]
  <2>1. events[i].id \in ArtifactIds
    BY ArtifactEventIs
  <2>2. Taken(A, ps, B, qs, i)
    BY <1>3
  <2> HIDE DEF A, ps
  <2>3. QED
    BY <1>1, <1>2, <2>1, <2>2, TakenIn
<1> DEFINE u == [t EXCEPT !.artifacts = B]
<1>5. /\ u \in TaskValues
      /\ u = [state |-> t.state, msg |-> t.msg, history |-> t.history, artifacts |-> B]
  BY <1>1, <1>4, OtherArtifacts
<1> DEFINE x == [cur |-> c, heap |-> [h EXCEPT ![o] = u], shelf |-> s, parts |-> qs]
<1>6. Absorb(w, o, i) = x
  BY <1>3 DEF Absorb
<1> HIDE DEF u
<1>7. [h EXCEPT ![o] = u] \in [Obj -> TaskValues]
  BY <1>1, <1>5
<1>8. x \in Worlds
  BY <1>1, <1>4, <1>7 DEF Worlds
<1>9. x.cur = w.cur /\ x.shelf = w.shelf /\ x.parts = qs /\ x.heap[o] = u
      /\ \A q \in Obj : q # o => x.heap[q] = w.heap[q]
  BY <1>1
<1> HIDE DEF x
<1>10. Absorbed(w, x, o)
  BY <1>4, <1>8, <1>9 DEF Absorbed
<1>11. u.artifacts = B
  BY <1>5
<1>12. QED
  BY <1>3, <1>5, <1>6, <1>9, <1>10, <1>11

\* A task, with what its artifacts refer to, is what the first n events tell
\* without those in D.
TellsOf(t, ps, n, D) == SoundTo(t.artifacts, n) /\ Copy(t, ps) = Log(n, D)

\* A task that is up to date is so after the next event: the server does to
\* objects what the log tells of values.
LEMMA AbsorbTells ==
  ASSUME NEW w \in Worlds, NEW o \in Obj, NEW n \in Nat, n + 1 \in 1..MaxEvents, NEW D,
         n + 1 \notin D, Heard(n + 1), events[n + 1].kind \in {"status", "artifact"},
         w.parts[n + 1] = <<n + 1>>, TellsOf(w.heap[o], w.parts, n, D)
  PROVE  LET x == Absorb(w, o, n + 1) IN
         Absorbed(w, x, o) /\ TellsOf(x.heap[o], x.parts, n + 1, D)
<1> DEFINE m == n + 1
           t == w.heap[o]
           ps == w.parts
           x == Absorb(w, o, m)
<1>1. m \in Nat /\ n <= m /\ events[m] \in TaskEvents /\ Heard(n)
  <2>1. m \in 1..m /\ \A i \in 1..n : i \in 1..m
    OBVIOUS
  <2>2. QED
    BY <2>1 DEF Heard
<1> DEFINE old == Old(n, D)
<1>0. OldOK(old)
  BY OldIs DEF Heard
<1>2. t \in TaskValues /\ ps \in PartsType /\ t.artifacts \in Seq(Refs)
  BY DEF Worlds, TaskValues, Refs
<1>3. CASE events[m].kind = "status"
  <2>1. Absorbed(w, x, o) /\ x.heap[o] = WithStatus(t, m) /\ x.parts = ps
    BY <1>1, <1>3, AbsorbStatus
  <2>2. Copy(WithStatus(t, m), ps) = WithStatus(Log(n, D), m)
    BY <1>2, StatusOfCopy DEF TellsOf
  <2>3. Log(m, D) = WithStatus(Log(n, D), m)
    BY <1>3, LogStatus
  <2>4. WithStatus(t, m).artifacts = t.artifacts
    BY <1>2, WithStatusIs
  <2>5. SoundTo(t.artifacts, m)
    BY <1>1, SoundLater DEF TellsOf
  <2> HIDE DEF x
  <2>6. TellsOf(x.heap[o], x.parts, m, D)
    BY <2>1, <2>2, <2>3, <2>4, <2>5 DEF TellsOf
  <2>7. QED
    BY <2>1, <2>6 DEF x
<1>4. CASE events[m].kind = "artifact"
  <2> DEFINE A == t.artifacts
             u == x.heap[o]
             B == u.artifacts
             qs == x.parts
  <2>1. /\ Absorbed(w, x, o) /\ Taken(A, ps, B, qs, m)
        /\ u = [state |-> t.state, msg |-> t.msg, history |-> t.history, artifacts |-> B]
    BY <1>1, <1>4, AbsorbArtifact
  <2>2. events[m].id \in ArtifactIds /\ events[m].append \in BOOLEAN
    BY <1>1, <1>4, ArtifactEventIs
  <2>3. /\ SoundTo(B, m)
        /\ Chunked(Copied(A, ps), Copied(B, qs), events[m].id, events[m].append, <<m>>)
    BY <1>2, <1>4, <2>1, <2>2, TakenMeans DEF TellsOf
  <2>4. Chunked(LogArtifacts(n, D, old), LogArtifacts(m, D, old), events[m].id, events[m].append, <<m>>)
    BY <1>0, <1>4, LogChunk
  <2>5. Copy(t, ps) = [state |-> t.state, msg |-> t.msg, history |-> t.history,
                       artifacts |-> Copied(A, ps)]
    BY <1>2, CopyIs
  <2>6. /\ t.state = Log(n, D).state /\ t.msg = Log(n, D).msg /\ t.history = Log(n, D).history
        /\ Copied(A, ps) = LogArtifacts(n, D, old)
    <3>1. Copy(t, ps) = Log(n, D)
      BY DEF TellsOf
    <3>2. Log(n, D).artifacts = LogArtifacts(n, D, old)
      BY LogIs
    <3>3. QED
      BY <2>5, <3>1, <3>2
  <2>7. Copied(B, qs) = LogArtifacts(m, D, old)
    <3>1. LogArtifacts(n, D, old) \in Seq(Values)
      BY <1>0, <1>1, LogArtifactsAre
    <3>2. QED
      BY <2>3, <2>4, <2>6, <3>1, ChunkOnce
  <2>8. u \in TaskValues
    BY <2>1 DEF Absorbed, Worlds
  <2>9. Copy(u, qs) = [state |-> u.state, msg |-> u.msg, history |-> u.history,
                       artifacts |-> Copied(B, qs)]
    BY <2>8, CopyIs
  <2>10. u.state = t.state /\ u.msg = t.msg /\ u.history = t.history
    BY <2>1
  <2>11. Log(m, D) = [state |-> Log(n, D).state, msg |-> Log(n, D).msg,
                      history |-> Log(n, D).history, artifacts |-> LogArtifacts(m, D, old)]
    BY <1>4, LogArtifact
  <2> HIDE DEF x
  <2>12. Copy(u, qs) = Log(m, D)
    BY <2>6, <2>7, <2>9, <2>10, <2>11
  <2>13. TellsOf(u, qs, m, D)
    BY <2>3, <2>12 DEF TellsOf
  <2>14. QED
    BY <2>1, <2>13 DEF x
<1>5. QED
  BY <1>3, <1>4

-----------------------------------------------------------------------------
(* The store's side, and what the managers find there.                     *)

\* What a world is made of.
LEMMA WorldsAre ==
  ASSUME NEW c, NEW h, NEW s, NEW ps
  PROVE  [cur |-> c, heap |-> h, shelf |-> s, parts |-> ps] \in Worlds <=>
           /\ c \in [View -> Obj \union {None}] /\ h \in [Obj -> TaskValues]
           /\ s \in Obj \union {None} /\ ps \in PartsType
BY DEF Worlds

\* A world, field by field.
LEMMA WorldsFields ==
  ASSUME NEW w \in Worlds
  PROVE  /\ w.cur \in [View -> Obj \union {None}] /\ w.heap \in [Obj -> TaskValues]
         /\ w.shelf \in Obj \union {None} /\ w.parts \in PartsType
         /\ w = [cur |-> w.cur, heap |-> w.heap, shelf |-> w.shelf, parts |-> w.parts]
BY DEF Worlds

\* Another heap, ...
LEMMA OtherHeap ==
  ASSUME NEW w \in Worlds, NEW o \in Obj, NEW t \in TaskValues
  PROVE  /\ [w EXCEPT !.heap[o] = t] = [cur |-> w.cur, heap |-> [w.heap EXCEPT ![o] = t],
                                        shelf |-> w.shelf, parts |-> w.parts]
         /\ [w EXCEPT !.heap[o] = t] \in Worlds
<1> DEFINE H == [w.heap EXCEPT ![o] = t]
<1>1. [w EXCEPT !.heap[o] = t] = [w EXCEPT !.heap = H]
  OBVIOUS
<1>2. H \in [Obj -> TaskValues]
  BY WorldsFields
<1> HIDE DEF H
<1>3. w \in [cur : {w.cur}, heap : {w.heap}, shelf : {w.shelf}, parts : {w.parts}]
  BY DEF Worlds
<1>4. [w EXCEPT !.heap = H] \in [cur : {w.cur}, heap : {H}, shelf : {w.shelf}, parts : {w.parts}]
  BY <1>3
<1>5. [w EXCEPT !.heap = H] = [cur |-> w.cur, heap |-> H, shelf |-> w.shelf, parts |-> w.parts]
  BY <1>4, WorldIs
<1>6. [cur |-> w.cur, heap |-> H, shelf |-> w.shelf, parts |-> w.parts] \in Worlds
  BY <1>2, WorldsFields, WorldsAre
<1>7. QED
  BY <1>1, <1>5, <1>6 DEF H

\* ... another shelf, ...
LEMMA OtherShelf ==
  ASSUME NEW w \in Worlds, NEW s \in Obj
  PROVE  /\ [w EXCEPT !.shelf = s] = [cur |-> w.cur, heap |-> w.heap, shelf |-> s, parts |-> w.parts]
         /\ [w EXCEPT !.shelf = s] \in Worlds
<1>1. w \in [cur : {w.cur}, heap : {w.heap}, shelf : {w.shelf}, parts : {w.parts}]
  BY DEF Worlds
<1>2. [w EXCEPT !.shelf = s] \in [cur : {w.cur}, heap : {w.heap}, shelf : {s}, parts : {w.parts}]
  BY <1>1
<1>3. [w EXCEPT !.shelf = s] = [cur |-> w.cur, heap |-> w.heap, shelf |-> s, parts |-> w.parts]
  BY <1>2, WorldIs
<1>4. [cur |-> w.cur, heap |-> w.heap, shelf |-> s, parts |-> w.parts] \in Worlds
  BY WorldsFields, WorldsAre
<1>5. QED
  BY <1>3, <1>4

\* ... another task for a manager.
LEMMA OtherCur ==
  ASSUME NEW w \in Worlds, NEW v \in View, NEW o \in Obj
  PROVE  /\ [w EXCEPT !.cur[v] = o] = [cur |-> [w.cur EXCEPT ![v] = o], heap |-> w.heap,
                                       shelf |-> w.shelf, parts |-> w.parts]
         /\ [w EXCEPT !.cur[v] = o] \in Worlds
<1> DEFINE C == [w.cur EXCEPT ![v] = o]
<1>1. [w EXCEPT !.cur[v] = o] = [w EXCEPT !.cur = C]
  OBVIOUS
<1>2. C \in [View -> Obj \union {None}]
  BY WorldsFields
<1> HIDE DEF C
<1>3. w \in [cur : {w.cur}, heap : {w.heap}, shelf : {w.shelf}, parts : {w.parts}]
  BY DEF Worlds
<1>4. [w EXCEPT !.cur = C] \in [cur : {C}, heap : {w.heap}, shelf : {w.shelf}, parts : {w.parts}]
  BY <1>3
<1>5. [w EXCEPT !.cur = C] = [cur |-> C, heap |-> w.heap, shelf |-> w.shelf, parts |-> w.parts]
  BY <1>4, WorldIs
<1>6. [cur |-> C, heap |-> w.heap, shelf |-> w.shelf, parts |-> w.parts] \in Worlds
  BY <1>2, WorldsFields, WorldsAre
<1>7. QED
  BY <1>1, <1>5, <1>6 DEF C

\* The objects are apart from each other.
LEMMA ObjIs ==
  /\ Row \in Obj /\ Own("main") \in Obj /\ Own("tap") \in Obj /\ \A v \in View : Own(v) \in Obj
  /\ \A i \in 1..MaxEvents : i \in Obj /\ i # Row /\ i # None /\ \A v \in View : i # Own(v)
  /\ Row # None /\ \A v \in View : Own(v) # Row /\ Own(v) # None
  /\ \A o \in Obj : o # None
BY TaskAssumption DEF Obj, Row, Own, View, None

\* The store keeps the object, or a copy of it in its row.
LEMMA StoredIs ==
  ASSUME NEW w \in Worlds, NEW o \in Obj, store \in {"memory", "database"}
  PROVE  LET x == Stored(w, o) IN
         /\ x \in Worlds /\ x.cur = w.cur /\ x.parts = w.parts
         /\ store = "memory" => x.heap = w.heap /\ x.shelf = o
         /\ store = "database" => /\ x.heap = [w.heap EXCEPT ![Row] = Copy(w.heap[o], w.parts)]
                                  /\ x.shelf = Row
<1>1. CASE store = "memory"
  <2>1. Stored(w, o) = [w EXCEPT !.shelf = o]
    BY <1>1 DEF Stored
  <2> DEFINE x == Stored(w, o)
  <2>2. /\ x = [cur |-> w.cur, heap |-> w.heap, shelf |-> o, parts |-> w.parts]
        /\ x \in Worlds
    BY <2>1, OtherShelf
  <2> HIDE DEF x
  <2>3. x.cur = w.cur /\ x.heap = w.heap /\ x.shelf = o /\ x.parts = w.parts
    BY <2>2
  <2>4. QED
    BY <1>1, <2>2, <2>3 DEF x
<1>2. CASE store = "database"
  <2> DEFINE t == Copy(w.heap[o], w.parts)
             y == [w EXCEPT !.heap[Row] = t]
  <2>1. Stored(w, o) = [w EXCEPT !.shelf = Row, !.heap[Row] = t]
    BY <1>2 DEF Stored
  <2>2. t \in TaskValues
    BY WorldsFields, CopyIn
  <2> DEFINE z == [w EXCEPT !.shelf = Row]
  <2>3. z \in Worlds /\ z = [cur |-> w.cur, heap |-> w.heap, shelf |-> Row, parts |-> w.parts]
    BY ObjIs, OtherShelf
  <2>4. Stored(w, o) = [z EXCEPT !.heap[Row] = t]
    <3> HIDE DEF t
    <3>1. [w EXCEPT !.shelf = Row, !.heap[Row] = t] = [z EXCEPT !.heap[Row] = t]
      OBVIOUS
    <3>2. QED
      BY <2>1, <3>1
  <2> HIDE DEF t, z
  <2>5. /\ Stored(w, o) \in Worlds
        /\ Stored(w, o) = [cur |-> z.cur, heap |-> [z.heap EXCEPT ![Row] = t],
                           shelf |-> z.shelf, parts |-> z.parts]
    BY <2>2, <2>3, <2>4, ObjIs, OtherHeap
  <2>6. z.cur = w.cur /\ z.heap = w.heap /\ z.shelf = Row /\ z.parts = w.parts
    BY <2>3
  <2>7. QED
    BY <1>2, <2>5, <2>6 DEF t
<1>3. QED
  BY <1>1, <1>2

\* What is saved becomes the manager's.
LEMMA SavedIs ==
  ASSUME NEW w \in Worlds, NEW v \in View, NEW o \in Obj, store \in {"memory", "database"}
  PROVE  LET x == Saved(w, v, o) IN
         /\ x \in Worlds /\ x.cur = [w.cur EXCEPT ![v] = o] /\ x.parts = w.parts
         /\ store = "memory" => x.heap = w.heap /\ x.shelf = o
         /\ store = "database" => /\ x.heap = [w.heap EXCEPT ![Row] = Copy(w.heap[o], w.parts)]
                                  /\ x.shelf = Row
<1> DEFINE y == Stored(w, o)
<1>1. /\ y \in Worlds /\ y.cur = w.cur /\ y.parts = w.parts
      /\ store = "memory" => y.heap = w.heap /\ y.shelf = o
      /\ store = "database" => /\ y.heap = [w.heap EXCEPT ![Row] = Copy(w.heap[o], w.parts)]
                               /\ y.shelf = Row
  BY StoredIs
<1> HIDE DEF y
<1>2. /\ [y EXCEPT !.cur[v] = o] = [cur |-> [y.cur EXCEPT ![v] = o], heap |-> y.heap,
                                    shelf |-> y.shelf, parts |-> y.parts]
      /\ [y EXCEPT !.cur[v] = o] \in Worlds
  BY <1>1, OtherCur
<1> DEFINE x == [y EXCEPT !.cur[v] = o]
<1>3. /\ x \in Worlds /\ x.cur = [y.cur EXCEPT ![v] = o] /\ x.heap = y.heap
      /\ x.shelf = y.shelf /\ x.parts = y.parts
  BY <1>2
<1>4. Saved(w, v, o) = x
  BY DEF Saved, y
<1> HIDE DEF x
<1>5. QED
  BY <1>1, <1>3, <1>4

\* A manager that has no task reads the row, or makes one.
LEMMA FreshIn == \A v \in View : Fresh(v) \in TaskValues
<1>1. <<>> \in Seq(-3..MaxEvents) /\ <<UserMessage>> \in Seq(-3..MaxEvents)
  BY TaskAssumption DEF UserMessage
<1>2. <<>> \in Seq([id : ArtifactIds, ref : 0..MaxEvents, parts : Seq(0..MaxEvents)])
  OBVIOUS
<1>3. 0 \in -3..MaxEvents
  BY TaskAssumption
<1>4. QED
  BY <1>1, <1>2, <1>3 DEF Fresh, TaskOf, TaskValues

\* It reads a copy of the row ...
LEMMA FoundIs ==
  ASSUME NEW w \in Worlds, NEW v \in View
  PROVE  LET x == Found(w, v) IN
         /\ x \in Worlds /\ x.cur = w.cur /\ x.parts = w.parts /\ x.shelf = w.shelf
         /\ x.heap = [w.heap EXCEPT ![Own(v)] = Copy(w.heap[Row], w.parts)]
<1> DEFINE t == Copy(w.heap[Row], w.parts)
<1>1. t \in TaskValues
  BY ObjIs, WorldsFields, CopyIn
<1>2. Found(w, v) = [w EXCEPT !.heap[Own(v)] = t]
  BY DEF Found
<1>3. Own(v) \in Obj
  BY ObjIs
<1> HIDE DEF t
<1>4. /\ Found(w, v) = [cur |-> w.cur, heap |-> [w.heap EXCEPT ![Own(v)] = t], shelf |-> w.shelf,
                        parts |-> w.parts]
      /\ Found(w, v) \in Worlds
  BY <1>1, <1>2, <1>3, OtherHeap
<1>5. QED
  BY <1>4 DEF t

\* ... or makes a new one.
LEMMA MadeIs ==
  ASSUME NEW w \in Worlds, NEW v \in View
  PROVE  LET x == Made(w, v) IN
         /\ x \in Worlds /\ x.cur = w.cur /\ x.parts = w.parts /\ x.shelf = w.shelf
         /\ x.heap = [w.heap EXCEPT ![Own(v)] = Fresh(v)]
<1>1. Made(w, v) = [w EXCEPT !.heap[Own(v)] = Fresh(v)]
  BY DEF Made
<1>2. Own(v) \in Obj /\ Fresh(v) \in TaskValues
  BY ObjIs, FreshIn
<1>3. /\ Made(w, v) = [cur |-> w.cur, heap |-> [w.heap EXCEPT ![Own(v)] = Fresh(v)],
                       shelf |-> w.shelf, parts |-> w.parts]
      /\ Made(w, v) \in Worlds
  BY <1>1, <1>2, OtherHeap
<1>4. QED
  BY <1>3

-----------------------------------------------------------------------------
(* Types.                                                                  *)

InHand == {"loading", "creating", "saving", "yielding"}
Places == InHand \union {"off", "ready", "strayed", "done", "failed"}

\* What each reader has in hand is an event it can apply.
HandsHold ==
  \A v \in View :
    /\ hand[v] <= Len(events)
    /\ pc[v] \in InHand => hand[v] >= 1 /\ events[hand[v]].kind # "foreign"
    /\ pc[v] \in {"loading", "creating"} => events[hand[v]].kind \in {"status", "artifact"}

\* Every variable keeps its shape.
TaskTypes ==
  /\ store \in {"memory", "database"} /\ turn \in Turns
  /\ World \in Worlds /\ (store = "database" => shelf \in {None, Row})
  /\ Len(events) + Len(putting) <= MaxEvents
  /\ pc \in [View -> Places] /\ hand \in [View -> Nat] /\ HandsHold

\* The kinds of events.
LEMMA KindIs ==
  ASSUME NEW e \in TaskEvents
  PROVE  e.kind \in {"status", "artifact", "task", "foreign"}
BY DEF TaskEvents, StatusEvents, ArtifactEvents, OtherEvents

\* An event changes one object, whatever it is.
LEMMA AbsorbIn ==
  ASSUME NEW w \in Worlds, NEW o \in Obj, NEW i \in 1..MaxEvents, events[i] \in TaskEvents,
         events[i].kind \in {"status", "artifact"}
  PROVE  Absorbed(w, Absorb(w, o, i), o)
BY AbsorbStatus, AbsorbArtifact

\* What the world becomes.
LEMMA BecomesIs ==
  ASSUME NEW x \in Worlds, Becomes(x)
  PROVE  World' = x /\ World' \in Worlds
BY WorldsFields DEF Becomes, World

\* The world is these four variables.
LEMMA WorldFields ==
  ASSUME World \in Worlds
  PROVE  /\ World.cur = cur /\ World.heap = heap /\ World.shelf = shelf /\ World.parts = parts
         /\ cur \in [View -> Obj \union {None}] /\ heap \in [Obj -> TaskValues]
         /\ shelf \in Obj \union {None} /\ parts \in PartsType
<1>1. World.cur = cur /\ World.heap = heap /\ World.shelf = shelf /\ World.parts = parts
  BY DEF World
<1>2. QED
  BY <1>1, WorldsFields

\* The queue is a sequence of events.
LEMMA EventsAre ==
  ASSUME LatchInv
  PROVE  /\ events \in Seq(TaskEvents) /\ Len(events) \in Nat /\ Len(putting) \in Nat
         /\ \A i \in 1..Len(events) : events[i] \in TaskEvents
<1>1. events \in Seq(TaskEvents) /\ (putting = <<>> \/ \E e \in StatusEvents : putting = <<e>>)
  BY DEF LatchInv, AgentTypeOK
<1>2. Len(putting) \in Nat
  BY <1>1
<1>3. QED
  BY <1>1, <1>2, LenProperties, ElementOfSeq

\* The tasks at the start.
LEMMA TaskOfIn ==
  ASSUME NEW state \in {"submitted", "input_required", Working, Completed},
         NEW msg \in -3..MaxEvents, NEW history \in Seq(-3..MaxEvents)
  PROVE  TaskOf(state, msg, history) \in TaskValues
<1>1. <<>> \in Seq([id : ArtifactIds, ref : 0..MaxEvents, parts : Seq(0..MaxEvents)])
  OBVIOUS
<1>2. QED
  BY <1>1 DEF TaskOf, TaskValues

\* The messages there are before any event.
LEMMA Messages ==
  /\ 0 \in -3..MaxEvents /\ UserMessage \in -3..MaxEvents /\ AgentQuestion \in -3..MaxEvents
  /\ FollowUp \in -3..MaxEvents /\ <<>> \in Seq(-3..MaxEvents)
  /\ <<UserMessage>> \in Seq(-3..MaxEvents)
<1>1. 0 \in -3..MaxEvents /\ -1 \in -3..MaxEvents /\ -2 \in -3..MaxEvents /\ -3 \in -3..MaxEvents
  BY TaskAssumption
<1>2. QED
  BY <1>1 DEF UserMessage, AgentQuestion, FollowUp

\* What earlier turns left are artifacts of their own parts, each once.
LEMMA BroughtIs ==
  ASSUME turn \in Turns
  PROVE  /\ Brought \in Seq(Refs) /\ Len(Brought) = Len(turn.kept) /\ Len(turn.kept) \in Nat
         /\ \A k \in 1..Len(Brought) : Brought[k] = ArtifactOf(turn.kept[k], 0, <<Earlier>>)
         /\ Distinct(Brought)
<1> DEFINE s == turn.kept
<1>1. /\ s \in Seq(ArtifactIds) /\ Len(s) \in Nat /\ DOMAIN s = 1..Len(s)
      /\ \A j, k \in 1..Len(s) : s[j] = s[k] => j = k
  BY OldIs, LenProperties DEF OldOK
<1>2. Brought = [k \in 1..Len(s) |-> ArtifactOf(s[k], 0, <<Earlier>>)]
  BY <1>1 DEF Brought
<1> HIDE DEF s
<1>3. ASSUME NEW k \in 1..Len(s) PROVE ArtifactOf(s[k], 0, <<Earlier>>) \in Refs
  <2>1. s[k] \in ArtifactIds /\ 0 \in 0..MaxEvents /\ <<Earlier>> \in Seq(0..MaxEvents)
    BY <1>1, TaskAssumption DEF Earlier
  <2>2. QED
    BY <2>1 DEF ArtifactOf, Refs
<1>4. Brought \in [1..Len(s) -> Refs]
  BY <1>2, <1>3
<1>5. Brought \in Seq(Refs) /\ Len(Brought) = Len(s)
  BY <1>1, <1>4
<1>6. \A k \in 1..Len(s) : Brought[k] = ArtifactOf(s[k], 0, <<Earlier>>)
  BY <1>2
<1>7. \A k \in 1..Len(s) : Brought[k].id = s[k]
  BY <1>6, ArtifactFields
<1>8. Distinct(Brought)
  BY <1>1, <1>5, <1>7 DEF Distinct
<1>9. QED
  BY <1>1, <1>5, <1>6, <1>8 DEF s

\* The task of a follow-up is a task.
LEMMA AskedIn ==
  ASSUME turn \in Turns
  PROVE  Asked \in TaskValues /\ WithMessage(Asked, FollowUp) \in TaskValues
<1>1. Append(<<UserMessage>>, AgentQuestion) \o <<FollowUp>> \in Seq(-3..MaxEvents)
  <2> DEFINE s == <<UserMessage>>
  <2>1. s \in Seq(-3..MaxEvents) /\ <<FollowUp>> \in Seq(-3..MaxEvents)
    BY Messages
  <2> HIDE DEF s
  <2>2. Append(s, AgentQuestion) \in Seq(-3..MaxEvents)
    BY <2>1, Messages
  <2>3. QED
    BY <2>1, <2>2, ConcatProperties DEF s
<1>2. Brought \in Seq([id : ArtifactIds, ref : 0..MaxEvents, parts : Seq(0..MaxEvents)])
  BY BroughtIs DEF Refs
<1> DEFINE h == Append(<<UserMessage>>, AgentQuestion) \o <<FollowUp>>
           A == Brought
<1> HIDE DEF h, A
<1>3. \A msg \in -3..MaxEvents, history \in Seq(-3..MaxEvents) :
        [state |-> "input_required", msg |-> msg, history |-> history, artifacts |-> A] \in TaskValues
  BY <1>2 DEF TaskValues, A
<1>4. Asked \in TaskValues
  BY <1>3, Messages, AskedIs DEF A
<1>5. WithMessage(Asked, FollowUp) \in TaskValues
  BY <1>1, <1>3, Messages, PreparedIs DEF A, h
<1>6. QED
  BY <1>4, <1>5

\* The start has the shape.
LEMMA TaskTypesInit == TaskInit => TaskTypes
<1> SUFFICES ASSUME TaskInit PROVE TaskTypes
  OBVIOUS
<1> DEFINE blank == [o \in Obj |-> TaskOf("submitted", 0, <<>>)]
           own == IF store = "memory" THEN Row ELSE Own("main")
<1>1. store \in {"memory", "database"} /\ turn \in Turns
  BY TaskAssumption DEF TaskInit
<1>2. blank \in [Obj -> TaskValues]
  BY Messages, TaskOfIn
<1>3. own \in Obj
  BY ObjIs
<1>4. /\ heap \in [Obj -> TaskValues] /\ shelf \in Obj \union {None}
      /\ cur \in [View -> Obj \union {None}] /\ (store = "database" => shelf \in {None, Row})
  <2>1. CASE turn.new
    BY <1>2, <2>1 DEF TaskInit
  <2>2. CASE ~turn.new
    <3>1. /\ heap = [blank EXCEPT ![Row] = Asked, ![own] = WithMessage(Asked, FollowUp)]
          /\ shelf = Row /\ cur = [v \in View |-> IF v = "main" THEN own ELSE None]
      BY <2>2 DEF TaskInit
    <3> HIDE DEF blank, own
    <3>2. [blank EXCEPT ![Row] = Asked] \in [Obj -> TaskValues]
      BY <1>1, <1>2, AskedIn
    <3>3. heap \in [Obj -> TaskValues]
      BY <1>1, <3>1, <3>2, AskedIn
    <3>4. QED
      BY <1>3, <3>1, <3>3, ObjIs
  <2>3. QED
    BY <1>1, <2>1, <2>2
<1>5. parts \in PartsType
  <2>1. \A i \in 1..MaxEvents : <<i>> \in Seq(0..MaxEvents)
    OBVIOUS
  <2>2. QED
    BY <2>1 DEF TaskInit, PartsType
<1>6. World \in Worlds
  BY <1>4, <1>5, WorldsAre DEF World
<1>7. Len(events) + Len(putting) <= MaxEvents /\ Len(events) = 0
  BY TaskAssumption DEF TaskInit
<1>8. pc \in [View -> Places] /\ hand \in [View -> Nat] /\ HandsHold
  BY <1>7 DEF TaskInit, Places, InHand, HandsHold, View
<1>9. QED
  BY <1>1, <1>4, <1>6, <1>7, <1>8 DEF TaskTypes

\* The queue, as the readers of one step find it.
Queued == LatchInv /\ TaskTypes

\* What a busy reader has in hand.
LEMMA HandIs ==
  ASSUME Queued, NEW v \in View, pc[v] \in InHand
  PROVE  /\ hand[v] \in 1..Len(events) /\ hand[v] \in 1..MaxEvents
         /\ events[hand[v]] \in TaskEvents /\ events[hand[v]].kind # "foreign"
         /\ pc[v] \in {"loading", "creating"} => events[hand[v]].kind \in {"status", "artifact"}
<1>1. /\ hand[v] \in Nat /\ hand[v] <= Len(events) /\ hand[v] >= 1
      /\ events[hand[v]].kind # "foreign"
      /\ pc[v] \in {"loading", "creating"} => events[hand[v]].kind \in {"status", "artifact"}
  BY DEF Queued, TaskTypes, HandsHold
<1>2. /\ Len(events) \in Nat /\ Len(putting) \in Nat /\ Len(events) + Len(putting) <= MaxEvents
      /\ \A i \in 1..Len(events) : events[i] \in TaskEvents
  BY EventsAre DEF Queued, TaskTypes
<1>3. hand[v] \in 1..Len(events)
  BY <1>1, <1>2
<1>4. hand[v] \in 1..MaxEvents
  BY <1>1, <1>2, TaskAssumption
<1>5. QED
  BY <1>1, <1>2, <1>3, <1>4

\* A reader takes the next event.
LEMMA TakesIs ==
  ASSUME Queued, NEW v \in View, Takes(v)
  PROVE  /\ hand' = [hand EXCEPT ![v] = hand[v] + 1] /\ hand'[v] = hand[v] + 1
         /\ hand'[v] \in 1..Len(events) /\ hand'[v] \in 1..MaxEvents
         /\ events[hand'[v]] \in TaskEvents /\ pc[v] \in {"ready", "strayed"}
<1>1. hand \in [View -> Nat] /\ hand[v] < Len(events) /\ hand' = [hand EXCEPT ![v] = hand[v] + 1]
  BY DEF Takes, Queued, TaskTypes
<1>2. /\ Len(events) \in Nat /\ Len(putting) \in Nat /\ Len(events) + Len(putting) <= MaxEvents
      /\ \A i \in 1..Len(events) : events[i] \in TaskEvents
  BY EventsAre DEF Queued, TaskTypes
<1>3. hand'[v] = hand[v] + 1 /\ hand[v] \in Nat
  BY <1>1
<1>4. hand'[v] \in 1..Len(events) /\ hand'[v] \in 1..MaxEvents
  BY <1>1, <1>2, <1>3, TaskAssumption
<1>5. QED
  BY <1>1, <1>2, <1>3, <1>4 DEF Takes

\* Where the readers are after one of them has moved.
LEMMA HandsMove ==
  ASSUME Queued, NEW v \in View, NEW place \in Places, pc' = [pc EXCEPT ![v] = place],
         UNCHANGED events, NEW i \in Nat, hand' = [hand EXCEPT ![v] = i], i <= Len(events),
         place \in InHand => i >= 1 /\ events[i].kind # "foreign",
         place \in {"loading", "creating"} => events[i].kind \in {"status", "artifact"}
  PROVE  pc' \in [View -> Places] /\ hand' \in [View -> Nat] /\ HandsHold'
<1>1. pc \in [View -> Places] /\ hand \in [View -> Nat] /\ HandsHold
  BY DEF Queued, TaskTypes
<1>2. \A u \in View : /\ pc'[u] = IF u = v THEN place ELSE pc[u]
                      /\ hand'[u] = IF u = v THEN i ELSE hand[u]
  BY <1>1
<1>3. ASSUME NEW u \in View
      PROVE  /\ hand'[u] <= Len(events)
             /\ pc'[u] \in InHand => hand'[u] >= 1 /\ events[hand'[u]].kind # "foreign"
             /\ pc'[u] \in {"loading", "creating"} => events[hand'[u]].kind \in {"status", "artifact"}
  <2>1. CASE u = v
    BY <1>2, <2>1
  <2>2. CASE u # v
    BY <1>1, <1>2, <2>2 DEF HandsHold
  <2>3. QED
    BY <2>1, <2>2
<1>4. HandsHold'
  BY <1>3 DEF HandsHold
<1>5. QED
  BY <1>1, <1>4

\* Where a reader goes on with what it has in hand.
LEMMA HandsStay ==
  ASSUME Queued, NEW v \in View, NEW place \in Places, pc' = [pc EXCEPT ![v] = place],
         UNCHANGED <<events, hand>>, place \in InHand => pc[v] \in InHand,
         place \in {"loading", "creating"} => pc[v] \in {"loading", "creating"}
  PROVE  pc' \in [View -> Places] /\ hand' \in [View -> Nat] /\ HandsHold'
<1>1. hand \in [View -> Nat] /\ HandsHold
  BY DEF Queued, TaskTypes
<1>2. hand' = [hand EXCEPT ![v] = hand[v]] /\ hand[v] \in Nat /\ hand[v] <= Len(events)
  BY <1>1 DEF HandsHold
<1>3. /\ place \in InHand => hand[v] >= 1 /\ events[hand[v]].kind # "foreign"
      /\ place \in {"loading", "creating"} => events[hand[v]].kind \in {"status", "artifact"}
  BY <1>1 DEF HandsHold
<1>4. QED
  BY <1>2, <1>3, HandsMove

\* Where the world is what some reader makes of it.
LEMMA TypesBecome ==
  ASSUME Queued, NEW x \in Worlds, Becomes(x), store = "database" => x.shelf \in {None, Row},
         UNCHANGED <<store, turn, agentVars>>,
         pc' \in [View -> Places], hand' \in [View -> Nat], HandsHold'
  PROVE  TaskTypes'
<1>1. World' \in Worlds
  BY BecomesIs
<1>2. (store = "database" => shelf \in {None, Row})'
  BY DEF Becomes
<1>3. (Len(events) + Len(putting) <= MaxEvents)' /\ (store \in {"memory", "database"})'
      /\ (turn \in Turns)'
  BY DEF Queued, TaskTypes, agentVars
<1>4. QED
  BY <1>1, <1>2, <1>3 DEF TaskTypes

\* Where the world stays as it is.
LEMMA TypesQuiet ==
  ASSUME Queued, UNCHANGED <<store, turn, agentVars, recordVars>>,
         pc' \in [View -> Places], hand' \in [View -> Nat], HandsHold'
  PROVE  TaskTypes'
<1>1. World \in Worlds /\ (store = "database" => shelf \in {None, Row})
  BY DEF Queued, TaskTypes
<1>2. Becomes(World)
  BY DEF Becomes, recordVars, World
<1>3. World.shelf = shelf
  BY DEF World
<1>4. QED
  BY <1>1, <1>2, <1>3, TypesBecome

\* What reader v saves is an object.
LEMMA TargetIs ==
  ASSUME Queued, NEW v \in View, pc[v] \in InHand
  PROVE  Target(v) \in Obj
<1>1. hand[v] \in 1..MaxEvents
  BY HandIs
<1>2. cur[v] \in Obj \union {None}
  BY WorldFields DEF Queued, TaskTypes
<1>3. QED
  BY <1>1, <1>2, ObjIs DEF Target

\* The object a manager without a database applies an event to, and the world it
\* finds.
MemoryTarget(v) == IF cur[v] # None THEN cur[v] ELSE IF shelf # None THEN shelf ELSE Own(v)
MemoryWorld(v) ==
  IF cur[v] = None /\ shelf = None THEN Saved(Made(World, v), v, Own(v)) ELSE World

\* What a reader without a database does with an event.
LEMMA TakeInMemoryIs ==
  ASSUME Queued, NEW v \in View, TakeInMemory(v)
  PROVE  LET i == hand'[v] o == MemoryTarget(v) w == MemoryWorld(v) IN
         /\ o \in Obj /\ w \in Worlds /\ events[i].kind # "foreign"
         /\ World' = IF events[i].kind = "task" THEN Saved(World, v, i)
                     ELSE Saved(Absorb(w, o, i), v, o)
         /\ Becomes(World') /\ World' \in Worlds
         /\ events[i].kind # "task" => Absorbed(w, Absorb(w, o, i), o)
<1> DEFINE i == hand'[v]
           o == MemoryTarget(v)
           w == MemoryWorld(v)
           x == IF events[i].kind = "task" THEN Saved(World, v, i)
                ELSE Saved(Absorb(w, o, i), v, o)
<1>1. store = "memory" /\ Takes(v) /\ events[i].kind # "foreign" /\ Becomes(x)
  <2>1. /\ store = "memory" /\ Takes(v) /\ events[i].kind # "foreign"
        /\ Becomes(IF events[i].kind = "task" THEN Saved(World, v, i)
                   ELSE Saved(Absorb(w, o, i), v, o))
    BY DEF TakeInMemory, MemoryTarget, MemoryWorld
  <2>2. QED
    BY <2>1
<1>2. World \in Worlds /\ cur \in [View -> Obj \union {None}] /\ shelf \in Obj \union {None}
  BY WorldFields DEF Queued, TaskTypes
<1>3. i \in 1..MaxEvents /\ events[i] \in TaskEvents
  BY <1>1, TakesIs
<1>4. o \in Obj
  BY <1>2, ObjIs DEF MemoryTarget
<1>5. w \in Worlds
  BY <1>1, <1>2, ObjIs, MadeIs, SavedIs DEF MemoryWorld
<1>6. events[i].kind # "task" => Absorbed(w, Absorb(w, o, i), o)
  <2>1. events[i].kind # "task" => events[i].kind \in {"status", "artifact"}
    BY <1>1, <1>3, KindIs
  <2>2. QED
    BY <1>3, <1>4, <1>5, <2>1, AbsorbIn
<1>7. x \in Worlds
  <2>1. CASE events[i].kind = "task"
    BY <1>1, <1>2, <1>3, <2>1, ObjIs, SavedIs
  <2>2. CASE events[i].kind # "task"
    <3>1. Absorb(w, o, i) \in Worlds
      BY <1>6, <2>2 DEF Absorbed
    <3>2. QED
      BY <1>1, <1>4, <2>2, <3>1, SavedIs
  <2>3. QED
    BY <2>1, <2>2
<1> HIDE DEF x, o, w, i
<1>8. World' = x /\ World' \in Worlds
  BY <1>1, <1>7, BecomesIs
<1>9. QED
  BY <1>1, <1>4, <1>5, <1>6, <1>8 DEF x, o, w, i

\* It keeps the shape.
LEMMA TypesTakeInMemory ==
  ASSUME Queued, NEW v \in View, TakeInMemory(v)
  PROVE  TaskTypes'
<1>1. /\ Takes(v) /\ store = "memory" /\ pc' = [pc EXCEPT ![v] = "yielding"]
      /\ UNCHANGED <<store, turn, agentVars>>
  BY DEF TakeInMemory
<1>2. /\ hand' = [hand EXCEPT ![v] = hand[v] + 1] /\ hand'[v] = hand[v] + 1
      /\ hand'[v] \in 1..Len(events)
  BY <1>1, TakesIs
<1>3. events[hand[v] + 1].kind # "foreign" /\ World' \in Worlds /\ Becomes(World')
  BY <1>2, TakeInMemoryIs
<1>4. hand[v] + 1 \in Nat /\ hand[v] + 1 <= Len(events) /\ hand[v] + 1 >= 1
  BY <1>2
<1>5. pc' \in [View -> Places] /\ hand' \in [View -> Nat] /\ HandsHold'
  <2> DEFINE i == hand[v] + 1
  <2>1. i \in Nat /\ i <= Len(events) /\ i >= 1 /\ events[i].kind # "foreign"
        /\ hand' = [hand EXCEPT ![v] = i]
    BY <1>2, <1>3, <1>4
  <2>2. "yielding" \in Places /\ "yielding" \notin {"loading", "creating"} /\ UNCHANGED events
    BY <1>1 DEF Places, InHand, agentVars
  <2> HIDE DEF i
  <2>3. QED
    BY <1>1, <2>1, <2>2, HandsMove
<1>6. PICK x \in Worlds : Becomes(x)
  BY <1>3
<1>7. QED
  BY <1>1, <1>5, <1>6, TypesBecome

\* With a database the manager's own task changes, if it has one.
LEMMA TakeToDatabaseIs ==
  ASSUME Queued, NEW v \in View, TakeToDatabase(v)
  PROVE  LET i == hand'[v] IN
         \/ /\ events[i].kind = "task" /\ pc'[v] = "saving" /\ World' = World
         \/ /\ events[i].kind \in {"status", "artifact"} /\ cur[v] \in Obj
            /\ Absorbed(World, World', cur[v]) /\ World' = Absorb(World, cur[v], i)
            /\ pc'[v] = "saving"
         \/ /\ events[i].kind \in {"status", "artifact"} /\ cur[v] = None
            /\ pc'[v] = "loading" /\ World' = World
<1> DEFINE i == hand'[v]
<1>1. World \in Worlds /\ cur \in [View -> Obj \union {None}] /\ pc \in [View -> Places]
  BY WorldFields DEF Queued, TaskTypes
<1>2. i \in 1..MaxEvents /\ events[i] \in TaskEvents
  BY TakesIs DEF TakeToDatabase
<1>3. \/ /\ events[i].kind = "task"
         /\ pc' = [pc EXCEPT ![v] = "saving"] /\ UNCHANGED recordVars
      \/ /\ events[i].kind \notin {"task", "foreign"} /\ cur[v] # None
         /\ Becomes(Absorb(World, cur[v], i))
         /\ pc' = [pc EXCEPT ![v] = "saving"]
      \/ /\ events[i].kind \notin {"task", "foreign"} /\ cur[v] = None
         /\ pc' = [pc EXCEPT ![v] = "loading"] /\ UNCHANGED recordVars
  BY DEF TakeToDatabase
<1>4. UNCHANGED recordVars => World' = World
  BY DEF recordVars, World
<1>5. events[i].kind \notin {"task", "foreign"} => events[i].kind \in {"status", "artifact"}
  BY <1>2, KindIs
<1>6. ASSUME events[i].kind \in {"status", "artifact"}, cur[v] # None,
             Becomes(Absorb(World, cur[v], i))
      PROVE  /\ cur[v] \in Obj /\ Absorbed(World, World', cur[v])
             /\ World' = Absorb(World, cur[v], i)
  <2>1. cur[v] \in Obj
    BY <1>1, <1>6
  <2>2. Absorbed(World, Absorb(World, cur[v], i), cur[v])
    BY <1>1, <1>2, <1>6, <2>1, AbsorbIn
  <2>3. Absorb(World, cur[v], i) \in Worlds
    BY <2>2 DEF Absorbed
  <2>4. World' = Absorb(World, cur[v], i)
    BY <1>6, <2>3, BecomesIs
  <2>5. QED
    BY <2>1, <2>2, <2>4
<1> HIDE DEF i
<1>7. QED
  BY <1>1, <1>3, <1>4, <1>5, <1>6 DEF i

\* That keeps the shape.
LEMMA TypesTakeToDatabase ==
  ASSUME Queued, NEW v \in View, TakeToDatabase(v)
  PROVE  TaskTypes'
<1>1. /\ Takes(v) /\ store = "database" /\ UNCHANGED <<store, turn, agentVars>>
      /\ (pc' = [pc EXCEPT ![v] = "saving"] \/ pc' = [pc EXCEPT ![v] = "loading"])
  BY DEF TakeToDatabase
<1> DEFINE i == hand[v] + 1
<1>2. hand' = [hand EXCEPT ![v] = i] /\ hand'[v] = i /\ i \in 1..Len(events)
  BY <1>1, TakesIs
<1>3. i \in Nat /\ i >= 1 /\ i <= Len(events)
  BY <1>2
<1> HIDE DEF i
<1>4. /\ events[i].kind \in {"status", "artifact", "task"}
      /\ pc'[v] = "loading" => events[i].kind \in {"status", "artifact"}
      /\ World' = World \/ \E o \in Obj : Absorbed(World, World', o)
  BY <1>2, TakeToDatabaseIs
<1>5. PICK place \in {"saving", "loading"} : pc' = [pc EXCEPT ![v] = place] /\ pc'[v] = place
  BY <1>1 DEF Queued, TaskTypes
<1>6. pc' \in [View -> Places] /\ hand' \in [View -> Nat] /\ HandsHold'
  <2>1. /\ place \in Places /\ events[i].kind # "foreign" /\ UNCHANGED events
        /\ place \in {"loading", "creating"} => events[i].kind \in {"status", "artifact"}
    BY <1>1, <1>4, <1>5 DEF Places, InHand, agentVars
  <2>2. QED
    BY <1>2, <1>3, <1>5, <2>1, HandsMove
<1>7. World \in Worlds /\ shelf \in {None, Row} /\ World.shelf = shelf
  BY <1>1 DEF Queued, TaskTypes, World
<1>8. World' \in Worlds /\ World'.shelf = shelf
  BY <1>4, <1>7 DEF Absorbed
<1>9. Becomes(World')
  BY DEF Becomes, World
<1>10. PICK x \in Worlds : Becomes(x) /\ x.shelf \in {None, Row}
  BY <1>7, <1>8, <1>9
<1>11. QED
  BY <1>1, <1>6, <1>10, TypesBecome

\* What the manager finds in the store, or makes for lack of it.
LEMMA LoadIs ==
  ASSUME Queued, NEW v \in View, Load(v)
  PROVE  LET i == hand[v] o == Own(v) IN
         /\ i \in 1..MaxEvents /\ events[i] \in TaskEvents
         /\ events[i].kind \in {"status", "artifact"} /\ World' \in Worlds
         /\ \/ /\ shelf # None /\ pc'[v] = "saving" /\ Found(World, v) \in Worlds
               /\ World' = Absorb(Found(World, v), o, i) /\ Absorbed(Found(World, v), World', o)
            \/ shelf = None /\ pc'[v] = "creating" /\ World' = Made(World, v)
         /\ World'.shelf = shelf
<1> DEFINE i == hand[v]
           o == Own(v)
           f == Found(World, v)
           m == Made(World, v)
<1>1. /\ pc[v] = "loading"
      /\ \/ shelf # None /\ Becomes(Absorb(f, o, i)) /\ pc' = [pc EXCEPT ![v] = "saving"]
         \/ shelf = None /\ Becomes(m) /\ pc' = [pc EXCEPT ![v] = "creating"]
  BY DEF Load
<1>2. i \in 1..MaxEvents /\ events[i] \in TaskEvents /\ events[i].kind \in {"status", "artifact"}
  BY <1>1, HandIs DEF InHand
<1>3. World \in Worlds /\ World.shelf = shelf /\ pc \in [View -> Places]
  BY DEF Queued, TaskTypes, World
<1>4. f \in Worlds /\ f.shelf = shelf /\ m \in Worlds /\ m.shelf = shelf
  BY <1>3, FoundIs, MadeIs
<1>5. o \in Obj
  BY ObjIs
<1>6. Absorbed(f, Absorb(f, o, i), o)
  BY <1>2, <1>4, <1>5, AbsorbIn
<1>7. Absorb(f, o, i) \in Worlds /\ Absorb(f, o, i).shelf = shelf
  BY <1>4, <1>6 DEF Absorbed
<1> HIDE DEF f, m, i, o
<1>8. CASE shelf # None
  BY <1>1, <1>2, <1>3, <1>4, <1>6, <1>7, <1>8, BecomesIs DEF f, i, o
<1>9. CASE shelf = None
  BY <1>1, <1>2, <1>3, <1>4, <1>9, BecomesIs DEF m, i, o
<1>10. QED
  BY <1>8, <1>9

\* That keeps the shape.
LEMMA TypesLoad ==
  ASSUME Queued, NEW v \in View, Load(v)
  PROVE  TaskTypes'
<1>1. /\ pc[v] = "loading" /\ UNCHANGED <<store, turn, agentVars, hand>>
      /\ (pc' = [pc EXCEPT ![v] = "saving"] \/ pc' = [pc EXCEPT ![v] = "creating"])
  BY DEF Load
<1>2. World' \in Worlds /\ World'.shelf = shelf /\ (store = "database" => shelf \in {None, Row})
  BY LoadIs DEF Queued, TaskTypes
<1>3. PICK place \in {"saving", "creating"} : pc' = [pc EXCEPT ![v] = place]
  BY <1>1
<1>4. pc' \in [View -> Places] /\ hand' \in [View -> Nat] /\ HandsHold'
  <2>1. place \in Places /\ UNCHANGED <<events, hand>> /\ pc[v] \in InHand
        /\ pc[v] \in {"loading", "creating"}
    BY <1>1 DEF Places, InHand, agentVars
  <2>2. QED
    BY <1>3, <2>1, HandsStay
<1>5. Becomes(World')
  BY DEF Becomes, World
<1>6. PICK x \in Worlds : Becomes(x) /\ (store = "database" => x.shelf \in {None, Row})
  BY <1>2, <1>5
<1>7. QED
  BY <1>1, <1>4, <1>6, TypesBecome

\* The new task is saved before the event is applied.
LEMMA CreateIs ==
  ASSUME Queued, NEW v \in View, Create(v)
  PROVE  LET i == hand[v] o == Own(v) w == Saved(World, v, Own(v)) IN
         /\ i \in 1..MaxEvents /\ events[i] \in TaskEvents
         /\ events[i].kind \in {"status", "artifact"} /\ World' \in Worlds
         /\ w \in Worlds /\ World' = Absorb(w, o, i) /\ Absorbed(w, World', o)
<1> DEFINE i == hand[v]
           o == Own(v)
           w == Saved(World, v, Own(v))
<1>1. pc[v] = "creating" /\ Becomes(Absorb(w, o, i))
  BY DEF Create
<1>2. i \in 1..MaxEvents /\ events[i] \in TaskEvents /\ events[i].kind \in {"status", "artifact"}
  BY <1>1, HandIs DEF InHand
<1>3. World \in Worlds /\ store \in {"memory", "database"} /\ o \in Obj
  BY ObjIs DEF Queued, TaskTypes
<1>4. w \in Worlds
  BY <1>3, SavedIs
<1>5. Absorbed(w, Absorb(w, o, i), o)
  BY <1>2, <1>3, <1>4, AbsorbIn
<1>6. Absorb(w, o, i) \in Worlds
  BY <1>5 DEF Absorbed
<1> HIDE DEF i, o, w
<1>7. World' = Absorb(w, o, i)
  BY <1>1, <1>6, BecomesIs
<1>8. QED
  BY <1>2, <1>4, <1>5, <1>6, <1>7 DEF i, o, w

\* That keeps the shape.
LEMMA TypesCreate ==
  ASSUME Queued, NEW v \in View, Create(v)
  PROVE  TaskTypes'
<1>1. /\ pc[v] = "creating" /\ UNCHANGED <<store, turn, agentVars, hand>>
      /\ pc' = [pc EXCEPT ![v] = "saving"]
  BY DEF Create
<1>2. World \in Worlds /\ store \in {"memory", "database"} /\ Own(v) \in Obj
  BY ObjIs DEF Queued, TaskTypes
<1>3. store = "database" => Saved(World, v, Own(v)).shelf = Row
  BY <1>2, SavedIs, ZenonT(60)
<1>4. World' \in Worlds /\ World'.shelf = Saved(World, v, Own(v)).shelf
  BY CreateIs DEF Absorbed
<1>5. pc' \in [View -> Places] /\ hand' \in [View -> Nat] /\ HandsHold'
  <2>1. "saving" \in Places /\ UNCHANGED <<events, hand>> /\ pc[v] \in InHand
        /\ "saving" \notin {"loading", "creating"}
    BY <1>1 DEF Places, InHand, agentVars
  <2>2. QED
    BY <1>1, <2>1, HandsStay
<1>6. Becomes(World')
  BY DEF Becomes, World
<1>7. PICK x \in Worlds : Becomes(x) /\ (store = "database" => x.shelf \in {None, Row})
  BY <1>3, <1>4, <1>6
<1>8. QED
  BY <1>1, <1>5, <1>7, TypesBecome

\* The target is saved.
LEMMA SaveIs ==
  ASSUME Queued, NEW v \in View, Save(v)
  PROVE  /\ Target(v) \in Obj /\ World' = Saved(World, v, Target(v)) /\ World' \in Worlds
         /\ store = "database" => World'.shelf = Row
<1>1. pc[v] = "saving" /\ Becomes(Saved(World, v, Target(v)))
  BY DEF Save
<1>2. Target(v) \in Obj
  BY <1>1, TargetIs DEF InHand
<1>3. World \in Worlds /\ store \in {"memory", "database"}
  BY DEF Queued, TaskTypes
<1> DEFINE x == Saved(World, v, Target(v))
<1>4. x \in Worlds /\ (store = "database" => x.shelf = Row)
  BY <1>2, <1>3, SavedIs, ZenonT(60)
<1> HIDE DEF x
<1>5. World' = x
  BY <1>1, <1>4, BecomesIs DEF x
<1>6. QED
  BY <1>2, <1>4, <1>5 DEF x

\* That keeps the shape.
LEMMA TypesSave ==
  ASSUME Queued, NEW v \in View, Save(v)
  PROVE  TaskTypes'
<1>1. /\ pc[v] = "saving" /\ UNCHANGED <<store, turn, agentVars, hand>>
      /\ pc' = [pc EXCEPT ![v] = "yielding"]
  BY DEF Save
<1>2. pc' \in [View -> Places] /\ hand' \in [View -> Nat] /\ HandsHold'
  <2>1. "yielding" \in Places /\ UNCHANGED <<events, hand>> /\ pc[v] \in InHand
        /\ "yielding" \notin {"loading", "creating"}
    BY <1>1 DEF Places, InHand, agentVars
  <2>2. QED
    BY <1>1, <2>1, HandsStay
<1>3. Becomes(World')
  BY DEF Becomes, World
<1>4. PICK x \in Worlds : Becomes(x) /\ (store = "database" => x.shelf \in {None, Row})
  BY <1>3, SaveIs
<1>5. QED
  BY <1>1, <1>2, <1>4, TypesBecome

\* What a client's leaving can do to the store is to land the save it interrupts.
LEMMA DisconnectIs ==
  ASSUME Queued, Disconnect
  PROVE  \/ World' = World /\ UNCHANGED recordVars
         \/ /\ pc["main"] \in {"creating", "saving"} /\ Target("main") \in Obj
            /\ World' = Stored(World, Target("main")) /\ World' \in Worlds
            /\ store = "database" => World'.shelf = Row
<1>1. \/ UNCHANGED recordVars
      \/ pc["main"] \in {"creating", "saving"} /\ Becomes(Stored(World, Target("main")))
  BY DEF Disconnect
<1>2. UNCHANGED recordVars => World' = World
  BY DEF recordVars, World
<1>3. ASSUME pc["main"] \in {"creating", "saving"}, Becomes(Stored(World, Target("main")))
      PROVE  /\ Target("main") \in Obj
             /\ World' = Stored(World, Target("main")) /\ World' \in Worlds
             /\ store = "database" => World'.shelf = Row
  <2>1. Target("main") \in Obj
    BY <1>3, TargetIs DEF InHand, View
  <2>2. World \in Worlds /\ store \in {"memory", "database"}
    BY DEF Queued, TaskTypes
  <2> DEFINE x == Stored(World, Target("main"))
  <2>3. x \in Worlds /\ (store = "database" => x.shelf = Row)
    BY <2>1, <2>2, StoredIs
  <2> HIDE DEF x
  <2>4. World' = x
    BY <1>3, <2>3, BecomesIs DEF x
  <2>5. QED
    BY <2>1, <2>3, <2>4 DEF x
<1>4. QED
  BY <1>1, <1>2, <1>3

\* That keeps the shape.
LEMMA TypesDisconnect ==
  ASSUME Queued, Disconnect
  PROVE  TaskTypes'
<1>1. /\ UNCHANGED <<store, turn, agentVars, hand>> /\ "main" \in View
      /\ pc' = pc \/ pc' = [pc EXCEPT !["main"] = AfterEvent("main")]
  BY DEF Disconnect, View
<1>2. AfterEvent("main") \in {"done", "ready"}
  BY DEF AfterEvent
<1>3. pc \in [View -> Places]
  BY DEF Queued, TaskTypes
<1>4. pc' \in [View -> Places] /\ hand' \in [View -> Nat] /\ HandsHold'
  <2>1. CASE pc' = pc
    BY <1>1, <2>1 DEF Queued, TaskTypes, HandsHold, agentVars
  <2>2. CASE pc' = [pc EXCEPT !["main"] = AfterEvent("main")]
    <3> DEFINE place == AfterEvent("main")
    <3>1. place \in Places /\ UNCHANGED <<events, hand>> /\ place \notin InHand
          /\ place \notin {"loading", "creating"}
      BY <1>1, <1>2 DEF Places, InHand, agentVars
    <3>2. QED
      BY <1>1, <2>2, <3>1, HandsStay
  <2>3. QED
    BY <1>1, <2>1, <2>2
<1>5. CASE UNCHANGED recordVars
  BY <1>1, <1>4, <1>5, TypesQuiet
<1>6. CASE World' \in Worlds /\ (store = "database" => World'.shelf = Row)
  <2>1. Becomes(World')
    BY DEF Becomes, World
  <2>2. PICK x \in Worlds : Becomes(x) /\ (store = "database" => x.shelf \in {None, Row})
    BY <1>6, <2>1
  <2>3. QED
    BY <1>1, <1>4, <2>2, TypesBecome
<1>7. QED
  BY <1>5, <1>6, DisconnectIs

\* The agent's event is the next, with a task of its own if it is a Task.
LEMMA EnqueueIs ==
  ASSUME Queued, Len(events) < MaxEvents, NEW e \in TaskEvents, Enqueue(e),
         UNCHANGED <<cur, shelf, parts>>
  PROVE  /\ World' \in Worlds /\ Len(events') \in Nat /\ Len(events') <= Len(events) + 1
         /\ Len(events) <= Len(events') /\ \A i \in 1..Len(events) : events'[i] = events[i]
         /\ \A o \in Obj : ~(o \in 1..MaxEvents /\ o > Len(events)) => heap'[o] = heap[o]
         /\ \A i \in 1..Len(events') : i > Len(events) /\ events'[i].kind = "task" =>
              heap'[i] = Snapshot(i)
         /\ \A i \in 1..Len(events') : i <= Len(events) + 1
<1>1. /\ World \in Worlds /\ cur \in [View -> Obj \union {None}] /\ heap \in [Obj -> TaskValues]
      /\ shelf \in Obj \union {None} /\ parts \in PartsType
  BY WorldFields DEF Queued, TaskTypes
<1>2. events \in Seq(TaskEvents) /\ Len(events) \in Nat
  BY EventsAre DEF Queued
<1> DEFINE n == Len(events) + 1
<1>3. n \in 1..MaxEvents /\ n \in Nat
  BY <1>2, TaskAssumption
<1>4. CASE UNCHANGED <<events, heap>>
  <2>1. World' = World
    BY <1>4 DEF World
  <2>2. \A i \in 1..Len(events) : ~(i > Len(events))
    BY <1>2
  <2>3. QED
    BY <1>1, <1>2, <1>4, <2>1, <2>2
<1>5. CASE /\ events' = Append(events, e)
           /\ heap' = IF e.kind = "task" THEN [heap EXCEPT ![n] = Snapshot(n)] ELSE heap
  <2>1. /\ Len(events') = n /\ events'[n] = e /\ \A i \in 1..Len(events) : events'[i] = events[i]
    BY <1>2, <1>5, AppendProperties
  <2>2. Snapshot(n) \in TaskValues
    <3>1. (IF events'[n].msg THEN n ELSE 0) \in -3..MaxEvents
      BY <1>3, TaskAssumption
    <3>2. QED
      BY <3>1, Messages, TaskOfIn DEF Snapshot
  <2>3. n \in Obj
    BY <1>3, ObjIs
  <2>4. heap' \in [Obj -> TaskValues]
    BY <1>1, <1>5, <2>2, <2>3
  <2>5. World' \in Worlds
    <3>1. cur' \in [View -> Obj \union {None}] /\ shelf' \in Obj \union {None} /\ parts' \in PartsType
      BY <1>1
    <3>2. World' = [cur |-> cur', heap |-> heap', shelf |-> shelf', parts |-> parts']
      BY DEF World
    <3>3. QED
      BY <2>4, <3>1, <3>2, WorldsAre
  <2>6. \A i \in 1..n : i > Len(events) => i = n
    BY <1>2
  <2>7. e.kind = "task" => heap'[n] = Snapshot(n) /\ \A o \in Obj : o # n => heap'[o] = heap[o]
    BY <1>1, <1>5, <2>3
  <2>8. ASSUME NEW o \in Obj, ~(o \in 1..MaxEvents /\ o > Len(events)) PROVE heap'[o] = heap[o]
    <3>1. o # n
      BY <1>2, <1>3, <2>8
    <3>2. QED
      BY <1>5, <2>7, <3>1
  <2> HIDE DEF n
  <2>9. \A i \in 1..Len(events') : i > Len(events) /\ events'[i].kind = "task" =>
              heap'[i] = Snapshot(i)
    BY <2>1, <2>6, <2>7
  <2>10. Len(events) <= n /\ n <= Len(events) + 1 /\ n \in Nat
    BY <1>2 DEF n
  <2>11. \A i \in 1..n : i <= Len(events) + 1
    BY <1>2 DEF n
  <2>12. QED
    BY <2>1, <2>5, <2>8, <2>9, <2>10, <2>11
<1>6. QED
  BY <1>4, <1>5 DEF Enqueue

\* There is room for one event more.
LEMMA RoomIs ==
  ASSUME Queued, RoomLeft
  PROVE  Len(events) + Len(putting) < MaxEvents
<1>1. Len(events) \in Nat /\ Len(putting) \in Nat
  BY EventsAre DEF Queued
<1>2. QED
  BY <1>1, TaskAssumption DEF RoomLeft

\* The readers keep what they have in hand whatever the agent does.
LEMMA HandsKept ==
  ASSUME Queued, UNCHANGED <<pc, hand>>, Len(events') \in Nat, Len(events) <= Len(events'),
         \A i \in 1..Len(events) : events'[i] = events[i]
  PROVE  HandsHold'
<1>1. HandsHold /\ hand \in [View -> Nat] /\ Len(events) \in Nat
  BY EventsAre DEF Queued, TaskTypes
<1>2. ASSUME NEW v \in View
      PROVE  /\ hand[v] <= Len(events')
             /\ pc[v] \in InHand => hand[v] >= 1 /\ events'[hand[v]].kind # "foreign"
             /\ pc[v] \in {"loading", "creating"} => events'[hand[v]].kind \in {"status", "artifact"}
  <2>1. hand[v] \in Nat /\ hand[v] <= Len(events) /\ (pc[v] \in InHand => hand[v] \in 1..Len(events))
    BY <1>1 DEF HandsHold
  <2>2. pc[v] \in {"loading", "creating"} => pc[v] \in InHand
    BY DEF InHand
  <2>3. QED
    BY <1>1, <2>1, <2>2 DEF HandsHold
<1>3. QED
  BY <1>2 DEF HandsHold

\* update_status, its put or its cancellation, and what the agent publishes.
LEMMA TypesAgent ==
  ASSUME Queued, LatchInv', AgentStep
  PROVE  TaskTypes'
<1>1. Len(events) \in Nat /\ Len(putting) \in Nat /\ Len(events) + Len(putting) <= MaxEvents
      /\ World \in Worlds /\ pc \in [View -> Places] /\ hand \in [View -> Nat]
  BY EventsAre DEF Queued, TaskTypes
<1>2. Len(events') \in Nat /\ Len(putting') \in Nat
  <2>1. events' \in Seq(TaskEvents) /\ (putting' = <<>> \/ \E e \in StatusEvents : putting' = <<e>>)
    BY DEF LatchInv, AgentTypeOK
  <2>2. Len(putting') \in Nat
    BY <2>1
  <2>3. QED
    BY <2>1, <2>2, LenProperties
<1>3. UNCHANGED <<store, turn, pc, hand>>
  BY DEF AgentStep, UpdateStatus, StatusPut, StatusCancelled, Publish
<1>4. ASSUME UNCHANGED <<events, recordVars>>, Len(events) + Len(putting') <= MaxEvents
      PROVE  TaskTypes'
  <2>1. World' = World
    BY <1>4 DEF World, recordVars
  <2>2. HandsHold'
    BY <1>1, <1>3, <1>4, HandsKept
  <2>3. (store = "database" => shelf \in {None, Row})'
    BY <1>3, <1>4 DEF Queued, TaskTypes, recordVars
  <2>4. QED
    BY <1>1, <1>3, <1>4, <2>1, <2>2, <2>3 DEF Queued, TaskTypes
<1>5. ASSUME Len(events) < MaxEvents, NEW e \in TaskEvents, Enqueue(e),
             UNCHANGED <<cur, shelf, parts>>, Len(events) + 1 + Len(putting') <= MaxEvents
      PROVE  TaskTypes'
  <2>1. /\ World' \in Worlds /\ Len(events') <= Len(events) + 1
        /\ Len(events) <= Len(events') /\ \A i \in 1..Len(events) : events'[i] = events[i]
    BY <1>5, EnqueueIs
  <2>2. HandsHold'
    BY <1>1, <1>2, <1>3, <2>1, HandsKept
  <2>3. Len(events') + Len(putting') <= MaxEvents
    BY <1>1, <1>2, <1>5, <2>1, TaskAssumption
  <2>4. (store = "database" => shelf \in {None, Row})'
    BY <1>3, <1>5 DEF Queued, TaskTypes
  <2>5. QED
    BY <1>1, <1>3, <2>1, <2>2, <2>3, <2>4 DEF Queued, TaskTypes
<1>6. ASSUME NEW state, NEW msg, UpdateStatus(state, msg) PROVE TaskTypes'
  <2>1. /\ UNCHANGED <<events, recordVars>> /\ RoomLeft /\ putting = <<>>
        /\ putting' = <<[kind |-> "status", state |-> state, msg |-> msg]>>
    BY <1>6 DEF UpdateStatus
  <2>2. Len(putting) = 0 /\ Len(putting') = 1
    BY <2>1
  <2>3. Len(events) + Len(putting') <= MaxEvents
    BY <1>1, <2>1, <2>2, RoomIs, TaskAssumption
  <2>4. QED
    BY <1>4, <2>1, <2>3
<1>7. CASE StatusPut
  <2>1. PICK e \in StatusEvents : putting = <<e>>
    BY <1>7 DEF StatusPut, Queued, LatchInv, AgentTypeOK
  <2>2. e \in TaskEvents /\ Enqueue(e) /\ putting' = <<>> /\ UNCHANGED <<cur, shelf, parts>>
    BY <1>7, <2>1 DEF StatusPut, TaskEvents
  <2>3. Len(putting) = 1 /\ Len(putting') = 0
    BY <2>1, <2>2
  <2>4. Len(events) < MaxEvents /\ Len(events) + 1 + Len(putting') <= MaxEvents
    BY <1>1, <2>3, TaskAssumption
  <2>5. QED
    BY <1>5, <2>2, <2>4
<1>8. CASE StatusCancelled
  <2>1. UNCHANGED <<events, recordVars>> /\ putting' = <<>>
    BY <1>8 DEF StatusCancelled
  <2>2. Len(putting') = 0
    BY <2>1
  <2>3. Len(events) + Len(putting') <= MaxEvents
    BY <1>1, <2>2, TaskAssumption
  <2>4. QED
    BY <1>4, <2>1, <2>3
<1>9. ASSUME NEW e \in ArtifactEvents \union OtherEvents, Publish(e) PROVE TaskTypes'
  <2>1. /\ e \in TaskEvents /\ Enqueue(e) /\ UNCHANGED <<putting, cur, shelf, parts>> /\ RoomLeft
    BY <1>9 DEF Publish, TaskEvents
  <2>2. Len(events) < MaxEvents /\ Len(events) + 1 + Len(putting') <= MaxEvents
    BY <1>1, <2>1, RoomIs, TaskAssumption
  <2>3. QED
    BY <1>5, <2>1, <2>2
<1>10. QED
  BY <1>6, <1>7, <1>8, <1>9 DEF AgentStep

\* The steps that touch neither the tasks nor the store.
LEMMA TypesOther ==
  ASSUME Queued
  PROVE  /\ \A v \in View : TakeForeign(v) \/ Yield(v) => TaskTypes'
         /\ Resubscribe \/ TapEnds \/ UNCHANGED taskVars => TaskTypes'
<1>1. hand \in [View -> Nat] /\ pc \in [View -> Places] /\ HandsHold /\ "tap" \in View
      /\ Len(events) \in Nat
  BY EventsAre DEF Queued, TaskTypes, View
<1>2. ASSUME NEW v \in View, TakeForeign(v) PROVE TaskTypes'
  <2>1. /\ Takes(v) /\ UNCHANGED <<store, turn, agentVars, recordVars>>
        /\ \E place \in {"strayed", "failed"} : pc' = [pc EXCEPT ![v] = place]
    BY <1>2 DEF TakeForeign
  <2>2. PICK place \in {"strayed", "failed"} : pc' = [pc EXCEPT ![v] = place]
    BY <2>1
  <2> DEFINE i == hand[v] + 1
  <2>3. hand' = [hand EXCEPT ![v] = i] /\ i \in 1..Len(events)
    BY <2>1, TakesIs
  <2>4. i \in Nat /\ i <= Len(events) /\ place \in Places /\ place \notin InHand
        /\ place \notin {"loading", "creating"} /\ UNCHANGED events
    BY <2>1, <2>3 DEF Places, InHand, agentVars
  <2> HIDE DEF i
  <2>5. pc' \in [View -> Places] /\ hand' \in [View -> Nat] /\ HandsHold'
    BY <2>2, <2>3, <2>4, HandsMove
  <2>6. QED
    BY <2>1, <2>5, TypesQuiet
<1>3. ASSUME NEW v \in View, Yield(v) PROVE TaskTypes'
  <2>1. /\ pc' = [pc EXCEPT ![v] = AfterEvent(v)]
        /\ UNCHANGED <<store, turn, agentVars, hand, recordVars>>
    BY <1>3 DEF Yield
  <2> DEFINE place == AfterEvent(v)
  <2>2. place \in Places /\ UNCHANGED <<events, hand>> /\ place \notin InHand
        /\ place \notin {"loading", "creating"}
    BY <2>1 DEF Places, InHand, agentVars, AfterEvent
  <2> HIDE DEF place
  <2>3. pc' \in [View -> Places] /\ hand' \in [View -> Nat] /\ HandsHold'
    BY <2>1, <2>2, HandsStay DEF place
  <2>4. QED
    BY <2>1, <2>3, TypesQuiet
<1>4. CASE Resubscribe
  <2>1. /\ pc' = [pc EXCEPT !["tap"] = "ready"] /\ hand' = [hand EXCEPT !["tap"] = Len(events)]
        /\ UNCHANGED <<store, turn, agentVars, recordVars>>
    BY <1>4 DEF Resubscribe
  <2>2. "ready" \in Places /\ "ready" \notin InHand /\ "ready" \notin {"loading", "creating"}
        /\ UNCHANGED events /\ Len(events) <= Len(events)
    BY <1>1, <2>1 DEF Places, InHand, agentVars
  <2>3. pc' \in [View -> Places] /\ hand' \in [View -> Nat] /\ HandsHold'
    BY <1>1, <2>1, <2>2, HandsMove
  <2>4. QED
    BY <2>1, <2>3, TypesQuiet
<1>5. CASE TapEnds
  <2>1. /\ pc' = [pc EXCEPT !["tap"] = "done"]
        /\ UNCHANGED <<store, turn, agentVars, hand, recordVars>>
    BY <1>5 DEF TapEnds
  <2>2. "done" \in Places /\ "done" \notin InHand /\ "done" \notin {"loading", "creating"}
        /\ UNCHANGED <<events, hand>>
    BY <2>1 DEF Places, InHand, agentVars
  <2>3. pc' \in [View -> Places] /\ hand' \in [View -> Nat] /\ HandsHold'
    BY <1>1, <2>1, <2>2, HandsStay
  <2>4. QED
    BY <2>1, <2>3, TypesQuiet
<1>6. CASE UNCHANGED taskVars
  <2>1. UNCHANGED <<store, turn, agentVars, recordVars, pc, hand, events>>
    BY <1>6 DEF taskVars, agentVars
  <2>2. HandsHold'
    BY <1>1, <2>1 DEF HandsHold
  <2>3. QED
    BY <1>1, <2>1, <2>2, TypesQuiet
<1>7. QED
  BY <1>2, <1>3, <1>4, <1>5, <1>6

\* Every step keeps the shape.
LEMMA TaskTypesStep ==
  ASSUME Queued, LatchInv', [TaskNext]_taskVars
  PROVE  TaskTypes'
<1>1. ASSUME NEW v \in View, ReaderStep(v) PROVE TaskTypes'
  BY <1>1, TypesTakeInMemory, TypesTakeToDatabase, TypesLoad, TypesCreate, TypesSave, TypesOther
  DEF ReaderStep
<1>2. QED
  BY <1>1, TypesAgent, TypesDisconnect, TypesOther DEF TaskNext

\* Every variable keeps its shape, and no reader is ahead of the agent.
THEOREM TaskTyped == TaskSpec => []TaskTypeOK
<1>1. TaskInit => LatchInv /\ TaskTypes
  BY LatchInit, TaskTypesInit
<1>2. ASSUME LatchInv, TaskTypes, [TaskNext]_taskVars
      PROVE  LatchInv' /\ TaskTypes'
  BY <1>2, LatchStep, TaskTypesStep DEF Queued
<1>3. ASSUME LatchInv, TaskTypes PROVE TaskTypeOK
  <2>1. /\ events \in Seq(TaskEvents) /\ putting \in Seq(StatusEvents)
        /\ Len(events) + Len(putting) <= MaxEvents
    <3>1. putting = <<>> \/ \E e \in StatusEvents : putting = <<e>>
      BY <1>3 DEF LatchInv, AgentTypeOK
    <3>2. putting \in Seq(StatusEvents)
      <4>1. <<>> \in Seq(StatusEvents) /\ \A e \in StatusEvents : <<e>> \in Seq(StatusEvents)
        OBVIOUS
      <4>2. QED
        BY <3>1, <4>1
    <3>3. events \in Seq(TaskEvents)
      BY <1>3, EventsAre
    <3>4. QED
      BY <1>3, <3>2, <3>3 DEF TaskTypes
  <2>2. \A v \in View : hand[v] \in 0..Len(events) /\ cur[v] \in Obj \union {None}
    BY <1>3, EventsAre, WorldFields DEF TaskTypes, HandsHold
  <2>3. /\ \A o \in Obj : heap[o] \in TaskValues
        /\ \A i \in 1..MaxEvents : parts[i] \in Seq(0..MaxEvents)
        /\ shelf \in Obj \union {None}
    BY <1>3, WorldFields DEF TaskTypes, PartsType
  <2>4. (shelf # None /\ store = "database") => shelf = Row
    BY <1>3 DEF TaskTypes
  <2>5. QED
    BY <2>1, <2>2, <2>3, <2>4 DEF TaskTypeOK
<1>4. QED
  BY <1>1, <1>2, <1>3, PTL DEF TaskSpec

-----------------------------------------------------------------------------
(* The ledger: how far the task of the manager, and the stored one, are, as *)
(* long as one manager reads the queue.  w is the world, at the place of    *)
(* the reader, i the event it has in hand, lost the event that was in hand  *)
(* when the client left, on whether it is still there.                      *)

\* How many events the manager has dealt with.
Settled(at, i) == IF at \in {"loading", "creating", "saving"} THEN i - 1 ELSE i

\* Object o is what n events tell, all of them or all but the lost one.
Tells(w, o, n, D) == TellsOf(w.heap[o], w.parts, n, D)
TellsAll(w, o, n, lost) == Tells(w, o, n, {}) \/ Tells(w, o, n, {lost})
Unseen(n, lost) == n = 0 \/ (n = 1 /\ lost = 1)

\* The row refers to no event.
OwnParts(w) == \A k \in 1..Len(w.heap[Row].artifacts) : w.heap[Row].artifacts[k].ref = 0
RowTells(w, n, lost) ==
  /\ OwnParts(w)
  /\ TellsAll(w, Row, n, lost) \/ (~turn.new /\ w.heap[Row] = Asked /\ Unseen(n, lost))

MineOf(w) == w.cur["main"]
TargetOf(w, i) ==
  IF events[i].kind = "task" THEN i ELSE IF MineOf(w) # None THEN MineOf(w) ELSE Own("main")

ReaderShape(w, at, i, lost, on) ==
  /\ at \in Places \ {"off"} /\ i \in Nat /\ (at # "ready" => i > 0)
  /\ lost \in Nat /\ lost <= i /\ (on => lost = 0) /\ (at \in InHand => lost < i)
  /\ store = "memory" => lost = 0 /\ at \notin {"loading", "creating", "saving"}
  /\ MineOf(w) \in {None, Own("main")} \union 1..i \/ (store = "memory" /\ MineOf(w) = Row)
  /\ ~turn.new => MineOf(w) # None

\* What is still to be read is as the agent made it, and so are the parts of the
\* event in hand.
Untouched(w, at, i) ==
  /\ \A j \in 1..MaxEvents : j >= i => w.parts[j] = <<j>>
  /\ \A j \in 1..Len(events) :
       j >= i /\ events[j].kind = "task" /\ MineOf(w) # j => w.heap[j] = First(j)
  /\ at = "yielding" /\ events[i].kind = "task" => w.heap[i] = First(i)

MemoryLedger(w, i) ==
  /\ w.shelf = MineOf(w)
  /\ MineOf(w) = None => i = 0
  /\ MineOf(w) # None => Tells(w, MineOf(w), i, {})

DatabaseLedger(w, at, i, lost) ==
  /\ MineOf(w) = None => Unseen(Settled(at, i), lost)
  /\ w.shelf = Row => RowTells(w, Settled(at, i), lost)
  /\ w.shelf = None => MineOf(w) = None
  /\ at \in {"ready", "yielding", "done"} /\ MineOf(w) # None => TellsAll(w, MineOf(w), i, lost)
  /\ at \in {"loading", "creating"} => MineOf(w) = None
  /\ at = "creating" => w.shelf = None /\ w.heap[Own("main")] = Fresh("main")
  /\ at = "saving" /\ events[i].kind = "task" =>
       MineOf(w) # i /\ (MineOf(w) # None => TellsAll(w, MineOf(w), i - 1, lost))
  /\ at = "saving" /\ events[i].kind # "task" => TellsAll(w, TargetOf(w, i), i, lost)

Kept(w, at, i, lost, on) ==
  /\ ReaderShape(w, at, i, lost, on) /\ Untouched(w, at, i)
  /\ store = "memory" => MemoryLedger(w, i)
  /\ store = "database" => DatabaseLedger(w, at, i, lost)

\* An event of another task was in the way: nothing more is stored of this one.
Gone == {"failed", "strayed"}

LedgerInv ==
  from = 0 =>
    /\ pc["tap"] = "off"
    /\ pc["main"] \notin Gone => Kept(World, pc["main"], hand["main"], cut, online)

\* The log is about the queue and nothing else.
LEMMA LogQuiet ==
  ASSUME UNCHANGED <<turn, events>>
  PROVE  \A n, D : Log(n, D)' = Log(n, D)
<1> TAKE n, D
<1>1. Tasks(n, D)' = Tasks(n, D)
  BY DEF Tasks
<1>2. Counts(n, D)' = Counts(n, D)
  BY <1>1 DEF Counts
<1>3. Spoken(n, D)' = Spoken(n, D)
  BY <1>2 DEF Spoken
<1>4. Latest(n, D)' = Latest(n, D)
  BY <1>3 DEF Latest
<1>5. Replaced(n, D)' = Replaced(n, D)
  BY <1>3, <1>4 DEF Replaced
<1>6. Start(n, D)' = Start(n, D)
  BY <1>1 DEF Start, Asked
<1>7. \A id : Chunks(n, D, id)' = Chunks(n, D, id)
  BY <1>2 DEF Chunks
<1>8. \A id : Firsts(n, D, id)' = Firsts(n, D, id)
  BY <1>7 DEF Firsts
<1>9. \A old : Openings(n, D, old)' = Openings(n, D, old)
  BY <1>2, <1>8 DEF Openings
<1>10. \A id : Content(n, D, id)' = Content(n, D, id)
  BY <1>7, <1>8 DEF Content
<1>11. Old(n, D)' = Old(n, D) /\ LogArtifacts(n, D, Old(n, D))' = LogArtifacts(n, D, Old(n, D))
  <2>1. Old(n, D)' = Old(n, D)
    BY <1>1 DEF Old
  <2>2. \A old : Ids(n, D, old)' = Ids(n, D, old)
    BY <1>9 DEF Ids
  <2>3. \A old, id : Text(n, D, old, id)' = Text(n, D, old, id)
    BY <1>8, <1>10 DEF Text
  <2>4. \A old : LogArtifacts(n, D, old)' = LogArtifacts(n, D, old)
    BY <2>2, <2>3 DEF LogArtifacts
  <2>5. QED
    BY <2>1, <2>4
<1>12. Log(n, D)' =
         [state |-> IF Latest(n, D) # 0 /\ events[Latest(n, D)].kind = "status"
                      THEN events[Latest(n, D)].state ELSE Start(n, D).state,
          msg |-> IF Latest(n, D) # 0 /\ events[Latest(n, D)].msg THEN Latest(n, D) ELSE 0,
          history |-> Start(n, D).history \o InOrder(Replaced(n, D), n),
          artifacts |-> LogArtifacts(n, D, Old(n, D))]
  <2>1. Log(n, D)' =
          [state |-> IF Latest(n, D)' # 0 /\ events'[Latest(n, D)'].kind = "status"
                       THEN events'[Latest(n, D)'].state ELSE Start(n, D)'.state,
           msg |-> IF Latest(n, D)' # 0 /\ events'[Latest(n, D)'].msg THEN Latest(n, D)' ELSE 0,
           history |-> Start(n, D)'.history \o InOrder(Replaced(n, D)', n),
           artifacts |-> LogArtifacts(n, D, Old(n, D))']
    BY DEF Log, Start, Old
  <2>2. QED
    BY <1>4, <1>5, <1>6, <1>11, <2>1
<1>13. QED
  BY <1>12, LogIs

\* So is what an object tells.
LEMMA TellsQuiet ==
  ASSUME UNCHANGED <<turn, events>>
  PROVE  \A t, ps, n, D : TellsOf(t, ps, n, D)' <=> TellsOf(t, ps, n, D)
<1> TAKE t, ps, n, D
<1>1. Log(n, D)' = Log(n, D)
  BY LogQuiet
<1>2. SoundTo(t.artifacts, n)' <=> SoundTo(t.artifacts, n)
  BY DEF SoundTo, Distinct, Refers
<1>3. QED
  BY <1>1, <1>2 DEF TellsOf

\* So is the ledger.
LEMMA KeptQuiet ==
  ASSUME UNCHANGED <<store, turn, events>>
  PROVE  \A w, at, i, lost, on : Kept(w, at, i, lost, on)' <=> Kept(w, at, i, lost, on)
<1> TAKE w, at, i, lost, on
<1>1. \A o, n, D : Tells(w, o, n, D)' <=> Tells(w, o, n, D)
  BY TellsQuiet DEF Tells
<1>2. \A o, n, l : TellsAll(w, o, n, l)' <=> TellsAll(w, o, n, l)
  BY <1>1 DEF TellsAll
<1>3. \A n, l : RowTells(w, n, l)' <=> RowTells(w, n, l)
  <2>1. Asked' = Asked /\ (OwnParts(w)' <=> OwnParts(w))
    BY DEF Asked, OwnParts
  <2>2. QED
    BY <1>2, <2>1 DEF RowTells, Unseen
<1>4. ReaderShape(w, at, i, lost, on)' <=> ReaderShape(w, at, i, lost, on)
  BY DEF ReaderShape, MineOf
<1>5. \A j : First(j)' = First(j)
  BY DEF First
<1>6. Untouched(w, at, i)' <=> Untouched(w, at, i)
  BY <1>5 DEF Untouched, MineOf
<1>7. MemoryLedger(w, i)' <=> MemoryLedger(w, i)
  BY <1>1 DEF MemoryLedger, MineOf
<1>8. TargetOf(w, i)' = TargetOf(w, i)
  BY DEF TargetOf, MineOf
<1>9. DatabaseLedger(w, at, i, lost)' <=> DatabaseLedger(w, at, i, lost)
  BY <1>2, <1>3, <1>8 DEF DatabaseLedger, MineOf, Settled, Unseen
<1>10. QED
  BY <1>4, <1>6, <1>7, <1>9 DEF Kept

\* What the reader has to show after a step of its own.
LEMMA LedgerMoves ==
  ASSUME LedgerInv, UNCHANGED <<store, turn, events, from>>, pc'["tap"] = pc["tap"],
         from = 0 /\ pc'["main"] \notin Gone =>
           Kept(World', pc'["main"], hand'["main"], cut', online')
  PROVE  LedgerInv'
<1>1. SUFFICES ASSUME from = 0, pc'["main"] \notin Gone
               PROVE  Kept(World, pc["main"], hand["main"], cut, online)'
  BY DEF LedgerInv
<1>2. QED
  BY <1>1, KeptQuiet

\* Every event of the queue is heard of.
LEMMA HeardAll ==
  ASSUME Queued, NEW n \in Nat, n <= Len(events)
  PROVE  Heard(n)
<1>1. \A i \in 1..Len(events) : events[i] \in TaskEvents
  BY EventsAre DEF Queued
<1>2. Len(events) \in Nat
  BY EventsAre DEF Queued
<1>3. \A i \in 1..n : i \in 1..Len(events)
  BY <1>2
<1>4. turn \in Turns
  BY DEF Queued, TaskTypes
<1>5. QED
  BY <1>1, <1>3, <1>4 DEF Heard

\* An object and its parts, elsewhere.
LEMMA TellsSame ==
  ASSUME NEW t \in TaskValues, NEW ps, NEW qs, NEW n, NEW D, TellsOf(t, ps, n, D),
         \A k \in 1..Len(t.artifacts) : t.artifacts[k].ref # 0 =>
           ps[t.artifacts[k].ref] = qs[t.artifacts[k].ref]
  PROVE  TellsOf(t, qs, n, D)
<1>1. t.artifacts \in Seq(Refs)
  BY DEF TaskValues, Refs
<1>2. Copied(t.artifacts, ps) = Copied(t.artifacts, qs)
  BY <1>1, CopiedSame
<1>3. Copy(t, ps) = Copy(t, qs)
  BY <1>2, CopyIs
<1>4. QED
  BY <1>3 DEF TellsOf

\* The same object in another world tells the same, if the parts are the same.
LEMMA TellsElsewhere ==
  ASSUME NEW w \in Worlds, NEW x \in Worlds, NEW o \in Obj, NEW p \in Obj,
         x.heap[p] = w.heap[o], NEW n \in Nat, n <= MaxEvents,
         \A r \in 1..n : x.parts[r] = w.parts[r], NEW D, Tells(w, o, n, D)
  PROVE  Tells(x, p, n, D)
<1> DEFINE t == w.heap[o]
<1>1. t \in TaskValues
  BY WorldsFields
<1>2. TellsOf(t, w.parts, n, D)
  BY DEF Tells
<1>3. \A k \in 1..Len(t.artifacts) : t.artifacts[k].ref # 0 => t.artifacts[k].ref \in 1..n
  BY <1>2 DEF TellsOf, SoundTo, Refers
<1>4. \A k \in 1..Len(t.artifacts) : t.artifacts[k].ref # 0 =>
        w.parts[t.artifacts[k].ref] = x.parts[t.artifacts[k].ref]
  BY <1>3
<1> HIDE DEF t
<1>5. TellsOf(t, x.parts, n, D)
  BY <1>1, <1>2, <1>4, TellsSame
<1>6. QED
  BY <1>5 DEF Tells, t

\* So it does with an event lost.
LEMMA TellsAllElsewhere ==
  ASSUME NEW w \in Worlds, NEW x \in Worlds, NEW o \in Obj, NEW p \in Obj,
         x.heap[p] = w.heap[o], NEW n \in Nat, n <= MaxEvents,
         \A r \in 1..n : x.parts[r] = w.parts[r], NEW lost, TellsAll(w, o, n, lost)
  PROVE  TellsAll(x, p, n, lost)
BY TellsElsewhere DEF TellsAll

\* The row stays true whatever becomes of the parts of events.
LEMMA RowStays ==
  ASSUME NEW w \in Worlds, NEW x \in Worlds, x.heap[Row] = w.heap[Row], NEW n, NEW lost,
         RowTells(w, n, lost)
  PROVE  RowTells(x, n, lost)
<1> DEFINE t == w.heap[Row]
<1>1. t \in TaskValues
  BY WorldsFields, ObjIs
<1>2. \A k \in 1..Len(t.artifacts) : t.artifacts[k].ref = 0
  BY DEF RowTells, OwnParts
<1>3. ASSUME NEW D, Tells(w, Row, n, D) PROVE Tells(x, Row, n, D)
  <2>1. TellsOf(t, w.parts, n, D)
    BY <1>3 DEF Tells
  <2> HIDE DEF t
  <2>2. TellsOf(t, x.parts, n, D)
    BY <1>1, <1>2, <2>1, TellsSame
  <2>3. QED
    BY <2>2 DEF Tells, t
<1>4. TellsAll(w, Row, n, lost) => TellsAll(x, Row, n, lost)
  BY <1>3 DEF TellsAll
<1>5. OwnParts(x)
  BY <1>2 DEF OwnParts
<1>6. QED
  BY <1>4, <1>5 DEF RowTells

\* A copy tells the same, and refers to nothing.
LEMMA CopyTells ==
  ASSUME NEW t \in TaskValues, NEW ps \in PartsType, NEW qs, NEW n \in Nat, NEW D,
         TellsOf(t, ps, n, D)
  PROVE  LET c == Copy(t, ps) IN
         TellsOf(c, qs, n, D) /\ \A k \in 1..Len(c.artifacts) : c.artifacts[k].ref = 0
<1> DEFINE c == Copy(t, ps)
           A == t.artifacts
           B == c.artifacts
<1>1. A \in Seq(Refs) /\ SoundTo(A, n) /\ c = Log(n, D)
  BY DEF TaskValues, Refs, TellsOf
<1>2. B = Copied(A, ps) /\ c \in TaskValues
  BY CopyIs, CopyIn
<1>3. CopiedFrom(A, Copied(A, ps), ps)
  BY <1>1, CopiedIs
<1>4. /\ B \in Seq(Refs) /\ B \in Seq(Values) /\ Len(B) = Len(A)
      /\ \A k \in 1..Len(A) : B[k] = ArtifactOf(A[k].id, 0, PartsOf(A[k], ps))
  BY <1>2, <1>3 DEF CopiedFrom
<1>5. \A k \in 1..Len(B) : B[k].ref = 0 /\ B[k].id = A[k].id
  BY <1>4, ArtifactFields
<1>6. SoundTo(B, n)
  BY <1>1, <1>4, <1>5 DEF SoundTo, Distinct, Refers
<1>7. Copy(c, qs) = c
  <2> DEFINE C == Copied(B, qs)
  <2>1. \A k \in 1..Len(B) : B[k] = ArtifactOf(B[k].id, 0, B[k].parts)
    <3>1. \A k \in 1..Len(B) : B[k] \in Values
      BY <1>4
    <3>2. QED
      BY <3>1 DEF Values, ArtifactOf
  <2>2. \A k \in 1..Len(B) : PartsOf(B[k], qs) = B[k].parts
    BY <1>5 DEF PartsOf
  <2>3. DOMAIN B = 1..Len(B) /\ B = [k \in 1..Len(B) |-> B[k]]
    BY <1>4
  <2> HIDE DEF B, c, A
  <2>4. C = [k \in 1..Len(B) |-> ArtifactOf(B[k].id, 0, PartsOf(B[k], qs))]
    BY <2>3 DEF Copied
  <2>5. C = B
    BY <2>1, <2>2, <2>3, <2>4
  <2>6. Copy(c, qs) = [state |-> c.state, msg |-> c.msg, history |-> c.history, artifacts |-> B]
    BY <1>2, <2>5, CopyIs DEF B
  <2>7. QED
    BY <1>2, <2>6 DEF TaskValues, B
<1>8. QED
  BY <1>1, <1>5, <1>6, <1>7 DEF TellsOf

\* What the store copies, and what a manager copies from there.
LEMMA RowCopied ==
  ASSUME NEW w \in Worlds, NEW x \in Worlds, NEW o \in Obj,
         x.heap[Row] = Copy(w.heap[o], w.parts), NEW n \in Nat, NEW lost,
         TellsAll(w, o, n, lost)
  PROVE  RowTells(x, n, lost)
<1> DEFINE t == w.heap[o]
<1>1. t \in TaskValues /\ w.parts \in PartsType
  BY WorldsFields
<1>2. ASSUME NEW D, Tells(w, o, n, D)
      PROVE  Tells(x, Row, n, D) /\ OwnParts(x)
  <2>1. TellsOf(t, w.parts, n, D)
    BY <1>2 DEF Tells
  <2> HIDE DEF t
  <2>2. TellsOf(Copy(t, w.parts), x.parts, n, D)
        /\ \A k \in 1..Len(Copy(t, w.parts).artifacts) : Copy(t, w.parts).artifacts[k].ref = 0
    BY <1>1, <2>1, CopyTells
  <2>3. QED
    BY <2>2 DEF Tells, OwnParts, t
<1>3. QED
  BY <1>2 DEF TellsAll, RowTells

\* The manager's copy tells what the row told.
LEMMA FoundTells ==
  ASSUME NEW w \in Worlds, NEW x \in Worlds, NEW o \in Obj, NEW p \in Obj,
         x.heap[p] = Copy(w.heap[o], w.parts), NEW n \in Nat, NEW lost,
         TellsAll(w, o, n, lost)
  PROVE  TellsAll(x, p, n, lost)
<1> DEFINE t == w.heap[o]
<1>1. t \in TaskValues /\ w.parts \in PartsType
  BY WorldsFields
<1>2. ASSUME NEW D, Tells(w, o, n, D)
      PROVE  Tells(x, p, n, D)
  <2>1. TellsOf(t, w.parts, n, D)
    BY <1>2 DEF Tells
  <2> HIDE DEF t
  <2>2. TellsOf(Copy(t, w.parts), x.parts, n, D)
    BY <1>1, <2>1, CopyTells
  <2>3. QED
    BY <2>2 DEF Tells, t
<1>3. QED
  BY <1>2 DEF TellsAll

\* A task whose artifacts have parts of their own is its own copy.
LEMMA BareTells ==
  ASSUME NEW t \in TaskValues, NEW ps \in PartsType, NEW n, NEW D, Log(n, D) = t,
         Distinct(t.artifacts), \A k \in 1..Len(t.artifacts) : t.artifacts[k].ref = 0
  PROVE  TellsOf(t, ps, n, D)
<1> DEFINE A == t.artifacts
<1>1. A \in Seq(Refs) /\ DOMAIN A = 1..Len(A) /\ A = [k \in 1..Len(A) |-> A[k]]
  BY LenProperties DEF TaskValues, Refs
<1>2. ASSUME NEW k \in 1..Len(A) PROVE ArtifactOf(A[k].id, 0, PartsOf(A[k], ps)) = A[k]
  <2> DEFINE a == A[k]
  <2>1. a \in Refs /\ a.ref = 0
    BY <1>1, <1>2, ElementOfSeq
  <2> HIDE DEF a
  <2>2. PartsOf(a, ps) = a.parts
    BY <2>1 DEF PartsOf
  <2>3. a = ArtifactOf(a.id, 0, a.parts)
    BY <2>1 DEF Refs, ArtifactOf
  <2>4. QED
    BY <2>2, <2>3 DEF a
<1>3. Copied(A, ps) = A
  BY <1>1, <1>2 DEF Copied
<1>4. Copy(t, ps) = [state |-> t.state, msg |-> t.msg, history |-> t.history, artifacts |-> t.artifacts]
  BY <1>3, CopyIs
<1>5. Copy(t, ps) = t
  BY <1>4 DEF TaskValues
<1>6. SoundTo(A, n)
  BY DEF SoundTo, Refers
<1>7. QED
  BY <1>5, <1>6 DEF TellsOf

\* A new task has no artifacts.
LEMMA BareTask ==
  ASSUME NEW state, NEW msg, NEW history
  PROVE  LET A == TaskOf(state, msg, history).artifacts IN
         Distinct(A) /\ \A k \in 1..Len(A) : A[k].ref = 0
<1>1. TaskOf(state, msg, history).artifacts = <<>> /\ Len(<<>>) = 0
  BY DEF TaskOf
<1>2. QED
  BY <1>1 DEF Distinct

\* A Task event tells all there is.
LEMMA TaskTells ==
  ASSUME NEW w \in Worlds, NEW n \in Nat, n + 1 \in 1..MaxEvents, NEW D, n + 1 \notin D,
         events[n + 1].kind = "task", events[n + 1].msg \in BOOLEAN, NEW o \in Obj,
         w.heap[o] = First(n + 1)
  PROVE  Tells(w, o, n + 1, D)
<1>1. Log(n + 1, D) = First(n + 1)
  BY LogTask
<1>2. First(n + 1) \in TaskValues /\ w.parts \in PartsType
  BY WorldsFields
<1>3. TellsOf(First(n + 1), w.parts, n + 1, D)
  BY <1>1, <1>2, BareTells, BareTask DEF First
<1>4. QED
  BY <1>3 DEF Tells

\* What no event was applied to.
LEMMA FreshTells ==
  ASSUME NEW w \in Worlds, NEW o \in Obj, turn \in Turns, turn.new, w.heap[o] = Fresh("main"),
         NEW n \in {0, 1}, NEW D, n = 0 \/ 1 \in D
  PROVE  Tells(w, o, n, D)
<1>1. Log(n, D) = Fresh("main")
  BY LogBefore
<1>2. Fresh("main") \in TaskValues /\ w.parts \in PartsType
  BY WorldsFields, FreshIn DEF View
<1>3. TellsOf(Fresh("main"), w.parts, n, D)
  BY <1>1, <1>2, BareTells, BareTask DEF Fresh
<1>4. QED
  BY <1>3 DEF Tells

\* If nothing is lost, all is told.
LEMMA TellsNone ==
  ASSUME NEW w, NEW o, NEW n \in Nat, TellsAll(w, o, n, 0)
  PROVE  Tells(w, o, n, {})
<1>1. SameUpTo({0}, {}, n)
  BY DEF SameUpTo
<1>2. Log(n, {0}) = Log(n, {})
  BY <1>1, LogSame
<1>3. QED
  BY <1>2 DEF TellsAll, Tells, TellsOf

\* If the next event is lost, what there was is still told.
LEMMA TellsLost ==
  ASSUME NEW w, NEW o, NEW n \in Nat, TellsAll(w, o, n, 0)
  PROVE  TellsAll(w, o, n + 1, n + 1)
<1>1. SameUpTo({n + 1}, {}, n)
  BY DEF SameUpTo
<1>2. Log(n, {n + 1}) = Log(n, {})
  BY <1>1, LogSame
<1>3. n + 1 \in {n + 1}
  OBVIOUS
<1>4. Log(n + 1, {n + 1}) = Log(n, {n + 1})
  BY <1>3, LogLost
<1>5. Tells(w, o, n, {})
  BY TellsNone
<1>6. TellsOf(w.heap[o], w.parts, n, {})
  BY <1>5 DEF Tells
<1>7. SoundTo(w.heap[o].artifacts, n + 1)
  BY <1>6, SoundLater DEF TellsOf
<1>8. QED
  BY <1>2, <1>4, <1>6, <1>7 DEF TellsAll, Tells, TellsOf

\* What is told may be thought lost.
LEMMA TellsAnyway ==
  ASSUME NEW w, NEW o, NEW n \in Nat, NEW lost, TellsAll(w, o, n, 0)
  PROVE  TellsAll(w, o, n, lost)
BY TellsNone DEF TellsAll

\* The next event is applied.
LEMMA AbsorbTellsAll ==
  ASSUME NEW w \in Worlds, NEW o \in Obj, NEW n \in Nat, n + 1 \in 1..MaxEvents, NEW lost \in Nat,
         lost <= n, Heard(n + 1), events[n + 1].kind \in {"status", "artifact"},
         w.parts[n + 1] = <<n + 1>>, TellsAll(w, o, n, lost)
  PROVE  TellsAll(Absorb(w, o, n + 1), o, n + 1, lost)
<1>1. n + 1 \notin {} /\ n + 1 \notin {lost}
  OBVIOUS
<1>2. \A D : n + 1 \notin D /\ Tells(w, o, n, D) => Tells(Absorb(w, o, n + 1), o, n + 1, D)
  BY AbsorbTells DEF Tells
<1>3. QED
  BY <1>1, <1>2 DEF TellsAll

\* Parts from the event in hand on are not touched: an artifact refers to an
\* earlier event.
LEMMA AbsorbLeaves ==
  ASSUME NEW w \in Worlds, NEW x, NEW o \in Obj, NEW n \in Nat, NEW D, Tells(w, o, n, D),
         Absorbed(w, x, o), NEW j \in 1..MaxEvents, j > n
  PROVE  x.parts[j] = w.parts[j]
<1>1. \A k \in 1..Len(w.heap[o].artifacts) : w.heap[o].artifacts[k].ref # j
  BY DEF Tells, TellsOf, SoundTo, Refers
<1>2. QED
  BY <1>1 DEF Absorbed

\* A follow-up as the handler prepared it.
LEMMA PreparedTells ==
  ASSUME NEW w \in Worlds, NEW o \in Obj, turn \in Turns, ~turn.new,
         w.heap[o] = WithMessage(Asked, FollowUp)
  PROVE  Tells(w, o, 0, {})
<1> DEFINE t == WithMessage(Asked, FollowUp)
<1>1. Log(0, {}) = t
  BY LogBefore
<1>2. t.artifacts = Brought
  BY PreparedIs
<1>3. Distinct(t.artifacts) /\ \A k \in 1..Len(t.artifacts) : t.artifacts[k].ref = 0
  BY <1>2, BroughtIs, ArtifactFields
<1>4. w.parts \in PartsType /\ t \in TaskValues
  BY AskedIn, WorldsFields
<1> HIDE DEF t
<1>5. TellsOf(t, w.parts, 0, {})
  BY <1>1, <1>3, <1>4, BareTells
<1>6. QED
  BY <1>5 DEF Tells, t

\* The ledger is right at the start.
LEMMA LedgerInit ==
  ASSUME TaskInit, TaskTypes
  PROVE  LedgerInv
<1> DEFINE own == IF store = "memory" THEN Row ELSE Own("main")
<1>1. /\ store \in {"memory", "database"} /\ turn \in Turns /\ World \in Worlds
      /\ heap \in [Obj -> TaskValues]
  BY WorldFields, TaskAssumption DEF TaskTypes
<1>2. /\ pc["main"] = "ready" /\ pc["tap"] = "off" /\ hand["main"] = 0 /\ cut = 0 /\ online = TRUE
      /\ events = <<>> /\ \A j \in 1..MaxEvents : parts[j] = <<j>>
  BY DEF TaskInit, View
<1>3. turn.new => shelf = None /\ cur["main"] = None
  BY DEF TaskInit, View
<1>4. ~turn.new => shelf = Row /\ cur["main"] = own
  BY <1>1 DEF TaskInit, View
<1>5. ~turn.new => /\ heap[own] = WithMessage(Asked, FollowUp)
                   /\ store = "database" => heap[Row] = Asked
  <2> DEFINE blank == [o \in Obj |-> TaskOf("submitted", 0, <<>>)]
  <2>1. ~turn.new => heap = [blank EXCEPT ![Row] = Asked, ![own] = WithMessage(Asked, FollowUp)]
    BY <1>1 DEF TaskInit
  <2>2. Row \in Obj /\ own \in Obj /\ (store = "database" => own # Row)
    BY ObjIs DEF View
  <2> HIDE DEF own
  <2>3. QED
    BY <2>1, <2>2
<1>6. own \in Obj /\ World.heap = heap /\ World.cur = cur /\ World.shelf = shelf /\ World.parts = parts
  BY ObjIs DEF View, World
<1>7. ASSUME ~turn.new PROVE Tells(World, own, 0, {})
  <2> HIDE DEF own
  <2>1. own \in Obj /\ World.heap[own] = WithMessage(Asked, FollowUp)
    BY <1>5, <1>6, <1>7
  <2>2. QED
    BY <1>1, <1>7, <2>1, PreparedTells
<1>8. ReaderShape(World, "ready", 0, 0, TRUE)
  <2>1. MineOf(World) \in {None, Own("main")} \/ (store = "memory" /\ MineOf(World) = Row)
    BY <1>1, <1>3, <1>4, <1>6 DEF MineOf
  <2>2. ~turn.new => MineOf(World) # None
    BY <1>4, <1>6, ObjIs DEF MineOf
  <2>3. "ready" \in Places \ {"off"} /\ "ready" \notin InHand
    BY DEF Places, InHand
  <2>4. QED
    BY <2>1, <2>2, <2>3 DEF ReaderShape
<1>9. Untouched(World, "ready", 0)
  BY <1>2, <1>6 DEF Untouched
<1>10. store = "memory" => MemoryLedger(World, 0)
  BY <1>1, <1>3, <1>4, <1>6, <1>7 DEF MemoryLedger, MineOf
<1>11. store = "database" => DatabaseLedger(World, "ready", 0, 0)
  <2>1. Settled("ready", 0) = 0 /\ Unseen(0, 0)
    BY DEF Settled, Unseen
  <2>2. ASSUME ~turn.new, store = "database" PROVE RowTells(World, 0, 0)
    <3>1. World.heap[Row] = Asked
      BY <1>5, <1>6, <2>2
    <3>2. \A k \in 1..Len(Brought) : Brought[k].ref = 0
      BY <1>1, BroughtIs, ArtifactFields
    <3>3. OwnParts(World)
      <4>1. World.heap[Row].artifacts = Brought
        BY <3>1, AskedIs
      <4>2. QED
        BY <3>2, <4>1 DEF OwnParts
    <3>4. QED
      BY <2>1, <2>2, <3>1, <3>3 DEF RowTells
  <2>3. Row # None /\ own # None
    BY ObjIs DEF View
  <2>4. ~turn.new => TellsAll(World, own, 0, 0) /\ MineOf(World) = own
    BY <1>4, <1>6, <1>7 DEF TellsAll, MineOf
  <2>5. turn.new => World.shelf = None /\ MineOf(World) = None
    BY <1>3, <1>6 DEF MineOf
  <2> HIDE DEF own
  <2>6. CASE turn.new
    BY <2>1, <2>3, <2>5, <2>6 DEF DatabaseLedger
  <2>7. CASE ~turn.new
    BY <1>4, <1>6, <2>1, <2>2, <2>3, <2>4, <2>7 DEF DatabaseLedger
  <2>8. QED
    BY <1>1, <2>6, <2>7
<1>12. QED
  BY <1>2, <1>8, <1>9, <1>10, <1>11 DEF LedgerInv, Kept

\* The events there are.
LEMMA InQueue ==
  ASSUME Queued, NEW i \in 1..Len(events)
  PROVE  i \in 1..MaxEvents /\ i \in Nat /\ events[i] \in TaskEvents /\ i <= Len(events)
<1>1. Len(events) \in Nat /\ Len(putting) \in Nat /\ Len(events) + Len(putting) <= MaxEvents
  BY EventsAre DEF Queued, TaskTypes
<1>2. events[i] \in TaskEvents
  BY EventsAre DEF Queued
<1>3. QED
  BY <1>1, <1>2, TaskAssumption

\* A Task event says whether it has a message.
LEMMA TaskEventIs ==
  ASSUME NEW e \in TaskEvents, e.kind = "task"
  PROVE  e.msg \in BOOLEAN
BY DEF TaskEvents, StatusEvents, ArtifactEvents, OtherEvents

\* A manager takes the event's Task for its own, in memory.
LEMMA KeptTask ==
  ASSUME Queued, store = "memory", NEW w \in Worlds, NEW i \in Nat, i + 1 \in 1..Len(events),
         NEW lost, NEW on, Kept(w, "ready", i, lost, on), events[i + 1].kind = "task"
  PROVE  Kept(Saved(w, "main", i + 1), "yielding", i + 1, lost, on)
<1> DEFINE x == Saved(w, "main", i + 1)
<1>1. i + 1 \in 1..MaxEvents /\ events[i + 1] \in TaskEvents /\ events[i + 1].msg \in BOOLEAN
  BY InQueue, TaskEventIs
<1>2. i + 1 \in Obj /\ i + 1 # None /\ "main" \in View
  BY <1>1, ObjIs DEF View
<1>3. /\ x \in Worlds /\ x.cur = [w.cur EXCEPT !["main"] = i + 1] /\ x.parts = w.parts
      /\ x.heap = w.heap /\ x.shelf = i + 1
  BY <1>2, SavedIs
<1>4. MineOf(x) = i + 1
  BY <1>2, <1>3, WorldsFields DEF MineOf
<1>5. ReaderShape(w, "ready", i, lost, on) /\ Untouched(w, "ready", i)
  BY DEF Kept
<1> HIDE DEF x
<1>6. ReaderShape(x, "yielding", i + 1, lost, on)
  BY <1>2, <1>4, <1>5 DEF ReaderShape, Places, InHand
<1>7. \A j \in 1..Len(events) : j >= i + 1 => MineOf(w) # j /\ j \in Nat
  BY <1>1, <1>5, ObjIs DEF ReaderShape, Own, Row, None
<1>8. \A j \in 1..Len(events) : j >= i + 1 /\ events[j].kind = "task" => x.heap[j] = First(j)
  BY <1>3, <1>5, <1>7 DEF Untouched
<1>9. Untouched(x, "yielding", i + 1)
  BY <1>3, <1>5, <1>8 DEF Untouched
<1>10. Tells(x, i + 1, i + 1, {})
  <2>1. i + 1 \notin {} /\ x.heap[i + 1] = First(i + 1)
    BY <1>8
  <2>2. QED
    BY <1>1, <1>2, <1>3, <2>1, TaskTells
<1>11. QED
  BY <1>2, <1>3, <1>4, <1>6, <1>9, <1>10 DEF Kept, MemoryLedger, x

\* Or it makes one for lack of any.
LEMMA KeptMade ==
  ASSUME Queued, store = "memory", NEW w \in Worlds, NEW i \in Nat,
         NEW lost, NEW on, Kept(w, "ready", i, lost, on), MineOf(w) = None
  PROVE  LET x == Saved(Made(w, "main"), "main", Own("main")) IN
         x \in Worlds /\ MineOf(x) = Own("main") /\ Kept(x, "ready", i, lost, on)
<1> DEFINE m == Made(w, "main")
           x == Saved(m, "main", Own("main"))
<1>1. "main" \in View /\ Own("main") \in Obj /\ Own("main") # None
  BY ObjIs DEF View
<1>2. /\ m \in Worlds /\ m.cur = w.cur /\ m.parts = w.parts
      /\ m.heap = [w.heap EXCEPT ![Own("main")] = Fresh("main")]
  BY <1>1, MadeIs
<1> HIDE DEF m
<1>3. /\ x \in Worlds /\ x.cur = [w.cur EXCEPT !["main"] = Own("main")] /\ x.parts = w.parts
      /\ x.heap = [w.heap EXCEPT ![Own("main")] = Fresh("main")] /\ x.shelf = Own("main")
  BY <1>1, <1>2, SavedIs
<1>4. MineOf(x) = Own("main")
  BY <1>1, <1>3, WorldsFields DEF MineOf
<1>5. /\ ReaderShape(w, "ready", i, lost, on) /\ Untouched(w, "ready", i) /\ i = 0 /\ turn.new
      /\ turn \in Turns
  <2>1. ReaderShape(w, "ready", i, lost, on) /\ Untouched(w, "ready", i) /\ MemoryLedger(w, i)
    BY DEF Kept
  <2>2. turn \in Turns
    BY DEF Queued, TaskTypes
  <2>3. QED
    BY <2>1, <2>2 DEF ReaderShape, MemoryLedger
<1> HIDE DEF x
<1>6. ReaderShape(x, "ready", i, lost, on)
  BY <1>1, <1>4, <1>5 DEF ReaderShape
<1>7. \A j \in 1..Len(events) : x.heap[j] = w.heap[j]
  <2>1. \A j \in 1..Len(events) : j \in Obj /\ j # Own("main")
    BY InQueue, ObjIs, <1>1
  <2>2. QED
    BY <1>3, <2>1, WorldsFields
<1>8. \A j \in 1..Len(events) : MineOf(w) # j /\ j \in Nat
  BY DEF None
<1>9. Untouched(x, "ready", i)
  BY <1>3, <1>5, <1>7, <1>8 DEF Untouched
<1>10. Tells(x, Own("main"), 0, {})
  <2>1. x.heap[Own("main")] = Fresh("main")
    BY <1>1, <1>3, WorldsFields
  <2>2. QED
    BY <1>1, <1>3, <1>5, <2>1, FreshTells
<1>11. QED
  BY <1>1, <1>3, <1>4, <1>5, <1>6, <1>9, <1>10 DEF Kept, MemoryLedger, x, m

\* The manager applies the event to its own task.
LEMMA KeptApplied ==
  ASSUME Queued, store = "memory", NEW w \in Worlds, NEW i \in Nat, i + 1 \in 1..Len(events),
         NEW lost, NEW on, Kept(w, "ready", i, lost, on), MineOf(w) # None,
         events[i + 1].kind \in {"status", "artifact"}
  PROVE  Kept(Saved(Absorb(w, MineOf(w), i + 1), "main", MineOf(w)), "yielding", i + 1, lost, on)
<1> DEFINE o == MineOf(w)
           y == Absorb(w, o, i + 1)
           x == Saved(y, "main", o)
<1>1. /\ i + 1 \in 1..MaxEvents /\ events[i + 1] \in TaskEvents /\ Heard(i + 1)
      /\ i + 1 <= Len(events)
  <2>1. i + 1 \in 1..MaxEvents /\ events[i + 1] \in TaskEvents /\ i + 1 <= Len(events)
    BY InQueue
  <2>2. QED
    BY <2>1, HeardAll
<1>2. ReaderShape(w, "ready", i, lost, on) /\ Untouched(w, "ready", i) /\ Tells(w, o, i, {})
  BY DEF Kept, MemoryLedger
<1>3. o \in Obj /\ o # None /\ "main" \in View
  BY WorldsFields DEF MineOf, View
<1>4. w.parts[i + 1] = <<i + 1>>
  BY <1>1, <1>2 DEF Untouched
<1> HIDE DEF o
<1>5. Absorbed(w, y, o) /\ Tells(y, o, i + 1, {})
  <2>1. i + 1 \notin {}
    OBVIOUS
  <2>2. TellsOf(w.heap[o], w.parts, i, {})
    BY <1>2 DEF Tells
  <2>3. QED
    BY <1>1, <1>3, <1>4, <2>1, <2>2, AbsorbTells DEF Tells
<1> HIDE DEF y
<1>6. y \in Worlds
  BY <1>5 DEF Absorbed
<1>7. /\ x \in Worlds /\ x.cur = [y.cur EXCEPT !["main"] = o] /\ x.parts = y.parts
      /\ x.heap = y.heap /\ x.shelf = o
  BY <1>3, <1>6, SavedIs
<1>8. MineOf(x) = o
  BY <1>3, <1>6, <1>7, WorldsFields DEF MineOf
<1> HIDE DEF x
<1>9. ReaderShape(x, "yielding", i + 1, lost, on)
  <2>1. MineOf(x) = MineOf(w)
    BY <1>8 DEF o
  <2>2. QED
    BY <1>2, <2>1 DEF ReaderShape, Places, InHand
<1>10. \A j \in 1..MaxEvents : j >= i + 1 => x.parts[j] = <<j>>
  <2>1. \A j \in 1..MaxEvents : j >= i + 1 => y.parts[j] = w.parts[j]
    BY <1>2, <1>3, <1>5, AbsorbLeaves
  <2>2. QED
    BY <1>2, <1>7, <2>1 DEF Untouched
<1>11. \A j \in 1..Len(events) : j >= i + 1 /\ events[j].kind = "task" /\ o # j => x.heap[j] = First(j)
  <2>1. \A j \in 1..Len(events) : j \in Obj
    BY InQueue, ObjIs
  <2>2. \A j \in 1..Len(events) : j # o => x.heap[j] = w.heap[j]
    BY <1>5, <1>7, <2>1 DEF Absorbed
  <2>3. QED
    BY <1>2, <2>2 DEF Untouched, o
<1>12. Untouched(x, "yielding", i + 1)
  BY <1>8, <1>10, <1>11 DEF Untouched
<1>13. Tells(x, o, i + 1, {})
  BY <1>5, <1>7 DEF Tells
<1>14. QED
  BY <1>3, <1>7, <1>8, <1>9, <1>12, <1>13 DEF Kept, MemoryLedger, x, y, o

\* So the ledger is kept in memory.
LEMMA LedgerTakeInMemory ==
  ASSUME Queued, LedgerInv, NEW v \in View, TakeInMemory(v)
  PROVE  LedgerInv'
<1>1. /\ store = "memory" /\ Takes(v) /\ pc' = [pc EXCEPT ![v] = "yielding"]
      /\ UNCHANGED <<store, turn, events, from, online, cut>> /\ pc[v] = "ready"
  BY DEF TakeInMemory, agentVars
<1>2. pc[v] = "ready" /\ hand'[v] = hand[v] + 1 /\ hand[v] + 1 \in 1..Len(events)
  BY <1>1, TakesIs
<1>3. /\ events[hand[v] + 1].kind # "foreign"
      /\ events[hand[v] + 1] \in TaskEvents
  BY <1>2, InQueue, TakeInMemoryIs
<1>4. ASSUME from = 0
      PROVE  v = "main" /\ pc'["tap"] = pc["tap"] /\ pc'["main"] = "yielding" /\ hand["main"] \in Nat
             /\ Kept(World, "ready", hand["main"], cut, online)
  <2>1. v = "main"
    BY <1>2, <1>4 DEF LedgerInv, View
  <2>2. pc \in [View -> Places] /\ hand \in [View -> Nat]
    BY DEF Queued, TaskTypes
  <2>3. QED
    BY <1>1, <1>2, <1>4, <2>1, <2>2 DEF LedgerInv, View, Gone
<1>5. ASSUME from = 0
      PROVE  Kept(World', "yielding", hand["main"] + 1, cut, online)
  <2> DEFINE i == hand["main"]
  <2>1. v = "main" /\ i \in Nat /\ Kept(World, "ready", i, cut, online) /\ World \in Worlds
    BY <1>4, <1>5 DEF Queued, TaskTypes
  <2>2. i + 1 \in 1..Len(events) /\ hand'["main"] = i + 1
    BY <1>2, <2>1
  <2>3. /\ cur["main"] = MineOf(World) /\ shelf = World.shelf
    BY DEF MineOf, World
  <2>4. MemoryLedger(World, i)
    BY <1>1, <2>1 DEF Kept
  <2>5. events[i + 1].kind = "task" => World' = Saved(World, "main", i + 1)
    BY <2>1, <2>2, TakeInMemoryIs
  <2>6. events[i + 1].kind # "task" =>
          World' = Saved(Absorb(MemoryWorld("main"), MemoryTarget("main"), i + 1), "main",
                         MemoryTarget("main"))
    BY <2>1, <2>2, TakeInMemoryIs
  <2> HIDE DEF i
  <2>7. CASE events[i + 1].kind = "task"
    BY <1>1, <2>1, <2>2, <2>5, <2>7, KeptTask DEF i
  <2>8. CASE events[i + 1].kind # "task" /\ MineOf(World) # None
    <3>1. MemoryTarget("main") = MineOf(World) /\ MemoryWorld("main") = World
      BY <2>3, <2>8 DEF MemoryTarget, MemoryWorld
    <3>2. events[i + 1].kind \in {"status", "artifact"}
      BY <1>3, <2>1, <2>8, KindIs DEF i
    <3>3. QED
      BY <1>1, <2>1, <2>2, <2>6, <2>8, <3>1, <3>2, KeptApplied DEF i
  <2>9. CASE events[i + 1].kind # "task" /\ MineOf(World) = None
    <3> DEFINE m == Saved(Made(World, "main"), "main", Own("main"))
    <3>1. MemoryTarget("main") = Own("main") /\ MemoryWorld("main") = m
      BY <2>3, <2>4, <2>9 DEF MemoryTarget, MemoryWorld, MemoryLedger
    <3>2. events[i + 1].kind \in {"status", "artifact"}
      BY <1>3, <2>1, <2>9, KindIs DEF i
    <3>3. m \in Worlds /\ MineOf(m) = Own("main") /\ Kept(m, "ready", i, cut, online)
      BY <1>1, <2>1, <2>9, KeptMade
    <3>4. Own("main") # None
      BY ObjIs DEF View
    <3> HIDE DEF m
    <3>5. Kept(Saved(Absorb(m, Own("main"), i + 1), "main", Own("main")), "yielding", i + 1, cut, online)
      BY <1>1, <2>1, <2>2, <3>2, <3>3, <3>4, KeptApplied
    <3>6. QED
      BY <2>6, <2>9, <3>1, <3>5 DEF i
  <2>10. QED
    BY <2>7, <2>8, <2>9
<1>6. CASE from = 0
  BY <1>1, <1>2, <1>4, <1>5, <1>6, LedgerMoves
<1>7. CASE from # 0
  BY <1>1, <1>7 DEF LedgerInv
<1>8. QED
  BY <1>6, <1>7

\* What is still to be read after n events, whoever has object o.
Unread(w, o, n) ==
  /\ \A j \in 1..MaxEvents : j > n => w.parts[j] = <<j>>
  /\ \A j \in 1..Len(events) :
       j > n /\ events[j].kind = "task" /\ o # j => w.heap[j] = First(j)

\* An event is applied to an object, and the row is left alone.
LEMMA AppliedToObject ==
  ASSUME Queued, NEW w \in Worlds, NEW o \in Obj, o # Row, NEW n \in Nat,
         n + 1 \in 1..Len(events), events[n + 1].kind \in {"status", "artifact"},
         NEW lost \in Nat, lost <= n, Unread(w, o, n), TellsAll(w, o, n, lost),
         w.shelf = Row => RowTells(w, n, lost)
  PROVE  LET x == Absorb(w, o, n + 1) IN
         /\ x \in Worlds /\ x.cur = w.cur /\ x.shelf = w.shelf
         /\ Unread(x, o, n) /\ TellsAll(x, o, n + 1, lost)
         /\ x.shelf = Row => RowTells(x, n, lost)
<1> DEFINE x == Absorb(w, o, n + 1)
<1>1. n + 1 \in 1..MaxEvents /\ events[n + 1] \in TaskEvents /\ Heard(n + 1)
  <2>1. n + 1 \in 1..MaxEvents /\ events[n + 1] \in TaskEvents /\ n + 1 <= Len(events)
    BY InQueue
  <2>2. QED
    BY <2>1, HeardAll
<1>2. w.parts[n + 1] = <<n + 1>>
  BY <1>1 DEF Unread
<1>3. TellsAll(x, o, n + 1, lost)
  BY <1>1, <1>2, AbsorbTellsAll
<1>4. Absorbed(w, x, o)
  BY <1>1, AbsorbIn
<1> HIDE DEF x
<1>5. x \in Worlds /\ x.cur = w.cur /\ x.shelf = w.shelf /\ x.heap[Row] = w.heap[Row]
  BY <1>4, ObjIs DEF Absorbed
<1>6. \A j \in 1..MaxEvents : j > n => x.parts[j] = w.parts[j]
  BY <1>4, AbsorbLeaves DEF TellsAll
<1>7. \A j \in 1..Len(events) : o # j => x.heap[j] = w.heap[j]
  <2>1. \A j \in 1..Len(events) : j \in Obj
    BY InQueue, ObjIs
  <2>2. QED
    BY <1>4, <2>1 DEF Absorbed
<1>8. Unread(x, o, n)
  BY <1>6, <1>7 DEF Unread
<1>9. x.shelf = Row => RowTells(x, n, lost)
  BY <1>5, RowStays
<1>10. QED
  BY <1>3, <1>5, <1>8, <1>9 DEF x

\* What is untouched at one place is unread, and the other way round.
LEMMA UnreadIs ==
  ASSUME NEW w, NEW n \in Nat
  PROVE  /\ \A at : Untouched(w, at, n) => Unread(w, MineOf(w), n)
         /\ Unread(w, MineOf(w), n) => \A at \in {"loading", "creating", "saving"} :
                                         Untouched(w, at, n + 1)
<1>1. /\ \A j \in 1..MaxEvents : (j > n => j >= n) /\ (j >= n + 1 => j > n)
      /\ \A j \in 1..Len(events) : (j > n => j >= n) /\ (j >= n + 1 => j > n)
  OBVIOUS
<1>2. QED
  BY <1>1 DEF Untouched, Unread

\* Before the event in hand.
LEMMA UnreadAgain ==
  ASSUME NEW w, NEW n \in Nat, NEW at, Untouched(w, at, n + 1)
  PROVE  Unread(w, MineOf(w), n)
<1>1. /\ \A j \in 1..MaxEvents : j > n => j >= n + 1
      /\ \A j \in 1..Len(events) : j > n => j >= n + 1
  OBVIOUS
<1>2. QED
  BY <1>1 DEF Untouched, Unread

\* The manager has an event in hand now.
LEMMA ShapeTaken ==
  ASSUME NEW w, NEW x, NEW i \in Nat, NEW lost, NEW on, NEW at \in InHand, store = "database",
         ReaderShape(w, "ready", i, lost, on), MineOf(x) = MineOf(w)
  PROVE  ReaderShape(x, at, i + 1, lost, on)
<1>1. at \in Places \ {"off"}
  BY DEF Places, InHand
<1>2. QED
  BY <1>1 DEF ReaderShape

\* A database's reader takes a Task.
LEMMA KeptTakeTask ==
  ASSUME Queued, store = "database", NEW w \in Worlds, NEW i \in Nat, i + 1 \in 1..Len(events),
         NEW lost, NEW on, Kept(w, "ready", i, lost, on), events[i + 1].kind = "task"
  PROVE  Kept(w, "saving", i + 1, lost, on)
<1>1. /\ ReaderShape(w, "ready", i, lost, on) /\ Untouched(w, "ready", i)
      /\ DatabaseLedger(w, "ready", i, lost)
  BY DEF Kept
<1>2. ReaderShape(w, "saving", i + 1, lost, on)
  BY <1>1, ShapeTaken DEF InHand
<1>3. Untouched(w, "saving", i + 1)
  BY <1>1, UnreadIs
<1>4. MineOf(w) # i + 1
  BY <1>1 DEF ReaderShape, None, Own
<1>5. Settled("ready", i) = i /\ Settled("saving", i + 1) = i /\ i + 1 - 1 = i
  BY DEF Settled
<1>6. DatabaseLedger(w, "saving", i + 1, lost)
  BY <1>1, <1>4, <1>5 DEF DatabaseLedger
<1>7. QED
  BY <1>2, <1>3, <1>6 DEF Kept

\* It applies another event to the task it has ...
LEMMA KeptTakeOwn ==
  ASSUME Queued, store = "database", NEW w \in Worlds, NEW i \in Nat, i + 1 \in 1..Len(events),
         NEW lost, NEW on, Kept(w, "ready", i, lost, on), MineOf(w) # None,
         events[i + 1].kind \in {"status", "artifact"}
  PROVE  Kept(Absorb(w, MineOf(w), i + 1), "saving", i + 1, lost, on)
<1> DEFINE o == MineOf(w)
           x == Absorb(w, o, i + 1)
<1>1. /\ ReaderShape(w, "ready", i, lost, on) /\ Untouched(w, "ready", i)
      /\ DatabaseLedger(w, "ready", i, lost)
  BY DEF Kept
<1>2. o \in Obj /\ o # None
  BY WorldsFields DEF MineOf, View
<1>3. o # Row /\ lost \in Nat /\ lost <= i
  BY <1>1, ObjIs DEF ReaderShape, View, Row, None, Own
<1>4. Settled("ready", i) = i /\ Settled("saving", i + 1) = i /\ i + 1 - 1 = i
  BY DEF Settled
<1>5. Unread(w, o, i) /\ TellsAll(w, o, i, lost) /\ (w.shelf = Row => RowTells(w, i, lost))
  BY <1>1, <1>2, <1>4, UnreadIs DEF DatabaseLedger
<1> HIDE DEF o
<1>6. /\ x \in Worlds /\ x.cur = w.cur /\ x.shelf = w.shelf
      /\ Unread(x, o, i) /\ TellsAll(x, o, i + 1, lost)
      /\ x.shelf = Row => RowTells(x, i, lost)
  BY <1>2, <1>3, <1>5, AppliedToObject
<1>7. MineOf(x) = o /\ MineOf(w) = o /\ TargetOf(x, i + 1) = o
  BY <1>2, <1>6 DEF MineOf, TargetOf, o
<1> HIDE DEF x
<1>8. ReaderShape(x, "saving", i + 1, lost, on)
  BY <1>1, <1>7, ShapeTaken DEF InHand
<1>9. Untouched(x, "saving", i + 1)
  BY <1>6, <1>7, UnreadIs
<1>10. DatabaseLedger(x, "saving", i + 1, lost)
  BY <1>1, <1>2, <1>4, <1>6, <1>7 DEF DatabaseLedger
<1>11. QED
  BY <1>8, <1>9, <1>10 DEF Kept, x, o

\* ... or has to look for one.
LEMMA KeptTakeNone ==
  ASSUME Queued, store = "database", NEW w \in Worlds, NEW i \in Nat, i + 1 \in 1..Len(events),
         NEW lost, NEW on, Kept(w, "ready", i, lost, on), MineOf(w) = None
  PROVE  Kept(w, "loading", i + 1, lost, on)
<1>1. /\ ReaderShape(w, "ready", i, lost, on) /\ Untouched(w, "ready", i)
      /\ DatabaseLedger(w, "ready", i, lost)
  BY DEF Kept
<1>2. ReaderShape(w, "loading", i + 1, lost, on)
  BY <1>1, ShapeTaken DEF InHand
<1>3. Untouched(w, "loading", i + 1)
  BY <1>1, UnreadIs
<1>4. Settled("ready", i) = i /\ Settled("loading", i + 1) = i
  BY DEF Settled
<1>5. DatabaseLedger(w, "loading", i + 1, lost)
  BY <1>1, <1>4 DEF DatabaseLedger
<1>6. QED
  BY <1>2, <1>3, <1>5 DEF Kept

\* A reader that goes on with the event it has in hand.
LEMMA ShapeStays ==
  ASSUME NEW w, NEW x, NEW i \in Nat, NEW lost, NEW on, NEW at \in InHand, NEW to \in InHand,
         store = "database", ReaderShape(w, at, i, lost, on),
         MineOf(x) \in {None, Own("main")} \union 1..i,
         ~turn.new => MineOf(x) # None
  PROVE  ReaderShape(x, to, i, lost, on)
<1>1. to \in Places \ {"off"} /\ at # "ready"
  BY DEF Places, InHand
<1>2. QED
  BY <1>1 DEF ReaderShape

\* The manager copies the row and applies the event to its copy.
LEMMA KeptFound ==
  ASSUME Queued, store = "database", NEW w \in Worlds, NEW n \in Nat, n + 1 \in 1..Len(events),
         NEW lost, NEW on, Kept(w, "loading", n + 1, lost, on), w.shelf = Row,
         events[n + 1].kind \in {"status", "artifact"}
  PROVE  Kept(Absorb(Found(w, "main"), Own("main"), n + 1), "saving", n + 1, lost, on)
<1> DEFINE o == Own("main")
           f == Found(w, "main")
           x == Absorb(f, o, n + 1)
<1>1. /\ ReaderShape(w, "loading", n + 1, lost, on) /\ Untouched(w, "loading", n + 1)
      /\ DatabaseLedger(w, "loading", n + 1, lost)
  BY DEF Kept
<1>2. "main" \in View /\ o \in Obj /\ o # Row /\ o # None /\ Row \in Obj
      /\ \A j \in 1..MaxEvents : j # o
  BY ObjIs DEF View
<1>3. Settled("loading", n + 1) = n /\ Settled("saving", n + 1) = n /\ n + 1 - 1 = n
  BY DEF Settled
<1>4. MineOf(w) = None /\ lost \in Nat /\ lost <= n /\ turn.new /\ Unseen(n, lost)
  BY <1>1, <1>3 DEF DatabaseLedger, ReaderShape, InHand
<1> HIDE DEF o
<1>5. /\ f \in Worlds /\ f.cur = w.cur /\ f.parts = w.parts /\ f.shelf = w.shelf
      /\ f.heap = [w.heap EXCEPT ![o] = Copy(w.heap[Row], w.parts)]
  BY <1>2, FoundIs DEF o
<1>6. f.heap[o] = Copy(w.heap[Row], w.parts) /\ \A q \in Obj : q # o => f.heap[q] = w.heap[q]
  BY <1>2, <1>5, WorldsFields
<1> HIDE DEF f
<1>7. RowTells(w, n, lost)
  BY <1>1, <1>3 DEF DatabaseLedger
<1>8. TellsAll(f, o, n, lost)
  <2>1. TellsAll(w, Row, n, lost)
    BY <1>4, <1>7 DEF RowTells
  <2>2. QED
    BY <1>2, <1>5, <1>6, <2>1, FoundTells
<1>9. RowTells(f, n, lost)
  BY <1>2, <1>5, <1>6, <1>7, RowStays
<1>10. Unread(f, o, n)
  <2>1. Unread(w, None, n)
    BY <1>1, <1>4, UnreadAgain
  <2>2. \A j \in 1..Len(events) : j \in Obj /\ j # o /\ None # j
    BY <1>2, InQueue, ObjIs
  <2>3. QED
    BY <1>5, <1>6, <2>1, <2>2 DEF Unread
<1>11. /\ x \in Worlds /\ x.cur = f.cur /\ x.shelf = f.shelf
       /\ Unread(x, o, n) /\ TellsAll(x, o, n + 1, lost)
       /\ x.shelf = Row => RowTells(x, n, lost)
  BY <1>2, <1>4, <1>5, <1>8, <1>9, <1>10, AppliedToObject
<1> HIDE DEF x
<1>12. MineOf(x) = None /\ TargetOf(x, n + 1) = o /\ x.shelf = Row
  BY <1>4, <1>5, <1>11 DEF MineOf, TargetOf, o
<1>13. Untouched(x, "saving", n + 1)
  <2>1. \A j \in 1..Len(events) : j # o
    BY <1>2, InQueue
  <2>2. Unread(x, None, n)
    BY <1>11, <2>1 DEF Unread
  <2>3. QED
    BY <1>12, <2>2, UnreadIs
<1>14. ReaderShape(x, "saving", n + 1, lost, on)
  BY <1>1, <1>4, <1>12, ShapeStays DEF InHand
<1>15. DatabaseLedger(x, "saving", n + 1, lost)
  BY <1>3, <1>4, <1>11, <1>12, ObjIs DEF DatabaseLedger
<1>16. QED
  BY <1>13, <1>14, <1>15 DEF Kept, x, f, o

\* There is no task, and the manager makes one ...
LEMMA KeptMake ==
  ASSUME Queued, store = "database", NEW w \in Worlds, NEW n \in Nat, n + 1 \in 1..Len(events),
         NEW lost, NEW on, Kept(w, "loading", n + 1, lost, on), w.shelf = None
  PROVE  Kept(Made(w, "main"), "creating", n + 1, lost, on)
<1> DEFINE o == Own("main")
           x == Made(w, "main")
<1>1. /\ ReaderShape(w, "loading", n + 1, lost, on) /\ Untouched(w, "loading", n + 1)
      /\ DatabaseLedger(w, "loading", n + 1, lost)
  BY DEF Kept
<1>2. "main" \in View /\ o \in Obj /\ o # None /\ Row # None
  BY ObjIs DEF View
<1>3. /\ x \in Worlds /\ x.cur = w.cur /\ x.parts = w.parts /\ x.shelf = w.shelf
      /\ x.heap = [w.heap EXCEPT ![o] = Fresh("main")]
  BY <1>2, MadeIs
<1>4. Settled("loading", n + 1) = n /\ Settled("creating", n + 1) = n
  BY DEF Settled
<1>5. MineOf(w) = None /\ turn.new /\ Unseen(n, lost)
  BY <1>1, <1>4 DEF DatabaseLedger, ReaderShape
<1> HIDE DEF x, o
<1>6. x.heap[o] = Fresh("main") /\ \A q \in Obj : q # o => x.heap[q] = w.heap[q]
  BY <1>2, <1>3, WorldsFields
<1>7. MineOf(x) = None
  BY <1>3, <1>5 DEF MineOf
<1>8. Untouched(x, "creating", n + 1)
  <2>1. \A j \in 1..Len(events) : j \in Obj /\ j # o
    BY InQueue, ObjIs, <1>2 DEF o
  <2>2. QED
    BY <1>1, <1>3, <1>5, <1>6, <1>7, <2>1 DEF Untouched
<1>9. ReaderShape(x, "creating", n + 1, lost, on)
  BY <1>1, <1>5, <1>7, ShapeStays DEF InHand
<1>10. DatabaseLedger(x, "creating", n + 1, lost)
  BY <1>2, <1>3, <1>4, <1>5, <1>6, <1>7 DEF DatabaseLedger, o
<1>11. QED
  BY <1>8, <1>9, <1>10 DEF Kept, x

\* ... which it saves before it applies the event.
LEMMA KeptCreate ==
  ASSUME Queued, store = "database", NEW w \in Worlds, NEW n \in Nat, n + 1 \in 1..Len(events),
         NEW lost, NEW on, Kept(w, "creating", n + 1, lost, on),
         events[n + 1].kind \in {"status", "artifact"}
  PROVE  Kept(Absorb(Saved(w, "main", Own("main")), Own("main"), n + 1), "saving", n + 1, lost, on)
<1> DEFINE o == Own("main")
           f == Saved(w, "main", o)
           x == Absorb(f, o, n + 1)
<1>1. /\ ReaderShape(w, "creating", n + 1, lost, on) /\ Untouched(w, "creating", n + 1)
      /\ DatabaseLedger(w, "creating", n + 1, lost)
  BY DEF Kept
<1>2. "main" \in View /\ o \in Obj /\ o # Row /\ o # None /\ Row \in Obj
      /\ \A j \in 1..MaxEvents : j # o /\ j # Row
  BY ObjIs DEF View
<1>3. Settled("creating", n + 1) = n /\ Settled("saving", n + 1) = n /\ n + 1 - 1 = n
  BY DEF Settled
<1>4. /\ MineOf(w) = None /\ lost \in Nat /\ lost <= n /\ turn.new /\ Unseen(n, lost)
      /\ w.heap[o] = Fresh("main") /\ turn \in Turns
  BY <1>1, <1>3 DEF DatabaseLedger, ReaderShape, InHand, Queued, TaskTypes
<1>5. n \in {0, 1} /\ (n = 0 \/ 1 \in {lost})
  BY <1>4 DEF Unseen
<1>6. TellsAll(w, o, n, lost)
  BY <1>2, <1>4, <1>5, FreshTells DEF TellsAll
<1>7. n <= MaxEvents
  <2>1. n + 1 \in 1..MaxEvents
    BY InQueue
  <2>2. QED
    BY <2>1, TaskAssumption
<1> HIDE DEF o
<1>8. /\ f \in Worlds /\ f.cur = [w.cur EXCEPT !["main"] = o] /\ f.parts = w.parts
      /\ f.heap = [w.heap EXCEPT ![Row] = Copy(w.heap[o], w.parts)] /\ f.shelf = Row
  BY <1>2, SavedIs
<1>9. f.heap[Row] = Copy(w.heap[o], w.parts) /\ \A q \in Obj : q # Row => f.heap[q] = w.heap[q]
  BY <1>2, <1>8, WorldsFields
<1>10. MineOf(f) = o
  BY <1>2, <1>8, WorldsFields DEF MineOf
<1> HIDE DEF f
<1>11. RowTells(f, n, lost)
  BY <1>2, <1>6, <1>8, <1>9, RowCopied
<1>12. TellsAll(f, o, n, lost)
  BY <1>2, <1>6, <1>7, <1>8, <1>9, TellsAllElsewhere
<1>13. Unread(f, o, n)
  <2>1. Unread(w, None, n)
    BY <1>1, <1>4, UnreadAgain
  <2>2. \A j \in 1..Len(events) : j \in Obj /\ j # Row /\ None # j
    BY <1>2, InQueue, ObjIs
  <2>3. QED
    BY <1>8, <1>9, <2>1, <2>2 DEF Unread
<1>14. /\ x \in Worlds /\ x.cur = f.cur /\ x.shelf = f.shelf
       /\ Unread(x, o, n) /\ TellsAll(x, o, n + 1, lost)
       /\ x.shelf = Row => RowTells(x, n, lost)
  BY <1>2, <1>4, <1>8, <1>11, <1>12, <1>13, AppliedToObject
<1> HIDE DEF x
<1>15. MineOf(x) = o /\ TargetOf(x, n + 1) = o /\ x.shelf = Row
  BY <1>2, <1>4, <1>8, <1>10, <1>14 DEF MineOf, TargetOf
<1>16. Untouched(x, "saving", n + 1)
  BY <1>14, <1>15, UnreadIs
<1>17. ReaderShape(x, "saving", n + 1, lost, on)
  <2>1. n + 1 \in Nat /\ o \in {None, Own("main")} \union 1..(n + 1)
    BY DEF o
  <2>2. QED
    BY <1>1, <1>2, <1>15, <2>1, ShapeStays DEF InHand
<1>18. DatabaseLedger(x, "saving", n + 1, lost)
  BY <1>2, <1>3, <1>4, <1>14, <1>15, ObjIs DEF DatabaseLedger
<1>19. QED
  BY <1>16, <1>17, <1>18 DEF Kept, x, f, o

\* What the manager is to save is what the events tell, also the one in hand.
LEMMA TargetTells ==
  ASSUME Queued, store = "database", NEW w \in Worlds, NEW n \in Nat, n + 1 \in 1..Len(events),
         NEW lost, NEW on, Kept(w, "saving", n + 1, lost, on)
  PROVE  LET o == TargetOf(w, n + 1) IN
         /\ o \in Obj /\ o # Row /\ o # None /\ o \in {Own("main")} \union 1..(n + 1)
         /\ TellsAll(w, o, n + 1, lost)
         /\ events[n + 1].kind = "task" => o = n + 1 /\ w.heap[n + 1] = First(n + 1)
         /\ MineOf(w) # o => MineOf(w) # n + 1 \/ events[n + 1].kind # "task"
<1> DEFINE o == TargetOf(w, n + 1)
<1>1. /\ ReaderShape(w, "saving", n + 1, lost, on) /\ Untouched(w, "saving", n + 1)
      /\ DatabaseLedger(w, "saving", n + 1, lost)
  BY DEF Kept
<1>2. n + 1 \in 1..MaxEvents /\ events[n + 1] \in TaskEvents /\ n + 1 \in Nat
  BY InQueue
<1>3. MineOf(w) \in {None, Own("main")} \union 1..(n + 1)
  BY <1>1 DEF ReaderShape
<1>4. o \in {Own("main")} \union 1..(n + 1)
  BY <1>2, <1>3 DEF TargetOf
<1>5. o \in Obj /\ o # Row /\ o # None
  <2>1. \A j \in 1..(n + 1) : j \in 1..MaxEvents
    BY <1>2, TaskAssumption
  <2>2. QED
    BY <1>4, <2>1, ObjIs DEF View
<1>6. CASE events[n + 1].kind = "task"
  <2>1. o = n + 1 /\ MineOf(w) # n + 1
    BY <1>1, <1>6 DEF TargetOf, DatabaseLedger
  <2>2. w.heap[n + 1] = First(n + 1)
    BY <1>1, <1>2, <1>6, <2>1 DEF Untouched
  <2>3. n + 1 \notin {} /\ events[n + 1].msg \in BOOLEAN
    BY <1>2, <1>6, TaskEventIs
  <2>4. Tells(w, n + 1, n + 1, {})
    BY <1>2, <1>5, <1>6, <2>1, <2>2, <2>3, TaskTells
  <2>5. QED
    BY <1>4, <1>5, <2>1, <2>2, <2>4 DEF TellsAll
<1>7. CASE events[n + 1].kind # "task"
  BY <1>1, <1>4, <1>5, <1>7 DEF DatabaseLedger
<1>8. QED
  BY <1>6, <1>7

\* It is saved, and is the manager's from there on.
LEMMA KeptSave ==
  ASSUME Queued, store = "database", NEW w \in Worlds, NEW n \in Nat, n + 1 \in 1..Len(events),
         NEW lost, NEW on, Kept(w, "saving", n + 1, lost, on)
  PROVE  Kept(Saved(w, "main", TargetOf(w, n + 1)), "yielding", n + 1, lost, on)
<1> DEFINE i == n + 1
           o == TargetOf(w, i)
           x == Saved(w, "main", o)
<1>1. /\ ReaderShape(w, "saving", i, lost, on) /\ Untouched(w, "saving", i)
  BY DEF Kept
<1>2. /\ o \in Obj /\ o # Row /\ o # None /\ o \in {Own("main")} \union 1..i
      /\ TellsAll(w, o, i, lost)
      /\ events[i].kind = "task" => o = i /\ w.heap[i] = First(i)
  BY TargetTells
<1>3. i \in Nat /\ i \in 1..MaxEvents /\ i <= MaxEvents /\ "main" \in View
  BY InQueue DEF View
<1> HIDE DEF o
<1>4. /\ x \in Worlds /\ x.cur = [w.cur EXCEPT !["main"] = o] /\ x.parts = w.parts
      /\ x.heap = [w.heap EXCEPT ![Row] = Copy(w.heap[o], w.parts)] /\ x.shelf = Row
  BY <1>2, <1>3, SavedIs
<1>5. x.heap[Row] = Copy(w.heap[o], w.parts) /\ \A q \in Obj : q # Row => x.heap[q] = w.heap[q]
  BY <1>4, WorldsFields, ObjIs
<1>6. MineOf(x) = o
  BY <1>3, <1>4, WorldsFields DEF MineOf
<1> HIDE DEF x, i
<1>7. RowTells(x, i, lost)
  BY <1>2, <1>3, <1>4, <1>5, RowCopied
<1>8. TellsAll(x, o, i, lost)
  BY <1>2, <1>3, <1>4, <1>5, TellsAllElsewhere
<1>9. \A j \in 1..Len(events) : j \in Obj /\ j # Row /\ x.heap[j] = w.heap[j]
  <2>1. \A j \in 1..Len(events) : j \in Obj /\ j # Row
    BY InQueue, ObjIs
  <2>2. QED
    BY <1>5, <2>1
<1>10. Untouched(x, "yielding", i)
  <2>1. ASSUME NEW j \in 1..Len(events), j >= i, events[j].kind = "task", o # j
        PROVE  x.heap[j] = First(j)
    <3>1. MineOf(w) # j
      <4>1. MineOf(w) \in {None, Own("main")} \union 1..i
        BY <1>1 DEF ReaderShape
      <4>2. i # j
        BY <1>2, <2>1
      <4>3. j \in 1..MaxEvents /\ j \notin 1..i
        BY <1>3, <2>1, <4>2, InQueue
      <4>4. QED
        BY <4>1, <4>3, ObjIs DEF View
    <3>2. QED
      BY <1>1, <1>9, <2>1, <3>1 DEF Untouched
  <2>2. events[i].kind = "task" => x.heap[i] = First(i)
    BY <1>2, <1>9 DEF i
  <2>3. QED
    BY <1>1, <1>4, <1>6, <2>1, <2>2 DEF Untouched
<1>11. ReaderShape(x, "yielding", i, lost, on)
  BY <1>1, <1>2, <1>3, <1>6, ShapeStays DEF InHand
<1>12. Settled("yielding", i) = i
  BY DEF Settled
<1>13. DatabaseLedger(x, "yielding", i, lost)
  BY <1>2, <1>4, <1>6, <1>7, <1>8, <1>12, ObjIs DEF DatabaseLedger
<1>14. QED
  BY <1>10, <1>11, <1>13 DEF Kept, x, i, o

\* The event is passed on.
LEMMA KeptYield ==
  ASSUME NEW w \in Worlds, NEW i, NEW lost, NEW on, Kept(w, "yielding", i, lost, on),
         NEW to \in {"ready", "done"}, NEW still, still => on
  PROVE  Kept(w, to, i, lost, still)
<1>1. /\ ReaderShape(w, "yielding", i, lost, on) /\ Untouched(w, "yielding", i)
      /\ store = "memory" => MemoryLedger(w, i)
      /\ store = "database" => DatabaseLedger(w, "yielding", i, lost)
  BY DEF Kept
<1>2. ReaderShape(w, to, i, lost, still)
  BY <1>1 DEF ReaderShape, Places, InHand
<1>3. Untouched(w, to, i)
  BY <1>1 DEF Untouched
<1>4. Settled("yielding", i) = i /\ Settled(to, i) = i
  BY DEF Settled
<1>5. store = "database" => DatabaseLedger(w, to, i, lost)
  BY <1>1, <1>4 DEF DatabaseLedger
<1>6. QED
  BY <1>1, <1>2, <1>3, <1>5 DEF Kept

\* The client leaves while the manager waits for an event.
LEMMA KeptAlone ==
  ASSUME NEW w, NEW i, NEW at, NEW lost, NEW on, Kept(w, at, i, lost, on)
  PROVE  Kept(w, at, i, lost, FALSE)
BY DEF Kept, ReaderShape

\* It leaves while the event is applied and saved: the event is lost unless the
\* save lands.
LEMMA KeptLost ==
  ASSUME Queued, store = "database", NEW w \in Worlds, NEW n \in Nat, n + 1 \in 1..Len(events),
         NEW at \in {"loading", "creating", "saving"}, Kept(w, at, n + 1, 0, TRUE),
         NEW to \in {"ready", "done"}
  PROVE  Kept(w, to, n + 1, n + 1, FALSE)
<1>1. /\ ReaderShape(w, at, n + 1, 0, TRUE) /\ Untouched(w, at, n + 1)
      /\ DatabaseLedger(w, at, n + 1, 0)
  BY DEF Kept
<1>2. Settled(at, n + 1) = n /\ Settled(to, n + 1) = n + 1 /\ n + 1 - 1 = n
  BY DEF Settled
<1>3. ReaderShape(w, to, n + 1, n + 1, FALSE)
  BY <1>1 DEF ReaderShape, Places, InHand
<1>4. Untouched(w, to, n + 1)
  BY <1>1 DEF Untouched
<1>5. Unseen(n, 0) => Unseen(n + 1, n + 1)
  BY DEF Unseen
<1>6. RowTells(w, n, 0) => RowTells(w, n + 1, n + 1)
  BY <1>5, TellsLost DEF RowTells
<1>7. ASSUME MineOf(w) # None PROVE TellsAll(w, MineOf(w), n + 1, n + 1)
  <2>1. at = "saving"
    BY <1>1, <1>7 DEF DatabaseLedger
  <2>2. CASE events[n + 1].kind = "task"
    <3>1. TellsAll(w, MineOf(w), n, 0)
      BY <1>1, <1>2, <1>7, <2>1, <2>2 DEF DatabaseLedger
    <3>2. QED
      BY <3>1, TellsLost
  <2>3. CASE events[n + 1].kind # "task"
    <3>1. TellsAll(w, MineOf(w), n + 1, 0)
      BY <1>1, <1>7, <2>1, <2>3 DEF DatabaseLedger, TargetOf
    <3>2. n + 1 \in Nat
      OBVIOUS
    <3>3. QED
      BY <3>1, <3>2, TellsAnyway
  <2>4. QED
    BY <2>2, <2>3
<1>8. DatabaseLedger(w, to, n + 1, n + 1)
  BY <1>1, <1>2, <1>5, <1>6, <1>7 DEF DatabaseLedger
<1>9. QED
  BY <1>3, <1>4, <1>8 DEF Kept

\* The save that was under way may land all the same.
LEMMA KeptLanded ==
  ASSUME Queued, store = "database", NEW w \in Worlds, NEW n \in Nat, n + 1 \in 1..Len(events),
         NEW at \in {"creating", "saving"}, Kept(w, at, n + 1, 0, TRUE),
         NEW to \in {"ready", "done"}, events[n + 1].kind = "task" => at = "saving"
  PROVE  Kept(Stored(w, TargetOf(w, n + 1)), to, n + 1, n + 1, FALSE)
<1> DEFINE i == n + 1
           o == TargetOf(w, i)
           x == Stored(w, o)
<1>1. i \in Nat /\ i \in 1..MaxEvents /\ i <= MaxEvents /\ "main" \in View
  BY InQueue DEF View
<1>2. Kept(w, to, i, i, FALSE)
  BY KeptLost
<1>3. /\ ReaderShape(w, to, i, i, FALSE) /\ Untouched(w, to, i) /\ DatabaseLedger(w, to, i, i)
  BY <1>2 DEF Kept
<1>4. o \in Obj /\ TellsAll(w, o, i, i)
  <2>1. CASE at = "saving"
    BY <1>1, <2>1, TargetTells, TellsAnyway
  <2>2. CASE at = "creating"
    <3>1. ReaderShape(w, at, i, 0, TRUE) /\ DatabaseLedger(w, at, i, 0) /\ Settled(at, i) = n
      <4>1. ReaderShape(w, at, i, 0, TRUE) /\ DatabaseLedger(w, at, i, 0)
        BY DEF Kept
      <4>2. Settled(at, i) = n
        BY <2>2 DEF Settled
      <4>3. QED
        BY <4>1, <4>2
    <3>2. /\ MineOf(w) = None /\ w.heap[Own("main")] = Fresh("main") /\ turn.new
          /\ Unseen(n, 0) /\ turn \in Turns
      BY <2>2, <3>1 DEF DatabaseLedger, ReaderShape, Queued, TaskTypes
    <3>3. o = Own("main") /\ o \in Obj /\ i = 1
      BY <2>2, <3>2, ObjIs DEF TargetOf, Unseen, View
    <3>4. 1 \in {0, 1} /\ 1 \in {1}
      OBVIOUS
    <3> HIDE DEF o
    <3>5. Tells(w, o, 1, {1})
      BY <3>2, <3>3, <3>4, FreshTells
    <3>6. QED
      BY <3>3, <3>5 DEF TellsAll
  <2>3. QED
    BY <2>1, <2>2
<1> HIDE DEF o
<1>5. /\ x \in Worlds /\ x.cur = w.cur /\ x.parts = w.parts
      /\ x.heap = [w.heap EXCEPT ![Row] = Copy(w.heap[o], w.parts)] /\ x.shelf = Row
  BY <1>4, StoredIs
<1>6. x.heap[Row] = Copy(w.heap[o], w.parts) /\ \A q \in Obj : q # Row => x.heap[q] = w.heap[q]
  BY <1>5, WorldsFields, ObjIs
<1> HIDE DEF x, i
<1>7. RowTells(x, i, i)
  BY <1>1, <1>4, <1>5, <1>6, RowCopied
<1>8. MineOf(x) = MineOf(w)
  BY <1>5 DEF MineOf
<1>9. Untouched(x, to, i)
  <2>1. \A j \in 1..Len(events) : j \in Obj /\ j # Row
    BY InQueue, ObjIs
  <2>2. QED
    BY <1>3, <1>5, <1>6, <1>8, <2>1 DEF Untouched
<1>10. ReaderShape(x, to, i, i, FALSE)
  BY <1>3, <1>8 DEF ReaderShape
<1>11. MineOf(x) # None => TellsAll(x, MineOf(x), i, i)
  <2>1. ASSUME MineOf(w) # None
        PROVE  MineOf(w) \in Obj /\ MineOf(w) # Row /\ TellsAll(w, MineOf(w), i, i)
    <3>1. MineOf(w) \in Obj
      BY <1>1, <2>1, WorldsFields DEF MineOf
    <3>2. MineOf(w) # Row
      BY <1>3, <2>1, ObjIs DEF ReaderShape, View, Row, None, Own
    <3>3. QED
      BY <1>3, <2>1, <3>1, <3>2 DEF DatabaseLedger
  <2>2. QED
    BY <1>1, <1>5, <1>6, <1>8, <2>1, TellsAllElsewhere
<1>12. Settled(to, i) = i
  BY DEF Settled
<1>13. DatabaseLedger(x, to, i, i)
  BY <1>3, <1>5, <1>7, <1>8, <1>11, <1>12, ObjIs DEF DatabaseLedger
<1>14. QED
  BY <1>9, <1>10, <1>13 DEF Kept, x, i, o

\* The reader of a step is the handler's, as long as it is the only one.
LEMMA OnlyMain ==
  ASSUME Queued, LedgerInv, from = 0, NEW v \in View, pc[v] # "off"
  PROVE  v = "main"
BY DEF LedgerInv, View

\* What the ledger says of the handler's reader.
LEMMA MainKept ==
  ASSUME Queued, LedgerInv, from = 0, pc["main"] \notin Gone
  PROVE  /\ World \in Worlds /\ Kept(World, pc["main"], hand["main"], cut, online)
         /\ MineOf(World) = cur["main"] /\ World.shelf = shelf /\ hand["main"] \in Nat
         /\ shelf \in Obj \union {None}
BY DEF LedgerInv, Queued, TaskTypes, World, MineOf, View, Worlds

\* The event in hand follows those that are settled.
LEMMA HandAfter ==
  ASSUME Queued, pc["main"] \in InHand
  PROVE  \E n \in Nat : hand["main"] = n + 1 /\ n + 1 \in 1..Len(events)
<1>1. hand["main"] \in 1..Len(events)
  BY HandIs DEF View
<1>2. hand["main"] - 1 \in Nat /\ hand["main"] = (hand["main"] - 1) + 1
  BY <1>1, EventsAre DEF Queued
<1>3. QED
  BY <1>1, <1>2

\* So the ledger is kept when a database's reader takes an event.
LEMMA LedgerTakeToDatabase ==
  ASSUME Queued, LedgerInv, NEW v \in View, TakeToDatabase(v)
  PROVE  LedgerInv'
<1>1. /\ store = "database" /\ Takes(v) /\ UNCHANGED <<store, turn, events, from, online, cut>>
      /\ pc[v] = "ready"
  BY DEF TakeToDatabase, agentVars
<1>2. /\ pc[v] = "ready" /\ hand'[v] = hand[v] + 1 /\ hand[v] + 1 \in 1..Len(events)
      /\ pc \in [View -> Places] /\ "main" \in View
  BY <1>1, TakesIs DEF Queued, TaskTypes, View
<1>3. CASE from # 0
  BY <1>1, <1>3 DEF LedgerInv
<1>4. CASE from = 0
  <2> DEFINE i == hand["main"]
  <2>1. v = "main"
    BY <1>2, <1>4, OnlyMain
  <2>2. /\ World \in Worlds /\ Kept(World, "ready", i, cut, online) /\ MineOf(World) = cur["main"]
        /\ i \in Nat
    BY <1>2, <1>4, <2>1, MainKept DEF Gone
  <2>3. i + 1 \in 1..Len(events) /\ hand'["main"] = i + 1
    BY <1>2, <2>1
  <2>4. pc'["tap"] = pc["tap"]
    BY <1>2, <2>1 DEF TakeToDatabase, View
  <2>5. \/ events[i + 1].kind = "task" /\ pc'["main"] = "saving" /\ World' = World
        \/ /\ events[i + 1].kind \in {"status", "artifact"} /\ cur["main"] \in Obj
           /\ World' = Absorb(World, cur["main"], i + 1) /\ pc'["main"] = "saving"
        \/ /\ events[i + 1].kind \in {"status", "artifact"} /\ cur["main"] = None
           /\ pc'["main"] = "loading" /\ World' = World
    BY <2>1, <2>3, TakeToDatabaseIs
  <2> HIDE DEF i
  <2>6. CASE events[i + 1].kind = "task" /\ pc'["main"] = "saving" /\ World' = World
    <3>1. Kept(World', pc'["main"], i + 1, cut, online)
      BY <1>1, <2>2, <2>3, <2>6, KeptTakeTask
    <3>2. QED
      BY <1>1, <2>3, <2>4, <3>1, LedgerMoves
  <2>7. CASE /\ events[i + 1].kind \in {"status", "artifact"} /\ cur["main"] \in Obj
             /\ World' = Absorb(World, cur["main"], i + 1) /\ pc'["main"] = "saving"
    <3>1. Kept(World', pc'["main"], i + 1, cut, online)
      BY <1>1, <2>2, <2>3, <2>7, ObjIs, KeptTakeOwn
    <3>2. QED
      BY <1>1, <2>3, <2>4, <3>1, LedgerMoves
  <2>8. CASE /\ events[i + 1].kind \in {"status", "artifact"} /\ cur["main"] = None
             /\ pc'["main"] = "loading" /\ World' = World
    <3>1. Kept(World', pc'["main"], i + 1, cut, online)
      BY <1>1, <2>2, <2>3, <2>8, KeptTakeNone
    <3>2. QED
      BY <1>1, <2>3, <2>4, <3>1, LedgerMoves
  <2>9. QED
    BY <2>5, <2>6, <2>7, <2>8
<1>5. QED
  BY <1>3, <1>4

\* The database's other steps.
LEMMA LedgerLoad ==
  ASSUME Queued, LedgerInv, NEW v \in View, Load(v)
  PROVE  LedgerInv'
<1>1. pc[v] = "loading" /\ UNCHANGED <<store, turn, events, from, hand, online, cut>>
  BY DEF Load, agentVars
<1>2. CASE from # 0
  BY <1>1, <1>2 DEF LedgerInv
<1>3. CASE from = 0
  <2>1. v = "main"
    BY <1>1, <1>3, OnlyMain
  <2>2. PICK n \in Nat : hand["main"] = n + 1 /\ n + 1 \in 1..Len(events)
    BY <1>1, <2>1, HandAfter DEF InHand
  <2>3. /\ World \in Worlds /\ Kept(World, "loading", n + 1, cut, online) /\ World.shelf = shelf
        /\ shelf \in Obj \union {None}
    BY <1>1, <1>3, <2>1, <2>2, MainKept DEF Gone
  <2>4. store = "database"
    BY <2>3 DEF Kept, ReaderShape, Queued, TaskTypes
  <2>5. pc'["tap"] = pc["tap"] /\ shelf \in {None, Row}
    BY <1>1, <2>1, <2>4 DEF Load, Queued, TaskTypes, View
  <2>6. /\ events[n + 1].kind \in {"status", "artifact"}
        /\ \/ /\ shelf # None /\ pc'["main"] = "saving"
              /\ World' = Absorb(Found(World, "main"), Own("main"), n + 1)
           \/ shelf = None /\ pc'["main"] = "creating" /\ World' = Made(World, "main")
    BY <2>1, <2>2, LoadIs
  <2>7. Kept(World', pc'["main"], n + 1, cut, online)
    BY <2>2, <2>3, <2>4, <2>5, <2>6, KeptFound, KeptMake
  <2>8. QED
    BY <1>1, <2>2, <2>5, <2>7, LedgerMoves
<1>4. QED
  BY <1>2, <1>3

\* A new task is created.
LEMMA LedgerCreate ==
  ASSUME Queued, LedgerInv, NEW v \in View, Create(v)
  PROVE  LedgerInv'
<1>1. /\ pc[v] = "creating" /\ UNCHANGED <<store, turn, events, from, hand, online, cut>>
      /\ pc' = [pc EXCEPT ![v] = "saving"] /\ pc \in [View -> Places]
  BY DEF Create, agentVars, Queued, TaskTypes
<1>2. CASE from # 0
  BY <1>1, <1>2 DEF LedgerInv
<1>3. CASE from = 0
  <2>1. v = "main"
    BY <1>1, <1>3, OnlyMain
  <2>2. PICK n \in Nat : hand["main"] = n + 1 /\ n + 1 \in 1..Len(events)
    BY <1>1, <2>1, HandAfter DEF InHand
  <2>3. World \in Worlds /\ Kept(World, "creating", n + 1, cut, online)
    BY <1>1, <1>3, <2>1, <2>2, MainKept DEF Gone
  <2>4. store = "database"
    BY <2>3 DEF Kept, ReaderShape, Queued, TaskTypes
  <2>5. pc'["tap"] = pc["tap"] /\ pc'["main"] = "saving"
    BY <1>1, <2>1 DEF View
  <2>6. /\ events[n + 1].kind \in {"status", "artifact"}
        /\ World' = Absorb(Saved(World, "main", Own("main")), Own("main"), n + 1)
    BY <2>1, <2>2, CreateIs
  <2>7. Kept(World', pc'["main"], n + 1, cut, online)
    BY <2>2, <2>3, <2>4, <2>5, <2>6, KeptCreate
  <2>8. QED
    BY <1>1, <2>2, <2>5, <2>7, LedgerMoves
<1>4. QED
  BY <1>2, <1>3

\* The task is saved.
LEMMA LedgerSave ==
  ASSUME Queued, LedgerInv, NEW v \in View, Save(v)
  PROVE  LedgerInv'
<1>1. /\ pc[v] = "saving" /\ UNCHANGED <<store, turn, events, from, hand, online, cut>>
      /\ pc' = [pc EXCEPT ![v] = "yielding"] /\ pc \in [View -> Places]
  BY DEF Save, agentVars, Queued, TaskTypes
<1>2. CASE from # 0
  BY <1>1, <1>2 DEF LedgerInv
<1>3. CASE from = 0
  <2>1. v = "main"
    BY <1>1, <1>3, OnlyMain
  <2>2. PICK n \in Nat : hand["main"] = n + 1 /\ n + 1 \in 1..Len(events)
    BY <1>1, <2>1, HandAfter DEF InHand
  <2>3. World \in Worlds /\ Kept(World, "saving", n + 1, cut, online)
        /\ MineOf(World) = cur["main"]
    BY <1>1, <1>3, <2>1, <2>2, MainKept DEF Gone
  <2>4. store = "database"
    BY <2>3 DEF Kept, ReaderShape, Queued, TaskTypes
  <2>5. pc'["tap"] = pc["tap"] /\ pc'["main"] = "yielding"
    BY <1>1, <2>1 DEF View
  <2>6. Target("main") = TargetOf(World, n + 1)
    BY <2>2, <2>3 DEF Target, TargetOf
  <2>7. World' = Saved(World, "main", TargetOf(World, n + 1))
    BY <2>1, <2>6, SaveIs
  <2>8. Kept(World', pc'["main"], n + 1, cut, online)
    BY <2>2, <2>3, <2>4, <2>5, <2>7, KeptSave
  <2>9. QED
    BY <1>1, <2>2, <2>5, <2>8, LedgerMoves
<1>4. QED
  BY <1>2, <1>3

\* The event is passed on.
LEMMA LedgerYield ==
  ASSUME Queued, LedgerInv, NEW v \in View, Yield(v)
  PROVE  LedgerInv'
<1>1. /\ pc[v] = "yielding" /\ UNCHANGED <<store, turn, events, from, hand, online, cut>>
      /\ UNCHANGED recordVars
      /\ pc' = [pc EXCEPT ![v] = AfterEvent(v)] /\ pc \in [View -> Places]
  BY DEF Yield, agentVars, Queued, TaskTypes
<1>2. CASE from # 0
  BY <1>1, <1>2 DEF LedgerInv
<1>3. CASE from = 0
  <2>1. v = "main"
    BY <1>1, <1>3, OnlyMain
  <2>2. World \in Worlds /\ Kept(World, "yielding", hand["main"], cut, online)
    BY <1>1, <1>3, <2>1, MainKept DEF Gone
  <2>3. pc'["tap"] = pc["tap"] /\ pc'["main"] \in {"ready", "done"}
    BY <1>1, <2>1 DEF View, AfterEvent
  <2>4. World' = World
    BY <1>1 DEF World, recordVars
  <2>5. Kept(World', pc'["main"], hand["main"], cut, online)
    BY <2>2, <2>3, <2>4, KeptYield
  <2>6. QED
    BY <1>1, <2>3, <2>5, LedgerMoves
<1>4. QED
  BY <1>2, <1>3

\* The client leaves.
LEMMA LedgerDisconnect ==
  ASSUME Queued, LedgerInv, Disconnect
  PROVE  LedgerInv'
<1>1. /\ UNCHANGED <<store, turn, events, from, hand>> /\ online = TRUE /\ online' = FALSE
      /\ pc \in [View -> Places] /\ pc["main"] \in InHand \union {"ready", "strayed"}
  <2>1. online \/ online = TRUE
    BY DEF Disconnect
  <2>2. QED
    BY <2>1 DEF Disconnect, agentVars, Queued, TaskTypes, InHand
<1>2. CASE from # 0
  BY <1>1, <1>2 DEF LedgerInv
<1>3. CASE pc["main"] = "strayed"
  <2>1. UNCHANGED pc
    BY <1>3 DEF Disconnect
  <2>2. pc'["main"] \in Gone /\ pc'["tap"] = pc["tap"]
    BY <1>3, <2>1 DEF Gone
  <2>3. QED
    BY <1>1, <2>2, LedgerMoves
<1>4. CASE from = 0 /\ pc["main"] # "strayed"
  <2> DEFINE i == hand["main"]
  <2>1. /\ World \in Worlds /\ Kept(World, pc["main"], i, cut, online)
        /\ MineOf(World) = cur["main"]
    BY <1>1, <1>4, MainKept DEF InHand, Gone
  <2>2. pc'["tap"] = pc["tap"]
    BY <1>1 DEF Disconnect, View
  <2>3. UNCHANGED recordVars => World' = World
    BY DEF World, recordVars
  <2>4. CASE pc["main"] = "ready"
    <3>1. World' = World /\ UNCHANGED <<pc, cut>>
      BY <2>3, <2>4 DEF Disconnect
    <3>2. Kept(World', pc'["main"], i, cut', FALSE)
      BY <2>1, <3>1, KeptAlone
    <3>3. QED
      BY <1>1, <2>2, <3>2, LedgerMoves
  <2>5. CASE pc["main"] = "yielding"
    <3>1. World' = World /\ cut' = cut /\ pc'["main"] \in {"ready", "done"}
      BY <1>1, <2>3, <2>5 DEF Disconnect, AfterEvent, View
    <3>2. Kept(World', pc'["main"], i, cut', FALSE)
      BY <2>1, <2>5, <3>1, KeptYield
    <3>3. QED
      BY <1>1, <2>2, <3>2, LedgerMoves
  <2>6. CASE pc["main"] \in {"loading", "creating", "saving"}
    <3>1. PICK n \in Nat : i = n + 1 /\ n + 1 \in 1..Len(events)
      BY <2>6, HandAfter DEF InHand
    <3>2. store = "database" /\ cut = 0
      BY <1>1, <2>1, <2>6 DEF Kept, ReaderShape, Queued, TaskTypes
    <3>3. /\ pc'["main"] \in {"ready", "done"} /\ cut' = n + 1
          /\ Kept(World, pc["main"], n + 1, 0, TRUE)
      BY <1>1, <2>1, <2>6, <3>1, <3>2 DEF Disconnect, AfterEvent, View
    <3>4. \/ World' = World
          \/ /\ pc["main"] \in {"creating", "saving"}
             /\ World' = Stored(World, Target("main"))
      BY DisconnectIs
    <3>5. Target("main") = TargetOf(World, n + 1)
      BY <2>1, <3>1 DEF Target, TargetOf
    <3>6. pc["main"] = "creating" => events[n + 1].kind # "task"
      BY <1>1, <3>1, HandIs DEF InHand, View
    <3>7. Kept(World', pc'["main"], n + 1, n + 1, FALSE)
      <4>1. CASE World' = World
        BY <2>1, <2>6, <3>1, <3>2, <3>3, <4>1, KeptLost
      <4>2. CASE pc["main"] \in {"creating", "saving"} /\ World' = Stored(World, Target("main"))
        BY <2>1, <3>1, <3>2, <3>3, <3>5, <3>6, <4>2, KeptLanded
      <4>3. QED
        BY <3>4, <4>1, <4>2
    <3>8. QED
      BY <1>1, <2>2, <3>1, <3>3, <3>7, LedgerMoves
  <2>7. QED
    BY <1>1, <1>4, <2>4, <2>5, <2>6 DEF InHand
<1>5. QED
  BY <1>2, <1>3, <1>4

\* Two heaps that differ in objects of events to come.
Ahead(w, x) ==
  /\ x.cur = w.cur /\ x.shelf = w.shelf /\ x.parts = w.parts
  /\ \A o \in Obj : ~(o \in 1..MaxEvents /\ o > Len(events)) => x.heap[o] = w.heap[o]

\* The ledger is not about events to come.
LEMMA KeptAhead ==
  ASSUME Queued, NEW w \in Worlds, NEW x \in Worlds, Ahead(w, x), NEW at, NEW i \in Nat,
         i <= Len(events), NEW lost, NEW on, Kept(w, at, i, lost, on)
  PROVE  Kept(x, at, i, lost, on)
<1>1. /\ ReaderShape(w, at, i, lost, on) /\ Untouched(w, at, i)
      /\ store = "memory" => MemoryLedger(w, i)
      /\ store = "database" => DatabaseLedger(w, at, i, lost)
  BY DEF Kept
<1>2. /\ x.cur = w.cur /\ x.shelf = w.shelf /\ x.parts = w.parts /\ MineOf(x) = MineOf(w)
      /\ TargetOf(x, i) = TargetOf(w, i)
  BY DEF Ahead, MineOf, TargetOf
<1>3. Len(events) \in Nat /\ Len(events) <= MaxEvents
  BY EventsAre, TaskAssumption DEF Queued, TaskTypes
<1>4. "main" \in View /\ MineOf(w) \in {None, Own("main"), Row} \union 1..i
  BY <1>1 DEF ReaderShape, View
<1>5. \A o \in {Own("main"), Row} \union 1..i : o \in Obj /\ x.heap[o] = w.heap[o]
  <2>1. \A o \in 1..i : o \in Obj /\ ~(o > Len(events))
    BY <1>3, ObjIs, TaskAssumption
  <2>2. \A o \in {Own("main"), Row} : o \in Obj /\ ~(o \in 1..MaxEvents)
    BY <1>4, ObjIs
  <2>3. QED
    BY <2>1, <2>2 DEF Ahead
<1>6. ASSUME NEW o \in {Own("main"), Row} \union 1..i, NEW n \in Nat, n <= i
      PROVE  /\ \A D : Tells(w, o, n, D) => Tells(x, o, n, D)
             /\ TellsAll(w, o, n, lost) => TellsAll(x, o, n, lost)
  <2>1. \A D : Tells(w, o, n, D) => Tells(x, o, n, D)
    BY <1>2, <1>5 DEF Tells
  <2>2. QED
    BY <2>1 DEF TellsAll
<1>7. ReaderShape(x, at, i, lost, on)
  BY <1>1, <1>2 DEF ReaderShape
<1>8. Untouched(x, at, i)
  <2>1. \A j \in 1..Len(events) : x.heap[j] = w.heap[j]
    <3>1. \A j \in 1..Len(events) : j \in Obj /\ ~(j > Len(events))
      BY <1>3, InQueue, ObjIs
    <3>2. QED
      BY <3>1 DEF Ahead
  <2>2. at = "yielding" => i \in 1..Len(events)
    BY <1>1, <1>3 DEF ReaderShape
  <2>3. QED
    BY <1>1, <1>2, <2>1, <2>2 DEF Untouched
<1>9. store = "memory" => MemoryLedger(x, i)
  BY <1>1, <1>2, <1>4, <1>6 DEF MemoryLedger
<1>10. store = "database" => DatabaseLedger(x, at, i, lost)
  <2>1. at # "ready" => i > 0
    BY <1>1 DEF ReaderShape
  <2>2. Settled(at, i) \in Nat /\ Settled(at, i) <= i
    BY <2>1 DEF Settled
  <2>3. RowTells(w, Settled(at, i), lost) => RowTells(x, Settled(at, i), lost)
    BY <1>5, RowStays
  <2>4. at = "saving" => i \in 1..i /\ i - 1 \in Nat /\ i - 1 <= i
    BY <2>1
  <2>5. at = "saving" => TargetOf(w, i) \in {Own("main"), Row} \union 1..i
    BY <1>4, <2>4 DEF TargetOf
  <2>6. MineOf(w) # None => MineOf(w) \in {Own("main"), Row} \union 1..i
    BY <1>4
  <2>7. ASSUME store = "database" PROVE DatabaseLedger(x, at, i, lost)
    <3>1. DatabaseLedger(w, at, i, lost)
      BY <1>1, <2>7
    <3>2. /\ MineOf(x) = None => Unseen(Settled(at, i), lost)
          /\ x.shelf = Row => RowTells(x, Settled(at, i), lost)
          /\ x.shelf = None => MineOf(x) = None
          /\ at \in {"loading", "creating"} => MineOf(x) = None
          /\ at = "creating" => x.shelf = None /\ x.heap[Own("main")] = Fresh("main")
      BY <1>2, <1>5, <2>3, <3>1 DEF DatabaseLedger
    <3>3. at \in {"ready", "yielding", "done"} /\ MineOf(x) # None => TellsAll(x, MineOf(x), i, lost)
      BY <1>2, <1>6, <2>6, <3>1 DEF DatabaseLedger
    <3>4. at = "saving" /\ events[i].kind = "task" =>
            MineOf(x) # i /\ (MineOf(x) # None => TellsAll(x, MineOf(x), i - 1, lost))
      BY <1>2, <1>6, <2>4, <2>6, <3>1 DEF DatabaseLedger
    <3>5. at = "saving" /\ events[i].kind # "task" => TellsAll(x, TargetOf(x, i), i, lost)
      BY <1>2, <1>6, <2>5, <3>1 DEF DatabaseLedger
    <3>6. QED
      BY <3>2, <3>3, <3>4, <3>5 DEF DatabaseLedger
  <2>8. QED
    BY <2>7
<1>11. QED
  BY <1>7, <1>8, <1>9, <1>10 DEF Kept

\* More events.
Longer ==
  /\ UNCHANGED <<store, turn>> /\ Len(events') \in Nat /\ Len(events) <= Len(events')
  /\ \A i \in 1..Len(events) : events'[i] = events[i]

\* What an object tells is not changed by events to come ...
LEMMA TellsLonger ==
  ASSUME Queued, Longer, NEW n \in Nat, n <= Len(events)
  PROVE  \A t, ps, D : TellsOf(t, ps, n, D)' <=> TellsOf(t, ps, n, D)
<1>1. \A i \in 1..n : events'[i] = events[i]
  <2>1. Len(events) \in Nat
    BY EventsAre DEF Queued
  <2>2. \A i \in 1..n : i \in 1..Len(events)
    BY <2>1
  <2>3. QED
    BY <2>2 DEF Longer
<1> TAKE t, ps, D
<1>2. Log(n, D)' = Log(n, D)
  BY <1>1, LogStays DEF Longer
<1>3. SoundTo(t.artifacts, n)' <=> SoundTo(t.artifacts, n)
  BY <1>1 DEF SoundTo, Distinct, Refers
<1>4. QED
  BY <1>2, <1>3 DEF TellsOf

\* ... nor is the ledger, if a Task is there as the agent made it.
LEMMA KeptLonger ==
  ASSUME Queued, Longer, NEW at, NEW i \in Nat, i <= Len(events), NEW lost, NEW on, NEW x,
         Kept(x, at, i, lost, on),
         \A j \in 1..Len(events') : j > Len(events) /\ events'[j].kind = "task" =>
           x.heap[j] = First(j)'
  PROVE  Kept(x, at, i, lost, on)'
<1>1. /\ ReaderShape(x, at, i, lost, on) /\ Untouched(x, at, i)
      /\ store = "memory" => MemoryLedger(x, i)
      /\ store = "database" => DatabaseLedger(x, at, i, lost)
  BY DEF Kept
<1>2. ReaderShape(x, at, i, lost, on)'
  BY <1>1 DEF ReaderShape, MineOf, Longer
<1>3. at # "ready" => i > 0
  BY <1>1 DEF ReaderShape
<1>4. Len(events) \in Nat
  BY EventsAre DEF Queued
<1>5. at # "ready" => i \in 1..Len(events) /\ events'[i] = events[i]
  BY <1>3, <1>4 DEF Longer
<1>6. Untouched(x, at, i)'
  <2>1. ASSUME NEW j \in 1..Len(events'), j >= i, events'[j].kind = "task", MineOf(x) # j
        PROVE  x.heap[j] = First(j)'
    <3>1. CASE j > Len(events)
      BY <2>1, <3>1
    <3>2. CASE ~(j > Len(events))
      <4>1. j \in 1..Len(events) /\ events'[j] = events[j]
        BY <1>4, <3>2 DEF Longer
      <4>2. x.heap[j] = First(j)
        BY <1>1, <2>1, <4>1 DEF Untouched
      <4>3. QED
        BY <4>1, <4>2 DEF First
    <3>3. QED
      BY <3>1, <3>2
  <2>2. at = "yielding" /\ events'[i].kind = "task" => x.heap[i] = First(i)'
    BY <1>1, <1>5 DEF Untouched, First
  <2>3. \A j \in 1..MaxEvents : j >= i => x.parts[j] = <<j>>
    BY <1>1 DEF Untouched
  <2>4. QED
    BY <2>1, <2>2, <2>3 DEF Untouched, MineOf
<1>7. \A o, n, D : n \in Nat /\ n <= i => (Tells(x, o, n, D)' <=> Tells(x, o, n, D))
  <2>1. \A n : n \in Nat /\ n <= i => n <= Len(events)
    BY <1>4
  <2>2. QED
    BY <2>1, TellsLonger DEF Tells
<1>8. \A o, n : n \in Nat /\ n <= i => (TellsAll(x, o, n, lost)' <=> TellsAll(x, o, n, lost))
  BY <1>7 DEF TellsAll
<1>9. \A n : n \in Nat /\ n <= i => (RowTells(x, n, lost)' <=> RowTells(x, n, lost))
  <2>1. Asked' = Asked
    BY DEF Asked, Longer
  <2>2. QED
    BY <1>8, <2>1 DEF RowTells, OwnParts, Unseen, Longer
<1>10. (store = "memory" => MemoryLedger(x, i))'
  BY <1>1, <1>7 DEF MemoryLedger, MineOf, Longer
<1>11. Settled(at, i) \in Nat /\ Settled(at, i) <= i /\ (at = "saving" => i - 1 \in Nat /\ i - 1 <= i)
  BY <1>3 DEF Settled
<1>12. (store = "database" => DatabaseLedger(x, at, i, lost))'
  <2>1. ASSUME store = "database" PROVE DatabaseLedger(x, at, i, lost)'
    <3>1. DatabaseLedger(x, at, i, lost)
      BY <1>1, <2>1
    <3>2. at = "saving" => TargetOf(x, i)' = TargetOf(x, i)
      BY <1>5 DEF TargetOf, MineOf
    <3>3. RowTells(x, Settled(at, i), lost)' <=> RowTells(x, Settled(at, i), lost)
      BY <1>9, <1>11
    <3>4. /\ MineOf(x) = None => Unseen(Settled(at, i), lost)
          /\ x.shelf = Row => RowTells(x, Settled(at, i), lost)'
          /\ x.shelf = None => MineOf(x) = None
          /\ at \in {"loading", "creating"} => MineOf(x) = None
          /\ at = "creating" => x.shelf = None /\ x.heap[Own("main")] = Fresh("main")
      BY <3>1, <3>3 DEF DatabaseLedger
    <3>5. at \in {"ready", "yielding", "done"} /\ MineOf(x) # None =>
            TellsAll(x, MineOf(x), i, lost)'
      BY <1>8, <3>1 DEF DatabaseLedger
    <3>6. at = "saving" /\ events'[i].kind = "task" =>
            MineOf(x) # i /\ (MineOf(x) # None => TellsAll(x, MineOf(x), i - 1, lost)')
      BY <1>5, <1>8, <1>11, <3>1 DEF DatabaseLedger
    <3>7. at = "saving" /\ events'[i].kind # "task" => TellsAll(x, TargetOf(x, i), i, lost)'
      <4>1. \A o : TellsAll(x, o, i, lost)' <=> TellsAll(x, o, i, lost)
        BY <1>8
      <4>2. at = "saving" /\ events[i].kind # "task" => TellsAll(x, TargetOf(x, i), i, lost)
        BY <3>1 DEF DatabaseLedger
      <4>3. QED
        BY <1>5, <3>2, <4>1, <4>2
    <3>8. QED
      BY <3>2, <3>4, <3>5, <3>6, <3>7 DEF DatabaseLedger, MineOf, Settled, Unseen
  <2>2. QED
    BY <2>1 DEF Longer
<1>13. QED
  BY <1>2, <1>6, <1>10, <1>12 DEF Kept

\* What the agent does to the queue.
LEMMA AgentPuts ==
  ASSUME Queued, AgentStep
  PROVE  /\ UNCHANGED <<store, turn, closed, pc, from, hand, cur, shelf, parts, online, cut, sent>>
         /\ \/ UNCHANGED <<events, recordVars>>
            \/ Len(events) < MaxEvents /\ \E e \in TaskEvents : Enqueue(e)
<1>1. Len(events) \in Nat /\ Len(putting) \in Nat /\ Len(events) + Len(putting) <= MaxEvents
  BY EventsAre DEF Queued, TaskTypes
<1>2. UNCHANGED <<store, turn, closed, pc, from, hand, cur, shelf, parts, online, cut, sent>>
  BY DEF AgentStep, UpdateStatus, StatusPut, StatusCancelled, Publish, recordVars
<1>3. ASSUME NEW state, NEW msg, UpdateStatus(state, msg) PROVE UNCHANGED <<events, recordVars>>
  BY <1>3 DEF UpdateStatus
<1>4. CASE StatusCancelled
  BY <1>2, <1>4 DEF StatusCancelled
<1>5. CASE StatusPut
  <2>1. PICK e \in StatusEvents : putting = <<e>>
    BY <1>5 DEF StatusPut, Queued, LatchInv, AgentTypeOK
  <2>2. e \in TaskEvents /\ Enqueue(e)
    BY <1>5, <2>1 DEF StatusPut, TaskEvents
  <2>3. Len(putting) = 1
    BY <2>1
  <2>4. Len(events) < MaxEvents
    BY <1>1, <2>3, TaskAssumption
  <2>5. QED
    BY <1>2, <2>2, <2>4
<1>6. ASSUME NEW e \in ArtifactEvents \union OtherEvents, Publish(e)
      PROVE  Len(events) < MaxEvents /\ e \in TaskEvents /\ Enqueue(e)
  <2>1. e \in TaskEvents /\ Enqueue(e) /\ RoomLeft
    BY <1>6 DEF Publish, TaskEvents
  <2>2. QED
    BY <1>1, <2>1, RoomIs, TaskAssumption
<1>7. QED
  BY <1>2, <1>3, <1>4, <1>5, <1>6 DEF AgentStep

\* What the agent does keeps the ledger.
LEMMA LedgerAgent ==
  ASSUME Queued, LedgerInv, AgentStep
  PROVE  LedgerInv'
<1>1. UNCHANGED <<store, turn, closed, pc, from, hand, cur, shelf, parts, online, cut, sent>>
  BY AgentPuts
<1>2. CASE UNCHANGED <<events, recordVars>>
  <2>1. World' = World
    BY <1>2 DEF World, recordVars
  <2>2. from = 0 /\ pc'["main"] \notin Gone =>
           Kept(World', pc'["main"], hand'["main"], cut', online')
    BY <1>1, <2>1 DEF LedgerInv
  <2>3. UNCHANGED <<store, turn, events, from>> /\ pc'["tap"] = pc["tap"]
    BY <1>1, <1>2
  <2>4. QED
    BY <2>2, <2>3, LedgerMoves
<1>3. ASSUME Len(events) < MaxEvents, NEW e \in TaskEvents, Enqueue(e) PROVE LedgerInv'
  <2>1. /\ World' \in Worlds /\ Len(events') \in Nat
        /\ Len(events) <= Len(events') /\ \A i \in 1..Len(events) : events'[i] = events[i]
        /\ \A o \in Obj : ~(o \in 1..MaxEvents /\ o > Len(events)) => heap'[o] = heap[o]
        /\ \A i \in 1..Len(events') : i > Len(events) /\ events'[i].kind = "task" =>
             heap'[i] = Snapshot(i)
    BY <1>1, <1>3, EnqueueIs
  <2>2. SUFFICES ASSUME from = 0, pc["main"] \notin Gone
                 PROVE  Kept(World, pc["main"], hand["main"], cut, online)'
    BY <1>1 DEF LedgerInv
  <2> DEFINE i == hand["main"]
             at == pc["main"]
             x == World'
  <2>3. World \in Worlds /\ Kept(World, at, i, cut, online) /\ i \in Nat
    BY <2>2, MainKept
  <2>4. i <= Len(events)
    BY DEF Queued, TaskTypes, HandsHold, View
  <2>5. x.heap = heap' /\ x.cur = cur' /\ x.shelf = shelf' /\ x.parts = parts'
    BY DEF World
  <2>6. World.heap = heap /\ World.cur = cur /\ World.shelf = shelf /\ World.parts = parts
    BY DEF World
  <2>7. Ahead(World, x)
    BY <1>1, <2>1, <2>5, <2>6 DEF Ahead
  <2>8. Longer
    BY <1>1, <2>1 DEF Longer
  <2>9. \A j \in 1..Len(events') : j > Len(events) /\ events'[j].kind = "task" =>
          x.heap[j] = First(j)'
    BY <2>1, <2>5 DEF Snapshot, First
  <2>10. x \in Worlds
    BY <2>1
  <2>11. UNCHANGED <<pc, hand, cut, online>>
    BY <1>1
  <2> HIDE DEF x, i, at
  <2>12. Kept(x, at, i, cut, online)
    BY <2>3, <2>4, <2>7, <2>10, KeptAhead
  <2>13. \A y, a, l, on : \A k \in Nat : k <= Len(events) /\ Kept(y, a, k, l, on) /\
           (\A j \in 1..Len(events') : j > Len(events) /\ events'[j].kind = "task" =>
             y.heap[j] = First(j)') => Kept(y, a, k, l, on)'
    BY <2>8, KeptLonger
  <2>14. QED
    BY <2>3, <2>4, <2>9, <2>11, <2>12, <2>13 DEF x, i, at
<1>4. QED
  BY <1>2, <1>3, AgentPuts

\* So do the steps that touch neither the tasks nor the store.
LEMMA LedgerOther ==
  ASSUME Queued, LedgerInv
  PROVE  /\ \A v \in View : TakeForeign(v) => LedgerInv'
         /\ Resubscribe \/ TapEnds \/ UNCHANGED taskVars => LedgerInv'
<1>1. pc \in [View -> Places] /\ Len(events) \in Nat
  BY EventsAre DEF Queued, TaskTypes
<1>2. ASSUME NEW v \in View, TakeForeign(v) PROVE LedgerInv'
  <2>1. /\ UNCHANGED <<store, turn, events, from>>
        /\ \E place \in Gone : pc' = [pc EXCEPT ![v] = place]
        /\ pc[v] \in {"ready", "strayed"}
    BY <1>2 DEF TakeForeign, agentVars, Takes, Gone
  <2>2. CASE from # 0
    BY <2>1, <2>2 DEF LedgerInv
  <2>3. CASE from = 0
    <3>1. v = "main"
      BY <2>1, <2>3, OnlyMain
    <3>2. pc'["main"] \in Gone /\ pc'["tap"] = pc["tap"]
      BY <1>1, <2>1, <3>1 DEF View
    <3>3. QED
      BY <2>1, <3>2, LedgerMoves
  <2>4. QED
    BY <2>2, <2>3
<1>3. CASE Resubscribe
  <2>1. from' = Len(events) + 1
    BY <1>3 DEF Resubscribe
  <2>2. from' # 0
    BY <1>1, <2>1
  <2>3. QED
    BY <2>2 DEF LedgerInv
<1>4. CASE TapEnds
  BY <1>4 DEF TapEnds, LedgerInv
<1>5. CASE UNCHANGED taskVars
  <2>1. UNCHANGED <<store, turn, events, from, pc, hand, cut, online>> /\ World' = World
    BY <1>5 DEF taskVars, agentVars, recordVars, World
  <2>2. from = 0 /\ pc'["main"] \notin Gone =>
           Kept(World', pc'["main"], hand'["main"], cut', online')
    BY <2>1 DEF LedgerInv
  <2>3. QED
    BY <2>1, <2>2, LedgerMoves
<1>6. QED
  BY <1>2, <1>3, <1>4, <1>5

\* Every step keeps the ledger.
LEMMA LedgerStep ==
  ASSUME Queued, LedgerInv, [TaskNext]_taskVars
  PROVE  LedgerInv'
<1>1. ASSUME NEW v \in View, ReaderStep(v) PROVE LedgerInv'
  BY <1>1, LedgerTakeInMemory, LedgerTakeToDatabase, LedgerLoad, LedgerCreate, LedgerSave,
     LedgerYield, LedgerOther DEF ReaderStep
<1>2. QED
  BY <1>1, LedgerAgent, LedgerDisconnect, LedgerOther DEF TaskNext

\* The queue, the tasks and the ledger together.
LedgerHolds == LatchInv /\ TaskTypes /\ LedgerInv

\* They hold at the start ...
LEMMA LedgerHoldsInit == TaskInit => LedgerHolds
BY LatchInit, TaskTypesInit, LedgerInit DEF LedgerHolds

\* ... and after every step.
LEMMA LedgerHoldsNext == LedgerHolds /\ [TaskNext]_taskVars => LedgerHolds'
<1> SUFFICES ASSUME LedgerHolds, [TaskNext]_taskVars PROVE LedgerHolds'
  OBVIOUS
<1>1. LatchInv /\ Queued /\ LedgerInv
  BY DEF LedgerHolds, Queued
<1>2. LatchInv'
  BY <1>1, LatchStep
<1>3. TaskTypes'
  BY <1>1, <1>2, TaskTypesStep
<1>4. LedgerInv'
  BY <1>1, LedgerStep
<1>5. QED
  BY <1>2, <1>3, <1>4 DEF LedgerHolds

\* A follow-up of which nothing was saved yet.
LEMMA AskedCopied ==
  ASSUME turn \in Turns, NEW ps
  PROVE  Copy(Asked, ps) = Asked
<1> DEFINE A == Brought
<1>1. /\ A \in Seq(Refs) /\ DOMAIN A = 1..Len(A) /\ A = [k \in 1..Len(A) |-> A[k]]
      /\ \A k \in 1..Len(A) : A[k] = ArtifactOf(turn.kept[k], 0, <<Earlier>>)
  BY BroughtIs, LenProperties
<1>2. Asked.artifacts = A /\ Asked \in TaskValues
  BY AskedIn, AskedIs
<1> HIDE DEF A
<1>3. \A k \in 1..Len(A) : ArtifactOf(A[k].id, 0, PartsOf(A[k], ps)) = A[k]
  BY <1>1, ArtifactFields DEF PartsOf
<1>4. Copied(A, ps) = A
  BY <1>1, <1>3 DEF Copied
<1>5. Copy(Asked, ps) = [state |-> Asked.state, msg |-> Asked.msg, history |-> Asked.history,
                         artifacts |-> Asked.artifacts]
  BY <1>2, <1>4, CopyIs
<1>6. QED
  BY <1>2, <1>5 DEF TaskValues

\* As long as one TaskManager reads the queue, what the store holds is what the
\* events tell: whatever the agent publishes, whichever object the manager, the
\* event and the store share, and wherever the client leaves, of whom one event
\* at most is lost.
THEOREM StoredAlwaysLog == TaskSpec => []StoredIsLog
<1>1. ASSUME LedgerHolds PROVE StoredIsLog
  <2> DEFINE i == hand["main"]
  <2>1. SUFFICES ASSUME from = 0, pc["main"] \in {"ready", "yielding", "done"}, i > 0, shelf # None
                 PROVE  \/ StoredTask \in {Log(i, {}), Log(i, {cut})}
                        \/ ~turn.new /\ cut = 1 /\ i = 1 /\ StoredTask = Asked
    BY DEF StoredIsLog, OneManager, Between
  <2>2. /\ World \in Worlds /\ Kept(World, pc["main"], i, cut, online) /\ i \in Nat
        /\ World.shelf = shelf /\ World.heap = heap /\ World.parts = parts
    BY <1>1, <2>1, MainKept DEF LedgerHolds, Queued, World, Gone
  <2>3. /\ store \in {"memory", "database"} /\ (store = "database" => shelf = Row)
        /\ turn \in Turns
    BY <1>1, <2>1 DEF LedgerHolds, TaskTypes
  <2>4. \A D : Tells(World, shelf, i, D) => StoredTask = Log(i, D)
    BY <2>2 DEF Tells, TellsOf, StoredTask
  <2> HIDE DEF i
  <2>5. CASE store = "memory"
    <3>1. Tells(World, shelf, i, {})
      BY <2>1, <2>2, <2>5 DEF Kept, MemoryLedger
    <3>2. QED
      BY <2>4, <3>1
  <2>6. CASE store = "database"
    <3>1. Settled(pc["main"], i) = i
      BY <2>1 DEF Settled
    <3>2. RowTells(World, i, cut)
      BY <2>2, <2>3, <2>6, <3>1 DEF Kept, DatabaseLedger
    <3>3. CASE TellsAll(World, Row, i, cut)
      BY <2>3, <2>4, <2>6, <3>3 DEF TellsAll
    <3>4. CASE ~turn.new /\ World.heap[Row] = Asked /\ Unseen(i, cut)
      <4>1. StoredTask = Asked
        BY <2>2, <2>3, <2>6, <3>4, AskedCopied DEF StoredTask
      <4>2. i = 1 /\ cut = 1
        BY <2>1, <3>4 DEF Unseen
      <4>3. QED
        BY <3>4, <4>1, <4>2
    <3>5. QED
      BY <3>2, <3>3, <3>4 DEF RowTells
  <2>7. QED
    BY <2>3, <2>5, <2>6
<1>2. QED
  BY LedgerHoldsInit, LedgerHoldsNext, <1>1, PTL DEF TaskSpec

-----------------------------------------------------------------------------
(* The client.                                                             *)

\* The views of the client after each message.
Views(n, f) ==
  f = [k \in 0..n |-> IF k = 0 THEN NoView ELSE ClientReceives(f[k - 1], sent[k])]

\* The function that ClientView defines by recursion exists.
LEMMA ViewsExist ==
  ASSUME NEW n \in Nat
  PROVE  \E f : Views(n, f)
<1> DEFINE T == {k \in Nat : ~\E f : Views(k, f)}
<1>1. SUFFICES ASSUME T # {} PROVE FALSE
  OBVIOUS
<1>2. PICK k \in T : \A j \in T : k <= j
  BY <1>1, LeastNat
<1>3. CASE k = 0
  <2>1. Views(0, [i \in 0..0 |-> NoView])
    BY DEF Views
  <2>2. QED
    BY <1>2, <1>3, <2>1
<1>4. CASE k # 0
  <2>1. k \in Nat /\ k - 1 \in Nat /\ ~(k <= k - 1)
    BY <1>4
  <2>2. PICK g : Views(k - 1, g)
    BY <1>2, <2>1
  <2> DEFINE f == [i \in 0..k |-> IF i = k THEN ClientReceives(g[k - 1], sent[k]) ELSE g[i]]
  <2>3. \A i \in 0..(k - 1) : g[i] = IF i = 0 THEN NoView ELSE ClientReceives(g[i - 1], sent[i])
    BY <2>2 DEF Views
  <2>4. \A i \in 0..k : f[i] = IF i = 0 THEN NoView ELSE ClientReceives(f[i - 1], sent[i])
    <3>1. f[k] = ClientReceives(f[k - 1], sent[k])
      BY <1>4, <2>1
    <3>2. ASSUME NEW i \in 0..(k - 1)
          PROVE  f[i] = IF i = 0 THEN NoView ELSE ClientReceives(f[i - 1], sent[i])
      BY <2>1, <2>3
    <3> HIDE DEF f
    <3>3. QED
      BY <1>4, <2>1, <3>1, <3>2
  <2>5. f = [i \in 0..k |-> f[i]]
    OBVIOUS
  <2> HIDE DEF f
  <2>6. Views(k, f)
    BY <2>4, <2>5 DEF Views
  <2>7. QED
    BY <1>2, <2>6
<1>5. QED
  BY <1>3, <1>4

Receives(n, f) ==
  f[0] = NoView /\ \A k \in 1..n : f[k] = ClientReceives(f[k - 1], sent[k])

\* The client takes one message after the other.
LEMMA ViewIs ==
  ASSUME Len(sent) \in Nat
  PROVE  \E f : ClientView = f[Len(sent)] /\ Receives(Len(sent), f)
<1> DEFINE n == Len(sent)
           F == CHOOSE f : Views(n, f)
<1>1. Views(n, F)
  BY ViewsExist
<1>2. ClientView = F[n]
  BY DEF ClientView, Views
<1> HIDE DEF F, n
<1>3. Receives(n, F)
  <2>1. \A k \in 0..n : F[k] = IF k = 0 THEN NoView ELSE ClientReceives(F[k - 1], sent[k])
    BY <1>1 DEF Views
  <2>2. n \in Nat
    BY DEF n
  <2>3. 0 \in 0..n /\ \A k \in 1..n : k \in 0..n /\ k # 0
    BY <2>2
  <2>4. QED
    BY <2>1, <2>3, Zenon DEF Receives
<1>4. QED
  BY <1>2, <1>3 DEF n

\* A task and a view are records of these fields.
IsTask(t) == t = [state |-> t.state, msg |-> t.msg, history |-> t.history, artifacts |-> t.artifacts]
IsView(v) == v = [task |-> v.task, some |-> v.some, ok |-> v.ok] /\ IsTask(v.task)

\* The first Task the client receives is its view.
LEMMA ViewOfTask ==
  ASSUME NEW v, IsView(v), NEW m, IsTask(m.task), events[m.i].kind = "task"
  PROVE  LET x == ClientReceives(v, m) IN
         /\ IsView(x) /\ x.some = TRUE /\ (x.ok <=> v.ok /\ ~v.some)
         /\ ~v.some => x.task = m.task
<1> DEFINE y == [task |-> IF v.some THEN v.task ELSE m.task, some |-> TRUE, ok |-> v.ok /\ ~v.some]
<1>1. ClientReceives(v, m) = y
  BY DEF ClientReceives
<1>2. IsTask(y.task)
  BY DEF IsView
<1>3. IsView(y) /\ y.some = TRUE /\ (y.ok <=> v.ok /\ ~v.some) /\ (~v.some => y.task = m.task)
  BY <1>2 DEF IsView
<1> HIDE DEF y
<1>4. QED
  BY <1>1, <1>3

\* The message of a status is kept as it comes.
LEMMA ViewOfStatus ==
  ASSUME NEW v, IsView(v), NEW m, events[m.i].kind = "status"
  PROVE  LET x == ClientReceives(v, m) IN
         /\ IsView(x) /\ x.some = TRUE /\ x.ok = v.ok
         /\ x.task.state = events[m.i].state /\ x.task.artifacts = v.task.artifacts
         /\ x.task.history = IF events[m.i].msg THEN Append(v.task.history, m.i) ELSE v.task.history
<1> DEFINE e == events[m.i]
           t == v.task
           h == IF e.msg THEN Append(t.history, m.i) ELSE t.history
           g == IF e.msg THEN m.i ELSE 0
           x == [v EXCEPT !.some = TRUE, !.task.history = IF e.msg THEN Append(@, m.i) ELSE @,
                          !.task.msg = IF e.msg THEN m.i ELSE 0, !.task.state = e.state]
           u == [state |-> e.state, msg |-> g, history |-> h, artifacts |-> t.artifacts]
           y == [task |-> u, some |-> TRUE, ok |-> v.ok]
<1>1. ClientReceives(v, m) = x
  BY DEF ClientReceives
<1>2. x = y
  <2>1. x = [v EXCEPT !.some = TRUE, !.task.history = h, !.task.msg = g, !.task.state = e.state]
    OBVIOUS
  <2>2. v \in [task : [state : {t.state}, msg : {t.msg}, history : {t.history},
                       artifacts : {t.artifacts}], some : {v.some}, ok : {v.ok}]
    BY DEF IsView, IsTask
  <2> HIDE DEF x, h, g, e, t
  <2>3. x \in [task : [state : {e.state}, msg : {g}, history : {h}, artifacts : {t.artifacts}],
               some : {TRUE}, ok : {v.ok}]
    BY <2>1, <2>2
  <2>4. QED
    BY <2>3
<1>3. IsTask(u)
  BY DEF IsTask
<1>4. IsView(y) /\ y.task = u /\ y.some = TRUE /\ y.ok = v.ok
  BY <1>3 DEF IsView
<1>5. u.state = e.state /\ u.artifacts = t.artifacts /\ u.history = h
  OBVIOUS
<1> HIDE DEF x, y, u
<1>6. QED
  BY <1>1, <1>2, <1>4, <1>5

\* A chunk is added to the artifacts.
LEMMA ViewOfArtifact ==
  ASSUME NEW v, IsView(v), NEW m, events[m.i].kind = "artifact"
  PROVE  LET x == ClientReceives(v, m) e == events[m.i] IN
         /\ IsView(x) /\ x.some = TRUE /\ x.ok = v.ok
         /\ x.task.state = v.task.state /\ x.task.history = v.task.history
         /\ x.task.artifacts = ClientChunk(v.task.artifacts, e.id, e.append, m.parts)
<1> DEFINE e == events[m.i]
           t == v.task
           a == ClientChunk(t.artifacts, e.id, e.append, m.parts)
           x == [v EXCEPT !.some = TRUE,
                          !.task.artifacts = ClientChunk(@, e.id, e.append, m.parts)]
           u == [state |-> t.state, msg |-> t.msg, history |-> t.history, artifacts |-> a]
           y == [task |-> u, some |-> TRUE, ok |-> v.ok]
<1>1. ClientReceives(v, m) = x
  BY DEF ClientReceives
<1>2. x = [v EXCEPT !.some = TRUE, !.task.artifacts = a]
  OBVIOUS
<1> HIDE DEF x, a
<1>3. x = y
  BY <1>2 DEF IsView, IsTask
<1>4. IsTask(u)
  BY DEF IsTask
<1>5. IsView(y) /\ y.task = u /\ y.some = TRUE /\ y.ok = v.ok
  BY <1>4 DEF IsView
<1>6. u.state = t.state /\ u.artifacts = a /\ u.history = t.history
  OBVIOUS
<1> HIDE DEF y, u
<1>7. QED
  BY <1>1, <1>3, <1>5, <1>6 DEF a

\* What the client is sent.
Wires == [i : Nat, parts : Seq(0..MaxEvents), task : TaskValues]

\* How many events the reader has passed on.
Passed(at, i) == IF at \in {"ready", "done"} THEN i ELSE i - 1

\* The client is sent the events in their order, and as the agent made them.
AsMade(s) ==
  \A k \in 1..Len(s) : /\ events[k].kind = "artifact" => s[k].parts = <<k>>
                       /\ events[k].kind = "task" => s[k].task = First(k)
SentInv ==
  /\ sent \in Seq(Wires) /\ Len(sent) <= hand["main"]
  /\ online /\ pc["main"] \notin Gone => Len(sent) = Passed(pc["main"], hand["main"])
  /\ \A k \in 1..Len(sent) : sent[k].i = k /\ events[k].kind # "foreign"
  /\ from = 0 => AsMade(sent)

\* Nothing is sent before the first event.
LEMMA SentInit == TaskInit => SentInv
<1> SUFFICES ASSUME TaskInit PROVE SentInv
  OBVIOUS
<1>1. sent = <<>> /\ hand["main"] = 0 /\ pc["main"] = "ready"
  BY DEF TaskInit, View
<1>2. <<>> \in Seq(Wires) /\ Len(<<>>) = 0
  OBVIOUS
<1>3. QED
  BY <1>1, <1>2 DEF SentInv, AsMade, Passed

\* A step that sends nothing.
LEMMA SentQuiet ==
  ASSUME Queued, SentInv, UNCHANGED sent, from' = 0 => from = 0,
         \A i \in 1..Len(events) : events'[i] = events[i],
         hand["main"] <= hand'["main"], hand'["main"] \in Nat,
         online' /\ pc'["main"] \notin Gone =>
           /\ online /\ pc["main"] \notin Gone
           /\ Passed(pc'["main"], hand'["main"]) = Passed(pc["main"], hand["main"])
  PROVE  SentInv'
<1>1. hand["main"] \in Nat /\ hand["main"] <= Len(events) /\ Len(events) \in Nat
  BY EventsAre DEF Queued, TaskTypes, HandsHold, View
<1>2. Len(sent) \in Nat /\ Len(sent) <= hand["main"]
  BY LenProperties DEF SentInv
<1>3. \A k \in 1..Len(sent) : events'[k] = events[k]
  BY <1>1, <1>2
<1>4. Len(sent) <= hand'["main"]
  BY <1>1, <1>2
<1>5. AsMade(sent) => AsMade(sent)'
  BY <1>3 DEF AsMade, First
<1>6. (\A k \in 1..Len(sent) : sent[k].i = k /\ events[k].kind # "foreign")'
  BY <1>3 DEF SentInv
<1>7. (online /\ pc["main"] \notin Gone => Len(sent) = Passed(pc["main"], hand["main"]))'
  BY DEF SentInv, Passed, Gone
<1>8. (from = 0 => AsMade(sent))'
  BY <1>5 DEF SentInv
<1>9. QED
  BY <1>4, <1>6, <1>7, <1>8 DEF SentInv

\* What goes to the client for the event in hand.
LEMMA WireIs ==
  ASSUME Queued, LedgerInv, pc["main"] = "yielding"
  PROVE  LET i == hand["main"] m == OnTheWire(i) IN
         /\ i \in 1..Len(events) /\ events[i].kind # "foreign" /\ m \in Wires /\ m.i = i
         /\ from = 0 => /\ events[i].kind = "artifact" => m.parts = <<i>>
                        /\ events[i].kind = "task" => m.task = First(i)
<1> DEFINE i == hand["main"]
           ps == IF events[i].kind = "artifact" THEN parts[i] ELSE <<>>
           t == IF events[i].kind = "task" THEN Copy(heap[i], parts) ELSE Asked
           m == OnTheWire(i)
<1>1. /\ i \in 1..Len(events) /\ i \in 1..MaxEvents /\ events[i].kind # "foreign"
      /\ events[i] \in TaskEvents
  BY HandIs DEF InHand, View
<1>2. i \in Obj /\ heap \in [Obj -> TaskValues] /\ parts \in PartsType /\ World \in Worlds
  BY <1>1, ObjIs, WorldFields DEF Queued, TaskTypes
<1>3. parts[i] \in Seq(0..MaxEvents)
  BY <1>1, <1>2 DEF PartsType
<1>4. ps \in Seq(0..MaxEvents)
  <2>1. <<>> \in Seq(0..MaxEvents)
    OBVIOUS
  <2>2. QED
    BY <1>3, <2>1
<1>5. t \in TaskValues
  <2>1. turn \in Turns
    BY DEF Queued, TaskTypes
  <2>2. QED
    BY <1>2, <2>1, AskedIn, CopyIn
<1>6. m = [i |-> i, parts |-> ps, task |-> t]
  BY DEF OnTheWire
<1>7. from = 0 => Kept(World, "yielding", i, cut, online)
  BY MainKept DEF Gone
<1>8. from = 0 /\ events[i].kind = "artifact" => ps = <<i>>
  BY <1>1, <1>7 DEF Kept, Untouched, World
<1>9. from = 0 /\ events[i].kind = "task" => t = First(i)
  <2>1. SUFFICES ASSUME from = 0, events[i].kind = "task" PROVE t = First(i)
    OBVIOUS
  <2>2. heap[i] = First(i)
    BY <1>7, <2>1 DEF Kept, Untouched, World
  <2>3. First(i) \in TaskValues
    BY <1>2, <2>2
  <2>4. Copied(<<>>, parts) = <<>>
    BY DEF Copied
  <2>5. Copy(First(i), parts) = First(i)
    BY <2>3, <2>4, CopyIs DEF First, TaskOf
  <2>6. QED
    BY <2>1, <2>2, <2>5
<1>10. i \in Nat
  BY <1>1
<1> HIDE DEF ps, t, m
<1>11. m \in Wires /\ m.i = i /\ m.parts = ps /\ m.task = t
  BY <1>4, <1>5, <1>6, <1>10 DEF Wires
<1>12. QED
  BY <1>1, <1>8, <1>9, <1>11 DEF m

\* The event in hand goes to the client that is still there.
LEMMA SentYield ==
  ASSUME Queued, LedgerInv, SentInv, NEW v \in View, Yield(v)
  PROVE  SentInv'
<1>1. /\ pc[v] = "yielding" /\ UNCHANGED <<events, from, hand, online>>
      /\ pc' = [pc EXCEPT ![v] = AfterEvent(v)] /\ pc \in [View -> Places]
      /\ sent' = IF v = "main" /\ online THEN Append(sent, OnTheWire(hand[v])) ELSE sent
  BY DEF Yield, agentVars, Queued, TaskTypes
<1>2. hand["main"] \in Nat /\ "main" \in View /\ AfterEvent(v) \in {"ready", "done"}
  BY DEF Queued, TaskTypes, View, AfterEvent
<1>3. CASE v # "main"
  <2>1. pc'["main"] = pc["main"] /\ UNCHANGED sent /\ hand["main"] <= hand'["main"]
    BY <1>1, <1>2, <1>3
  <2>2. QED
    BY <1>1, <1>2, <2>1, SentQuiet
<1>4. CASE v = "main" /\ ~online
  <2>1. UNCHANGED sent /\ hand["main"] <= hand'["main"]
    BY <1>1, <1>2, <1>4
  <2>2. QED
    BY <1>1, <1>2, <1>4, <2>1, SentQuiet DEF Gone
<1>5. CASE v = "main" /\ online
  <2> DEFINE i == hand["main"]
             m == OnTheWire(i)
  <2>1. /\ i \in 1..Len(events) /\ events[i].kind # "foreign" /\ m \in Wires /\ m.i = i
        /\ from = 0 => /\ events[i].kind = "artifact" => m.parts = <<i>>
                       /\ events[i].kind = "task" => m.task = First(i)
    BY <1>1, <1>5, WireIs
  <2>2. sent' = Append(sent, m) /\ pc'["main"] \in {"ready", "done"}
    BY <1>1, <1>2, <1>5
  <2>3. sent \in Seq(Wires) /\ Len(sent) = i - 1 /\ i \in Nat
    BY <1>1, <1>2, <1>5 DEF SentInv, Passed, Gone
  <2> HIDE DEF m, i
  <2>4. /\ sent' \in Seq(Wires) /\ Len(sent') = i /\ sent'[i] = m
        /\ \A k \in 1..Len(sent) : sent'[k] = sent[k]
    BY <2>1, <2>2, <2>3, AppendProperties
  <2>5. \A k \in 1..Len(sent') : k = i \/ k \in 1..Len(sent)
    BY <2>3, <2>4
  <2>6. (\A k \in 1..Len(sent) : sent[k].i = k /\ events[k].kind # "foreign")'
    BY <1>1, <2>1, <2>4, <2>5 DEF SentInv
  <2>7. from = 0 => AsMade(sent)'
    <3>1. SUFFICES ASSUME from = 0 PROVE AsMade(sent)'
      OBVIOUS
    <3>2. \A k \in 1..Len(sent) : /\ events[k].kind = "artifact" => sent[k].parts = <<k>>
                                  /\ events[k].kind = "task" => sent[k].task = First(k)
      BY <3>1 DEF SentInv, AsMade
    <3>3. ASSUME NEW k \in 1..Len(sent')
          PROVE  /\ events[k].kind = "artifact" => sent'[k].parts = <<k>>
                 /\ events[k].kind = "task" => sent'[k].task = First(k)
      BY <2>1, <2>4, <2>5, <3>1, <3>2
    <3>4. QED
      BY <1>1, <3>3 DEF AsMade, First
  <2>8. /\ (online /\ pc["main"] \notin Gone => Len(sent) = Passed(pc["main"], hand["main"]))'
        /\ Len(sent') <= hand'["main"]
    BY <1>1, <2>2, <2>3, <2>4 DEF Passed, i
  <2>9. QED
    BY <1>1, <2>4, <2>6, <2>7, <2>8 DEF SentInv
<1>6. QED
  BY <1>3, <1>4, <1>5

\* Every step keeps what the client was sent.
LEMMA SentStep ==
  ASSUME Queued, LedgerInv, SentInv, [TaskNext]_taskVars
  PROVE  SentInv'
<1>1. /\ hand \in [View -> Nat] /\ pc \in [View -> Places] /\ "main" \in View /\ "tap" \in View
      /\ \A i \in Nat : i <= i
  BY DEF Queued, TaskTypes, View
<1>2. ASSUME NEW v \in View, Takes(v),
             UNCHANGED <<sent, events, from, online>>,
             pc' = [pc EXCEPT ![v] = pc'[v]], pc'[v] \notin {"ready", "done"},
             pc[v] = "ready" \/ pc'[v] \in Gone
      PROVE  SentInv'
  <2>1. hand' = [hand EXCEPT ![v] = hand[v] + 1]
    BY <1>2, TakesIs
  <2>2. hand'["main"] \in Nat /\ hand["main"] <= hand'["main"]
    BY <1>1, <2>1
  <2>3. pc'["main"] \notin Gone =>
          /\ pc["main"] \notin Gone
          /\ Passed(pc'["main"], hand'["main"]) = Passed(pc["main"], hand["main"])
    BY <1>1, <1>2, <2>1 DEF Passed, Gone
  <2>4. QED
    BY <1>2, <2>2, <2>3, SentQuiet
<1>3. ASSUME UNCHANGED <<sent, events, from, hand, online>>, NEW v \in View, pc[v] \in InHand,
             pc' = [pc EXCEPT ![v] = pc'[v]], pc'[v] \in InHand
      PROVE  SentInv'
  <2>1. /\ Passed(pc'["main"], hand'["main"]) = Passed(pc["main"], hand["main"])
        /\ pc'["main"] \notin Gone => pc["main"] \notin Gone
    BY <1>1, <1>3 DEF Passed, InHand, Gone
  <2>2. QED
    BY <1>1, <1>3, <2>1, SentQuiet
<1>4. ASSUME NEW v \in View, ReaderStep(v) PROVE SentInv'
  <2>1. CASE TakeForeign(v)
    <3>1. /\ Takes(v) /\ UNCHANGED <<sent, events, from, online>>
          /\ \E place \in Gone : pc' = [pc EXCEPT ![v] = place]
      BY <2>1 DEF TakeForeign, agentVars, Gone
    <3>2. pc' = [pc EXCEPT ![v] = pc'[v]] /\ pc'[v] \in Gone /\ pc'[v] \notin {"ready", "done"}
      BY <1>1, <3>1 DEF Gone
    <3>3. QED
      BY <1>2, <3>1, <3>2
  <2>2. CASE TakeInMemory(v)
    <3>1. /\ Takes(v) /\ UNCHANGED <<sent, events, from, online>>
          /\ pc' = [pc EXCEPT ![v] = "yielding"] /\ pc[v] = "ready"
      BY <2>2 DEF TakeInMemory, agentVars
    <3>2. QED
      BY <1>1, <1>2, <3>1
  <2>3. CASE TakeToDatabase(v)
    <3>1. /\ Takes(v) /\ UNCHANGED <<sent, events, from, online>>
          /\ pc' = [pc EXCEPT ![v] = "saving"] \/ pc' = [pc EXCEPT ![v] = "loading"]
          /\ pc[v] = "ready"
      BY <2>3 DEF TakeToDatabase, agentVars
    <3>2. QED
      BY <1>1, <1>2, <3>1
  <2>4. CASE Load(v)
    <3>1. /\ UNCHANGED <<sent, events, from, hand, online>> /\ pc[v] = "loading"
          /\ pc' = [pc EXCEPT ![v] = "saving"] \/ pc' = [pc EXCEPT ![v] = "creating"]
      BY <2>4 DEF Load, agentVars
    <3>2. QED
      BY <1>1, <1>3, <3>1 DEF InHand
  <2>5. CASE Create(v)
    <3>1. /\ UNCHANGED <<sent, events, from, hand, online>> /\ pc[v] = "creating"
          /\ pc' = [pc EXCEPT ![v] = "saving"]
      BY <2>5 DEF Create, agentVars
    <3>2. QED
      BY <1>1, <1>3, <3>1 DEF InHand
  <2>6. CASE Save(v)
    <3>1. /\ UNCHANGED <<sent, events, from, hand, online>> /\ pc[v] = "saving"
          /\ pc' = [pc EXCEPT ![v] = "yielding"]
      BY <2>6 DEF Save, agentVars
    <3>2. QED
      BY <1>1, <1>3, <3>1 DEF InHand
  <2>7. CASE Yield(v)
    BY <2>7, SentYield
  <2>8. QED
    BY <1>4, <2>1, <2>2, <2>3, <2>4, <2>5, <2>6, <2>7 DEF ReaderStep
<1>5. CASE AgentStep
  <2>1. /\ UNCHANGED <<pc, from, hand, online, sent, cur, shelf, parts>>
        /\ \/ UNCHANGED <<events, recordVars>>
           \/ Len(events) < MaxEvents /\ \E e \in TaskEvents : Enqueue(e)
    BY <1>5, AgentPuts
  <2>2. \A i \in 1..Len(events) : events'[i] = events[i]
    BY <2>1, EnqueueIs
  <2>3. QED
    BY <1>1, <2>1, <2>2, SentQuiet
<1>6. CASE Resubscribe
  <2>1. /\ UNCHANGED <<events, online, sent>> /\ from' = Len(events) + 1
        /\ pc' = [pc EXCEPT !["tap"] = "ready"] /\ hand' = [hand EXCEPT !["tap"] = Len(events)]
    BY <1>6 DEF Resubscribe, agentVars
  <2>2. from' # 0
    BY <2>1, EventsAre DEF Queued
  <2>3. hand'["main"] = hand["main"] /\ pc'["main"] = pc["main"]
    BY <1>1, <2>1
  <2>4. QED
    BY <1>1, <2>1, <2>2, <2>3, SentQuiet
<1>7. CASE TapEnds
  <2>1. /\ UNCHANGED <<events, from, hand, online, sent>> /\ pc' = [pc EXCEPT !["tap"] = "done"]
    BY <1>7 DEF TapEnds, agentVars
  <2>2. pc'["main"] = pc["main"]
    BY <1>1, <2>1
  <2>3. QED
    BY <1>1, <2>1, <2>2, SentQuiet
<1>8. CASE Disconnect
  <2>1. UNCHANGED <<events, from, hand, sent>> /\ ~online'
    BY <1>8 DEF Disconnect, agentVars
  <2>2. QED
    BY <1>1, <2>1, SentQuiet
<1>9. CASE UNCHANGED taskVars
  <2>1. UNCHANGED <<events, from, hand, pc, online, sent>>
    BY <1>9 DEF taskVars, agentVars
  <2>2. QED
    BY <1>1, <2>1, SentQuiet
<1>10. QED
  BY <1>4, <1>5, <1>6, <1>7, <1>8, <1>9 DEF TaskNext

\* The events among the first n that bring a status message.
Said(n) == {i \in 1..n : events[i].kind = "status" /\ events[i].msg}

\* What the view v says after n messages.
Says(v, n) ==
  /\ IsView(v) /\ v.ok \in BOOLEAN /\ v.some = (n # 0)
  /\ v.ok => Tasks(n, {}) \subseteq {1}
  /\ v.ok /\ (from = 0 \/ Tasks(n, {}) = {}) =>
       \E before \in {<<>>, <<UserMessage>>} : v.task.history = before \o InOrder(Said(n), n)
  /\ v.ok /\ from = 0 =>
       /\ v.task.state = IF Spoken(n, {}) = {} THEN "unknown" ELSE Log(n, {}).state
       /\ v.task.artifacts = LogArtifacts(n, {}, <<>>)

\* One more event brings its own message at most.
LEMMA SaidNext ==
  ASSUME NEW n \in Nat
  PROVE  InOrder(Said(n + 1), n + 1) =
           IF events[n + 1].kind = "status" /\ events[n + 1].msg
             THEN Append(InOrder(Said(n), n), n + 1) ELSE InOrder(Said(n), n)
<1>1. SameUpTo(Said(n + 1), Said(n), n)
  BY DEF SameUpTo, Said
<1>2. InOrder(Said(n + 1), n) = InOrder(Said(n), n)
  BY <1>1, InOrderSame
<1>3. n + 1 \in Said(n + 1) <=> events[n + 1].kind = "status" /\ events[n + 1].msg
  BY DEF Said
<1>4. QED
  BY <1>2, <1>3, InOrderNext

\* Nothing was received yet.
LEMMA SaysNothing == Says(NoView, 0)
<1>1. IsView(NoView)
  BY DEF IsView, IsTask, NoView, TaskOf
<1>2. /\ NoView.ok = TRUE /\ NoView.some = FALSE /\ NoView.task.history = <<>>
      /\ NoView.task.state = "unknown" /\ NoView.task.artifacts = <<>>
  BY DEF NoView, TaskOf
<1>3. 0 \in Nat /\ 1..0 = {}
  OBVIOUS
<1>4. Tasks(0, {}) = {} /\ Counts(0, {}) = {} /\ Spoken(0, {}) = {}
  BY <1>3 DEF Tasks, Counts, Spoken
<1>5. LogArtifacts(0, {}, <<>>) = <<>>
  <2>1. OldOK(<<>>)
    BY DEF OldOK
  <2>2. LogArtifacts(0, {}, <<>>) = [k \in DOMAIN <<>> |-> ArtifactOf(<<>>[k], 0, <<Earlier>>)]
    BY <1>3, <1>4, <2>1, LogArtifactsNone
  <2>3. DOMAIN <<>> = {} /\ \A f : [k \in {} |-> f[k]] = <<>>
    OBVIOUS
  <2>4. QED
    BY <2>2, <2>3
<1>6. InOrder(Said(0), 0) = <<>> /\ <<>> \o <<>> = <<>>
  BY InOrderNone
<1>7. NoView.task.history = <<>> \o InOrder(Said(0), 0)
  BY <1>2, <1>6
<1>8. QED
  BY <1>1, <1>2, <1>4, <1>5, <1>7 DEF Says

\* The first Task.
LEMMA SaysTask ==
  ASSUME NEW v, NEW n \in Nat, Says(v, n), NEW m, m.i = n + 1, IsTask(m.task),
         events[n + 1].kind = "task", from = 0 => m.task = First(n + 1)
  PROVE  Says(ClientReceives(v, m), n + 1)
<1> DEFINE x == ClientReceives(v, m)
<1>1. IsView(v) /\ v.ok \in BOOLEAN /\ v.some = (n # 0)
  BY DEF Says
<1>2. /\ IsView(x) /\ x.some = TRUE /\ (x.ok <=> v.ok /\ ~v.some)
      /\ ~v.some => x.task = m.task
  <2>1. events[m.i].kind = "task" /\ IsTask(m.task)
    OBVIOUS
  <2> HIDE DEF x
  <2>2. QED
    BY <1>1, <2>1, ViewOfTask DEF x
<1>3. x.ok \in BOOLEAN
  BY <1>1 DEF ClientReceives
<1>4. x.ok => n = 0
  BY <1>1, <1>2
<1> HIDE DEF x
<1>5. n + 1 # 0 /\ n + 1 \notin {}
  OBVIOUS
<1>6. Tasks(n + 1, {}) # {} /\ Tasks(n + 1, {}) \subseteq 1..(n + 1)
  <2>1. Tasks(n + 1, {}) # {}
    BY <1>5, CountsAfresh
  <2>2. n + 1 \in Nat
    OBVIOUS
  <2>3. QED
    BY <2>1, <2>2, CountsIn
<1>7. x.ok => Tasks(n + 1, {}) \subseteq {1}
  BY <1>4, <1>6
<1>8. ASSUME x.ok, from = 0
      PROVE  /\ \E before \in {<<>>, <<UserMessage>>} :
                  x.task.history = before \o InOrder(Said(n + 1), n + 1)
             /\ x.task.state = Log(n + 1, {}).state /\ Spoken(n + 1, {}) # {}
             /\ x.task.artifacts = LogArtifacts(n + 1, {}, <<>>)
  <2>1. n = 0 /\ x.task = First(n + 1)
    BY <1>1, <1>2, <1>4, <1>8
  <2>2. Log(n + 1, {}) = First(n + 1)
    BY <1>5, LogTask
  <2>3. Log(n + 1, {}).artifacts = LogArtifacts(n + 1, {}, <<>>)
    BY <1>6, LogIs DEF Old
  <2>10. n + 1 \in Spoken(n + 1, {})
    <3>1. Counts(n + 1, {}) = {n + 1}
      BY <1>5, CountsAfresh
    <3>2. QED
      BY <3>1 DEF Spoken
  <2>4. InOrder(Said(n + 1), n + 1) = InOrder(Said(n), n)
    BY SaidNext
  <2>5. InOrder(Said(n), n) = <<>>
    BY <2>1, InOrderNone
  <2>6. <<UserMessage>> \o <<>> = <<UserMessage>>
    OBVIOUS
  <2>7. x.task.history = <<UserMessage>>
    BY <2>1 DEF First, TaskOf
  <2>8. x.task.history = <<UserMessage>> \o InOrder(Said(n + 1), n + 1)
    BY <2>4, <2>5, <2>6, <2>7
  <2>9. QED
    BY <2>1, <2>2, <2>3, <2>8, <2>10
<1>9. QED
  BY <1>2, <1>3, <1>5, <1>6, <1>7, <1>8 DEF Says, x

\* A status leaves the artifacts alone.
LEMMA StatusLeaves ==
  ASSUME NEW n \in Nat, NEW D, n + 1 \notin D, events[n + 1].kind = "status"
  PROVE  \A old : LogArtifacts(n + 1, D, old) = LogArtifacts(n, D, old)
<1>1. Counts(n + 1, D) = Counts(n, D) \union {n + 1}
  BY CountsNext
<1>2. \A id : Chunks(n + 1, D, id) = Chunks(n, D, id)
  BY <1>1 DEF Chunks
<1>3. \A id : Firsts(n + 1, D, id) = Firsts(n, D, id) /\ Content(n + 1, D, id) = Content(n, D, id)
  BY <1>2 DEF Firsts, Content
<1>4. \A old : Openings(n + 1, D, old) = Openings(n, D, old)
  BY <1>1, <1>3 DEF Openings
<1>5. QED
  BY <1>3, <1>4, LogArtifactsSame

\* A status, with its message or without.
LEMMA SaysStatus ==
  ASSUME NEW v, NEW n \in Nat, Says(v, n), NEW m, m.i = n + 1, events[n + 1].kind = "status"
  PROVE  Says(ClientReceives(v, m), n + 1)
<1> DEFINE x == ClientReceives(v, m)
           e == events[n + 1]
<1>1. IsView(v) /\ v.ok \in BOOLEAN
  BY DEF Says
<1>2. /\ IsView(x) /\ x.some = TRUE /\ x.ok = v.ok
      /\ x.task.state = e.state /\ x.task.artifacts = v.task.artifacts
      /\ x.task.history = IF e.msg THEN Append(v.task.history, n + 1) ELSE v.task.history
  <2>1. events[m.i].kind = "status" /\ events[m.i] = e /\ m.i = n + 1
    OBVIOUS
  <2>2. /\ IsView(x) /\ x.some = TRUE /\ x.ok = v.ok
        /\ x.task.state = events[m.i].state /\ x.task.artifacts = v.task.artifacts
        /\ x.task.history = IF events[m.i].msg THEN Append(v.task.history, m.i)
                                              ELSE v.task.history
    <3> HIDE DEF e
    <3>1. QED
      BY <1>1, <2>1, ViewOfStatus, ZenonT(60)
  <2> HIDE DEF x, e
  <2>3. QED
    BY <2>1, <2>2
<1>3. n + 1 # 0 /\ n + 1 \notin {} /\ e.kind # "task"
  OBVIOUS
<1>4. Tasks(n + 1, {}) = Tasks(n, {})
  BY <1>3, CountsNext
<1>5. /\ Log(n + 1, {}).state = e.state /\ Spoken(n + 1, {}) # {}
      /\ LogArtifacts(n + 1, {}, <<>>) = LogArtifacts(n, {}, <<>>)
  <2> DEFINE t == Log(n, {})
  <2>1. Log(n + 1, {}) = WithStatus(t, n + 1)
    BY <1>3, LogStatus
  <2>2. t = [state |-> t.state, msg |-> t.msg, history |-> t.history, artifacts |-> t.artifacts]
    BY LogIs
  <2> HIDE DEF t
  <2>3. WithStatus(t, n + 1).state = e.state
    BY <2>2 DEF WithStatus
  <2>4. n + 1 \in Spoken(n + 1, {})
    BY <1>3, CountsNext DEF Spoken
  <2>5. LogArtifacts(n + 1, {}, <<>>) = LogArtifacts(n, {}, <<>>)
    BY <1>3, StatusLeaves
  <2>6. QED
    BY <2>1, <2>3, <2>4, <2>5
<1> HIDE DEF x
<1>6. ASSUME NEW before \in {<<>>, <<UserMessage>>},
             v.task.history = before \o InOrder(Said(n), n)
      PROVE  x.task.history = before \o InOrder(Said(n + 1), n + 1)
  <2>1. InOrder(Said(n), n) \in Seq(Int)
    <3>1. InOrder(Said(n), n) \in Seq(Nat)
      BY InOrderRises
    <3>2. QED
      BY <3>1
  <2>2. before \in Seq(Int)
    <3>1. <<>> \in Seq(Int) /\ <<UserMessage>> \in Seq(Int)
      BY DEF UserMessage
    <3>2. QED
      BY <3>1
  <2>3. before \o Append(InOrder(Said(n), n), n + 1) = Append(before \o InOrder(Said(n), n), n + 1)
    <3>1. n + 1 \in Int
      OBVIOUS
    <3>2. QED
      BY <2>1, <2>2, <3>1, ConcatAppend, SMTT(30)
  <2>4. InOrder(Said(n + 1), n + 1) =
          IF e.msg THEN Append(InOrder(Said(n), n), n + 1) ELSE InOrder(Said(n), n)
    BY SaidNext
  <2>5. QED
    BY <1>2, <1>6, <2>3, <2>4
<1>7. v.ok /\ (from = 0 \/ Tasks(n, {}) = {}) =>
        \E before \in {<<>>, <<UserMessage>>} : v.task.history = before \o InOrder(Said(n), n)
  BY DEF Says
<1>8. v.ok /\ from = 0 => v.task.artifacts = LogArtifacts(n, {}, <<>>)
  BY DEF Says
<1>9. v.ok => Tasks(n, {}) \subseteq {1}
  BY DEF Says
<1> HIDE DEF e
<1>10. QED
  BY <1>1, <1>2, <1>3, <1>4, <1>5, <1>6, <1>7, <1>8, <1>9 DEF Says, x

\* A chunk of an artifact.
LEMMA SaysArtifact ==
  ASSUME NEW v, NEW n \in Nat, Says(v, n), Heard(n + 1), NEW m, m.i = n + 1,
         events[n + 1].kind = "artifact", from = 0 => m.parts = <<n + 1>>
  PROVE  Says(ClientReceives(v, m), n + 1)
<1> DEFINE x == ClientReceives(v, m)
           e == events[n + 1]
<1>1. IsView(v) /\ v.ok \in BOOLEAN
  BY DEF Says
<1>2. /\ IsView(x) /\ x.some = TRUE /\ x.ok = v.ok
      /\ x.task.state = v.task.state /\ x.task.history = v.task.history
      /\ x.task.artifacts = ClientChunk(v.task.artifacts, e.id, e.append, m.parts)
  BY <1>1, ViewOfArtifact
<1>3. n + 1 # 0 /\ n + 1 \notin {} /\ e.kind # "task" /\ e.kind # "status" /\ n + 1 \in 1..(n + 1)
  OBVIOUS
<1>4. Tasks(n + 1, {}) = Tasks(n, {})
  BY <1>3, CountsNext
<1>5. InOrder(Said(n + 1), n + 1) = InOrder(Said(n), n)
  BY <1>3, SaidNext
<1>6. Log(n + 1, {}).state = Log(n, {}).state /\ Spoken(n + 1, {}) = Spoken(n, {})
  <2> DEFINE L == Log(n, {})
  <2>1. L = Log(n, {})
    OBVIOUS
  <2> HIDE DEF L
  <2>2. Log(n + 1, {}) = [state |-> L.state, msg |-> L.msg, history |-> L.history,
                          artifacts |-> LogArtifacts(n + 1, {}, Old(n, {}))]
    BY <1>3, <2>1, LogArtifact
  <2>3. Spoken(n + 1, {}) = Spoken(n, {})
    BY <1>3, CountsNext DEF Spoken
  <2>4. QED
    BY <2>1, <2>2, <2>3
<1>7. ASSUME v.task.artifacts = LogArtifacts(n, {}, <<>>), from = 0
      PROVE  x.task.artifacts = LogArtifacts(n + 1, {}, <<>>)
  <2> DEFINE A == LogArtifacts(n, {}, <<>>)
             C == ClientChunk(A, e.id, e.append, <<n + 1>>)
  <2>1. e \in TaskEvents
    BY <1>3 DEF Heard
  <2>2. e.append \in BOOLEAN
    BY <2>1, ArtifactEventIs
  <2>3. Heard(n)
    BY DEF Heard
  <2>11. OldOK(<<>>)
    BY <2>3, OldIs DEF Heard
  <2>4. A \in Seq(Values)
    BY <2>3, <2>11, LogArtifactsAre
  <2>5. <<n + 1>> \in Seq(Nat)
    OBVIOUS
  <2>6. x.task.artifacts = C
    BY <1>2, <1>7
  <2> HIDE DEF A
  <2>7. Chunked(A, C, e.id, e.append, <<n + 1>>)
    BY <2>2, <2>4, <2>5, ChunkIs
  <2>8. Chunked(A, LogArtifacts(n + 1, {}, <<>>), e.id, e.append, <<n + 1>>)
    BY <1>3, <2>11, LogChunk DEF A
  <2> HIDE DEF C
  <2>9. C = LogArtifacts(n + 1, {}, <<>>)
    BY <2>4, <2>7, <2>8, ChunkOnce
  <2>10. QED
    BY <2>6, <2>9
<1>8. v.ok /\ (from = 0 \/ Tasks(n, {}) = {}) =>
        \E before \in {<<>>, <<UserMessage>>} : v.task.history = before \o InOrder(Said(n), n)
  BY DEF Says
<1>9. v.ok /\ from = 0 =>
        /\ v.task.state = IF Spoken(n, {}) = {} THEN "unknown" ELSE Log(n, {}).state
        /\ v.task.artifacts = LogArtifacts(n, {}, <<>>)
  BY DEF Says
<1>10. v.ok => Tasks(n, {}) \subseteq {1}
  BY DEF Says
<1> HIDE DEF x, e
<1>11. QED
  BY <1>2, <1>3, <1>4, <1>5, <1>6, <1>7, <1>8, <1>9, <1>10, <1>1 DEF Says, x

\* The view after each message says what the events up to it do.
LEMMA SaysNext ==
  ASSUME Queued, SentInv, NEW f, Receives(Len(sent), f), NEW n \in Nat, n + 1 <= Len(sent),
         Says(f[n], n)
  PROVE  Says(f[n + 1], n + 1)
<1> DEFINE m == sent[n + 1]
<1>1. Len(sent) \in Nat /\ sent \in Seq(Wires) /\ Len(sent) <= hand["main"]
  BY LenProperties DEF SentInv
<1>2. n + 1 \in 1..Len(sent)
  BY <1>1
<1>3. m \in Wires /\ m.task \in TaskValues
  <2>1. m \in Wires
    BY <1>1, <1>2, ElementOfSeq
  <2>2. QED
    BY <2>1 DEF Wires
<1>4. m.i = n + 1 /\ events[n + 1].kind # "foreign"
  BY <1>2 DEF SentInv
<1>5. from = 0 => /\ events[n + 1].kind = "artifact" => m.parts = <<n + 1>>
                  /\ events[n + 1].kind = "task" => m.task = First(n + 1)
  BY <1>2 DEF SentInv, AsMade
<1>6. IsTask(m.task)
  BY <1>3 DEF IsTask, TaskValues
<1>7. n + 1 \in 1..Len(events) /\ n + 1 \in Nat /\ n + 1 <= Len(events)
  <2>1. hand["main"] \in Nat /\ hand["main"] <= Len(events) /\ Len(events) \in Nat
    BY EventsAre DEF Queued, TaskTypes, HandsHold, View
  <2>2. QED
    BY <1>1, <2>1
<1>8. events[n + 1] \in TaskEvents /\ Heard(n + 1)
  BY <1>7, InQueue, HeardAll
<1>9. f[n + 1] = ClientReceives(f[n], m)
  <2>1. f[n + 1] = ClientReceives(f[n + 1 - 1], sent[n + 1])
    BY <1>2 DEF Receives
  <2>2. n + 1 - 1 = n
    OBVIOUS
  <2>3. QED
    BY <2>1, <2>2
<1>10. events[n + 1].kind \in {"task", "status", "artifact"}
  BY <1>4, <1>8 DEF TaskEvents, StatusEvents, ArtifactEvents, OtherEvents
<1> HIDE DEF m
<1>11. CASE events[n + 1].kind = "task"
  BY <1>4, <1>5, <1>6, <1>9, <1>11, SaysTask
<1>12. CASE events[n + 1].kind = "status"
  BY <1>4, <1>9, <1>12, SaysStatus
<1>13. CASE events[n + 1].kind = "artifact"
  BY <1>4, <1>5, <1>8, <1>9, <1>13, SaysArtifact
<1>14. QED
  BY <1>10, <1>11, <1>12, <1>13

\* So does the last one: the first view that did not would follow one that did.
LEMMA ClientSays ==
  ASSUME Queued, SentInv
  PROVE  Says(ClientView, Len(sent)) /\ Len(sent) \in Nat
<1>1. Len(sent) \in Nat
  BY LenProperties DEF SentInv
<1>2. PICK f : ClientView = f[Len(sent)] /\ Receives(Len(sent), f)
  BY <1>1, ViewIs
<1> DEFINE Bad == {k \in Nat : k <= Len(sent) /\ ~Says(f[k], k)}
<1>3. SUFFICES ASSUME Bad # {} PROVE FALSE
  <2>1. CASE Bad = {}
    <3>1. Len(sent) \notin Bad
      BY <2>1
    <3>2. Len(sent) <= Len(sent)
      BY <1>1
    <3>3. QED
      BY <1>1, <1>2, <3>1, <3>2
  <2>2. QED
    BY <1>3, <2>1
<1>4. PICK k \in Bad : \A j \in Bad : k <= j
  <2>1. Bad \in SUBSET Nat
    OBVIOUS
  <2> HIDE DEF Bad
  <2>2. QED
    BY <1>3, <2>1, LeastNat
<1>5. k \in Nat /\ k <= Len(sent) /\ ~Says(f[k], k)
  BY <1>4
<1>6. k # 0
  <2>1. f[0] = NoView
    BY <1>2 DEF Receives
  <2>2. QED
    BY <1>5, <2>1, SaysNothing
<1> DEFINE n == k - 1
<1>7. n \in Nat /\ n <= Len(sent) /\ n + 1 = k /\ ~(k <= n)
  BY <1>1, <1>5, <1>6
<1>8. Says(f[n], n)
  BY <1>4, <1>7
<1> HIDE DEF n, Bad
<1>9. Says(f[n + 1], n + 1)
  BY <1>2, <1>5, <1>7, <1>8, SaysNext
<1>10. QED
  BY <1>5, <1>7, <1>9

\* The ledger and what was sent hold in every state of the specification.
LEMMA SentHolds == TaskSpec => [](LedgerHolds /\ SentInv)
<1>1. TaskInit => LedgerHolds /\ SentInv
  BY LedgerHoldsInit, SentInit
<1>2. LedgerHolds /\ SentInv /\ [TaskNext]_taskVars => (LedgerHolds /\ SentInv)'
  <2>1. SUFFICES ASSUME LedgerHolds, SentInv, [TaskNext]_taskVars
                 PROVE  LedgerHolds' /\ SentInv'
    OBVIOUS
  <2>2. LedgerHolds'
    BY <2>1, LedgerHoldsNext
  <2>3. Queued /\ LedgerInv
    BY <2>1 DEF LedgerHolds, Queued
  <2>4. SentInv'
    BY <2>1, <2>3, SentStep
  <2>5. QED
    BY <2>2, <2>4
<1>3. QED
  BY <1>1, <1>2, PTL DEF TaskSpec

\* The artifacts begun this turn are the same with what earlier turns left and
\* without.
LEMMA BegunThisTurn ==
  ASSUME NEW n \in Nat, NEW old, OldOK(old), Heard(n)
  PROVE  Range(LogArtifacts(n, {}, <<>>)) =
           {a \in Range(LogArtifacts(n, {}, old)) : Firsts(n, {}, a.id) # {}}
<1> DEFINE R(o) == Range(LogArtifacts(n, {}, o))
<1>1. OldOK(<<>>) /\ \A id : ~Held(<<>>, id)
  BY OldIs DEF Heard, Held
<1>2. ASSUME NEW o, OldOK(o)
      PROVE  \A a : a \in R(o) <=> \E id : /\ Held(o, id) \/ Firsts(n, {}, id) # {}
                                          /\ a = ArtifactOf(id, 0, Text(n, {}, o, id))
  <2> DEFINE A == LogArtifacts(n, {}, o)
             ids == Ids(n, {}, o)
  <2>1. /\ DOMAIN A = 1..Len(ids)
        /\ \A k \in 1..Len(ids) : A[k] = ArtifactOf(ids[k], 0, Text(n, {}, o, ids[k]))
    BY <1>2, LogArtifactsAre, LenProperties
  <2>2. \A id : (\E k \in 1..Len(ids) : ids[k] = id) <=> Held(o, id) \/ Firsts(n, {}, id) # {}
    BY <1>2, IdsAre
  <2>3. \A a : a \in R(o) <=> \E k \in 1..Len(ids) : A[k] = a
    BY <2>1 DEF Range
  <2> HIDE DEF A, ids, R
  <2>4. QED
    BY <2>1, <2>2, <2>3
<1>3. \A id : Firsts(n, {}, id) # {} => Text(n, {}, old, id) = Text(n, {}, <<>>, id)
  BY DEF Text
<1>4. \A id, o : ArtifactOf(id, 0, Text(n, {}, o, id)).id = id
  BY ArtifactFields
<1>5. \A a : a \in R(<<>>) <=> a \in R(old) /\ Firsts(n, {}, a.id) # {}
  <2> HIDE DEF R
  <2>1. QED
    BY <1>1, <1>2, <1>3, <1>4
<1>6. QED
  BY <1>5

\* While one manager reads the queue, the task that the client puts together by
\* itself has the state of the stored one, once an event told it one, and exactly
\* the artifacts that were begun this turn, with the same parts.
THEOREM ClientAlwaysAgrees == TaskSpec => []ClientAgrees
<1>1. LedgerHolds /\ SentInv => ClientAgrees
  <2> DEFINE n == Len(sent)
  <2>1. SUFFICES ASSUME LedgerHolds, SentInv, from = 0, ClientView.ok
                 PROVE  /\ ClientView.task.state =
                             IF Spoken(n, {}) = {} THEN "unknown" ELSE Log(n, {}).state
                        /\ Range(ClientView.task.artifacts) =
                             {a \in Range(Log(n, {}).artifacts) : Firsts(n, {}, a.id) # {}}
                        /\ turn.kept = <<>> => ClientView.task.artifacts = Log(n, {}).artifacts
    BY DEF ClientAgrees, OneManager
  <2>2. Queued
    BY <2>1 DEF LedgerHolds, Queued
  <2>3. Says(ClientView, n) /\ n \in Nat
    BY <2>1, <2>2, ClientSays
  <2>4. n <= Len(events)
    <3>1. n <= hand["main"] /\ hand["main"] \in Nat /\ hand["main"] <= Len(events)
      BY <2>1, <2>2 DEF SentInv, Queued, TaskTypes, HandsHold, View
    <3>2. Len(events) \in Nat
      BY <2>2, EventsAre DEF Queued
    <3>3. QED
      BY <2>3, <3>1, <3>2
  <2>5. Heard(n)
    BY <2>2, <2>3, <2>4, HeardAll
  <2>6. Log(n, {}).artifacts = LogArtifacts(n, {}, Old(n, {})) /\ OldOK(Old(n, {}))
    BY <2>5, LogIs, OldIs DEF Heard
  <2>7. turn.kept = <<>> => Old(n, {}) = <<>>
    BY DEF Old
  <2>8. /\ ClientView.task.state = IF Spoken(n, {}) = {} THEN "unknown" ELSE Log(n, {}).state
        /\ ClientView.task.artifacts = LogArtifacts(n, {}, <<>>)
    BY <2>1, <2>3 DEF Says
  <2> HIDE DEF n
  <2>9. Range(LogArtifacts(n, {}, <<>>)) =
          {a \in Range(LogArtifacts(n, {}, Old(n, {}))) : Firsts(n, {}, a.id) # {}}
    BY <2>3, <2>5, <2>6, BegunThisTurn
  <2>10. QED
    BY <2>6, <2>7, <2>8, <2>9
<1>2. QED
  BY <1>1, SentHolds, PTL

\* The client has each message of a status it was sent once and in order,
\* whoever else reads the queue.
THEOREM ClientAlwaysKeepsMessages == TaskSpec => []ClientKeepsMessages
<1>1. LedgerHolds /\ SentInv => ClientKeepsMessages
  <2> SUFFICES ASSUME LedgerHolds, SentInv PROVE ClientKeepsMessages
    OBVIOUS
  <2>1. Queued
    BY DEF LedgerHolds, Queued
  <2>2. Says(ClientView, Len(sent))
    BY <2>1, ClientSays
  <2>3. QED
    BY <2>2 DEF ClientKeepsMessages, OneManager, Says, Said
<1>2. QED
  BY <1>1, SentHolds, PTL
=============================================================================
