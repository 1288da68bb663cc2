---------------------------- MODULE KafkaProofs ----------------------------
(***************************************************************************)
(* What KafkaTransport guarantees for any number of calls, any mix of      *)
(* methods, streams of any length, any number of restarts and whichever    *)
(* failures are switched on.                                               *)
(***************************************************************************)
EXTENDS KafkaTransport, KafkaLifecycle, SequenceTheorems, TLAPS

-----------------------------------------------------------------------------
(* The registry.                                                           *)

\* What a future may hold: a reply, or the note that stop() cancelled it.
Answers == [call : Call, i : Nat \ {0}, what : Said \union {"cancelled"}]

\* The shape of the caller's side ...
ClientShape ==
  /\ method \in [Call -> Methods]
  /\ pc \in [Call -> {"idle", "sent", "waiting", "top", "enter", "get", "ended"}]
  /\ outcome \in [Call -> {"none", "result", "error", "timeout", "cancelled", "ended", "left"}]
  /\ heard \in [Call -> Seq(Nat \ {0})]
  /\ client \in {"up", "stopping", "down"}
  /\ pending \subseteq Call /\ streams \subseteq Call
  /\ future \in [Call -> Seq(Answers)]
  /\ items \in [Call -> Seq(Nat \ {0})]
  /\ ending \in [Call -> {"open", "complete", "failed", "cancelled"}]

\* ... of the topics and of the server.
ServerShape ==
  /\ replies \in Seq(Replies)
  /\ read \in 0..Len(replies)
  /\ requests \in Seq(Call)
  /\ position \in 0..Len(requests)
  /\ committed \in -1..position
  /\ server \in {"up", "down"} /\ serving \in Call \union {None}
  /\ progress \in 0..MaxEvents /\ restarts \in 0..MaxRestarts
  /\ said \in [Call -> Seq(Said)]

\* Streams are answered with events and an end, other calls with a result or
\* an error.
Fitting(c) ==
  IF method[c] = "stream" THEN {"event", "complete", "error"} ELSE {"result", "error"}

\* Where a caller is tells what its call has: nothing before it is registered,
\* no outcome before it is over, and an answer of the kind it asked for.
CallerInv(c) ==
  /\ pc[c] \in {"idle", "sent"} => future[c] = <<>> /\ ending[c] = "open"
  /\ pc[c] # "ended" => outcome[c] = "none"
  /\ pc[c] = "waiting" => method[c] # "stream"
  /\ InLoop(c) => method[c] = "stream"
  /\ c \in pending => method[c] # "stream"
  /\ future[c] # <<>> => future[c][1].what \in {"result", "error", "cancelled"}

RepliesFit == \A i \in DOMAIN replies : replies[i].what \in Fitting(replies[i].call)

KafkaInv ==
  /\ ClientShape
  /\ ServerShape
  /\ RepliesFit
  /\ \A c \in Call : CallerInv(c)
  /\ RegistryExact

\* The empty sequence is a sequence of anything, and one with an entry is not
\* empty.
LEMMA Singles ==
  ASSUME NEW S
  PROVE  /\ <<>> \in Seq(S) /\ Len(<<>>) = 0
         /\ \A m \in S : <<m>> \in Seq(S) /\ <<m>> # <<>> /\ <<m>>[1] = m
<1>1. <<>> \in Seq(S) /\ Len(<<>>) = 0
  BY EmptySeq, Zenon
<1>2. ASSUME NEW m \in S PROVE <<m>> \in Seq(S) /\ <<m>> # <<>> /\ <<m>>[1] = m
  BY <1>2
<1>3. QED
  BY <1>1, <1>2

\* A call that is resolved has an answer: what it had, or the one it is given.
LEMMA ResolvedIs ==
  ASSUME ClientShape, NEW c \in Call, NEW m \in Answers
  PROVE  /\ Resolved(c, m) \in [Call -> Seq(Answers)]
         /\ \A d \in Call \ {c} : Resolved(c, m)[d] = future[d]
         /\ Resolved(c, m)[c] # <<>>
         /\ Resolved(c, m)[c][1] = m \/ Resolved(c, m)[c] = future[c]
<1>1. <<m>> \in Seq(Answers) /\ <<m>> # <<>> /\ <<m>>[1] = m
  BY Singles
<1>2. future \in [Call -> Seq(Answers)]
  BY DEF ClientShape
<1>3. Resolved(c, m) = [future EXCEPT ![c] = IF future[c] = <<>> THEN <<m>> ELSE future[c]]
  BY DEF Resolved
<1>4. QED
  BY <1>1, <1>2, <1>3

\* The empty sequence has no positions.
LEMMA NoEntries == DOMAIN <<>> = {}
<1>1. <<>> \in Seq(Call) /\ Len(<<>>) = 0
  BY Singles, Zenon
<1>2. DOMAIN <<>> = 1..Len(<<>>)
  BY LenProperties, <1>1, Zenon
<1>3. QED
  BY <1>1, <1>2

\* The invariant holds to begin with.
LEMMA KafkaInvInit == KafkaInit => KafkaInv
<1> SUFFICES ASSUME KafkaInit PROVE KafkaInv
  OBVIOUS
<1> USE DEF KafkaInit
<1>1. ClientShape
  BY Singles DEF ClientShape
<1>2. ServerShape
  BY Singles, KafkaAssumption DEF ServerShape
<1>3. RepliesFit
  BY Singles, LenProperties DEF RepliesFit
<1>4. \A c \in Call : CallerInv(c)
  BY DEF CallerInv, InLoop
<1>5. RegistryExact
  BY DEF RegistryExact, InLoop
<1>6. QED
  BY <1>1, <1>2, <1>3, <1>4, <1>5 DEF KafkaInv

\* What a caller does changes nothing of the server's, except that a request
\* may be in the topic.
LEMMA CallerKeepsServer ==
  ASSUME KafkaInv, NEW c \in Call,
         Send(c) \/ SendFails(c) \/ CallerStep(c) \/ CallerLeaves(c)
  PROVE  ServerShape' /\ RepliesFit'
<1>1. /\ UNCHANGED <<method, replies, read, position, committed, server, serving, progress,
                     restarts, said>>
      /\ requests' \in {requests, Append(requests, c)}
  BY DEF Send, SendFails, CallerStep, Register, Answered, TimesOut, Look, EnterGet, Yield,
         LooksAgain, CallerLeaves, serverVars
<1>2. Append(requests, c) \in Seq(Call) /\ Len(Append(requests, c)) = Len(requests) + 1
  BY DEF KafkaInv, ServerShape
<1>3. ServerShape'
  <2>1. requests' \in Seq(Call) /\ Len(requests) <= Len(requests')
    <3>1. requests \in Seq(Call) /\ Len(requests) \in Nat
      BY DEF KafkaInv, ServerShape
    <3>2. QED
      BY <1>1, <1>2, <3>1
  <2>2. position \in 0..Len(requests')
    BY <2>1 DEF KafkaInv, ServerShape
  <2>3. QED
    BY <1>1, <2>1, <2>2 DEF KafkaInv, ServerShape
<1>4. RepliesFit'
  BY <1>1 DEF KafkaInv, RepliesFit, Fitting
<1>5. QED
  BY <1>3, <1>4

\* The steps of a caller keep the invariant.
LEMMA CallerKeepsInv ==
  ASSUME KafkaInv, NEW c \in Call,
         Send(c) \/ SendFails(c) \/ CallerStep(c) \/ CallerLeaves(c)
  PROVE  KafkaInv'
<1>0. ServerShape' /\ RepliesFit'
  BY CallerKeepsServer
<1>1. CASE Send(c)
  <2>1. ClientShape'
    BY <1>1 DEF KafkaInv, Send, ClientShape, registryVars
  <2>2. \A d \in Call : CallerInv(d)'
    BY <1>1 DEF KafkaInv, Send, ClientShape, CallerInv, InLoop, registryVars
  <2>3. RegistryExact'
    BY <1>1 DEF KafkaInv, Send, ClientShape, CallerInv, RegistryExact, InLoop, registryVars
  <2>4. QED
    BY <1>0, <2>1, <2>2, <2>3 DEF KafkaInv
<1>2. CASE SendFails(c)
  <2>1. ClientShape'
    BY <1>2 DEF KafkaInv, SendFails, Ends, ClientShape, registryVars
  <2>2. \A d \in Call : CallerInv(d)'
    BY <1>2 DEF KafkaInv, SendFails, Ends, ClientShape, CallerInv, InLoop, registryVars
  <2>3. RegistryExact'
    <3>1. /\ pc[c] = "idle" /\ pc'[c] = "ended" /\ outcome'[c] = "error"
          /\ \A d \in Call : d # c => pc'[d] = pc[d] /\ outcome'[d] = outcome[d]
          /\ UNCHANGED registryVars
      BY <1>2 DEF KafkaInv, SendFails, Ends, ClientShape
    <3>2. outcome[c] = "none"
      BY <3>1 DEF KafkaInv, CallerInv
    <3>3. QED
      BY <3>1, <3>2 DEF KafkaInv, RegistryExact, InLoop, registryVars
  <2>4. QED
    BY <1>0, <2>1, <2>2, <2>3 DEF KafkaInv
<1>3. CASE Register(c)
  <2>1. ClientShape'
    <3>1. ClientShape
      BY DEF KafkaInv
    <3>2. pc' \in [Call -> {"idle", "sent", "waiting", "top", "enter", "get", "ended"}]
      BY <1>3, <3>1 DEF Register, ClientShape
    <3>3. pending' \subseteq Call /\ streams' \subseteq Call
      BY <1>3, <3>1 DEF Register, ClientShape
    <3>4. UNCHANGED <<method, outcome, heard, client, future, items, ending>>
      BY <1>3 DEF Register
    <3>5. QED
      BY <3>1, <3>2, <3>3, <3>4 DEF ClientShape
  <2>2. \A d \in Call : CallerInv(d)'
    BY <1>3 DEF KafkaInv, Register, ClientShape, CallerInv, InLoop
  <2>3. /\ future' = future /\ ending' = ending /\ outcome' = outcome
        /\ future[c] = <<>> /\ ending[c] = "open" /\ outcome[c] = "none"
    BY <1>3 DEF KafkaInv, Register, CallerInv
  <2>4. RegistryExact'
    <3>1. CASE method[c] # "stream"
      BY <1>3, <2>3, <3>1 DEF KafkaInv, Register, ClientShape, RegistryExact, InLoop
    <3>2. CASE method[c] = "stream"
      BY <1>3, <2>3, <3>2 DEF KafkaInv, Register, ClientShape, RegistryExact, InLoop
    <3>3. QED
      BY <3>1, <3>2
  <2>5. QED
    BY <1>0, <2>1, <2>2, <2>4 DEF KafkaInv
<1>4. CASE Answered(c)
  <2>1. /\ future[c][1].what \in {"result", "error", "cancelled"}
        /\ future[c][1].i \in Nat \ {0}
    <3>1. future[c] \in Seq(Answers) /\ future[c] # <<>>
      BY <1>4 DEF KafkaInv, ClientShape, Answered
    <3>2. future[c][1] \in Answers
      BY <3>1
    <3>3. QED
      BY <3>1, <3>2 DEF Answers, KafkaInv, CallerInv
  <2>2. ClientShape'
    BY <1>4, <2>1 DEF KafkaInv, Answered, Ends, ClientShape, registryVars
  <2>3. \A d \in Call : CallerInv(d)'
    BY <1>4, <2>1 DEF KafkaInv, Answered, Ends, ClientShape, CallerInv, InLoop, registryVars
  <2>4. RegistryExact'
    <3>1. /\ pc[c] = "waiting" /\ future[c] # <<>> /\ pc'[c] = "ended"
          /\ outcome'[c] = future[c][1].what
          /\ \A d \in Call : d # c => pc'[d] = pc[d] /\ outcome'[d] = outcome[d]
          /\ UNCHANGED registryVars
      BY <1>4 DEF KafkaInv, Answered, Ends, ClientShape
    <3>2. outcome[c] = "none" /\ outcome'[c] # "left"
      BY <2>1, <3>1 DEF KafkaInv, CallerInv
    <3>3. QED
      BY <3>1, <3>2 DEF KafkaInv, RegistryExact, InLoop, registryVars
  <2>5. QED
    BY <1>0, <2>2, <2>3, <2>4 DEF KafkaInv
<1>5. CASE TimesOut(c)
  <2>1. ClientShape'
    BY <1>5 DEF KafkaInv, TimesOut, Ends, ClientShape
  <2>2. \A d \in Call : CallerInv(d)'
    BY <1>5 DEF KafkaInv, TimesOut, Ends, ClientShape, CallerInv, InLoop
  <2>3. RegistryExact'
    <3>1. /\ pc[c] = "waiting" /\ pc'[c] = "ended" /\ outcome'[c] = "timeout"
          /\ \A d \in Call : d # c => pc'[d] = pc[d] /\ outcome'[d] = outcome[d]
          /\ pending' = pending \ {c} /\ UNCHANGED <<future, streams, items, ending>>
      BY <1>5 DEF KafkaInv, TimesOut, Ends, ClientShape
    <3>2. outcome[c] = "none"
      BY <3>1 DEF KafkaInv, CallerInv
    <3>3. QED
      BY <3>1, <3>2 DEF KafkaInv, RegistryExact, InLoop
  <2>4. QED
    BY <1>0, <2>1, <2>2, <2>3 DEF KafkaInv
<1>6. CASE Look(c) \/ EnterGet(c) \/ LooksAgain(c)
  <2> USE DEF Ends, registryVars
  <2>1. /\ UNCHANGED <<method, heard, client, pending, streams, future, items, ending>>
        /\ pc[c] \in {"top", "enter", "get"}
        /\ \/ /\ \E s \in {"top", "enter", "get"} : pc' = [pc EXCEPT ![c] = s]
              /\ UNCHANGED outcome
           \/ /\ pc' = [pc EXCEPT ![c] = "ended"]
              /\ \E h \in {"ended", "error", "cancelled"} :
                   /\ outcome' = [outcome EXCEPT ![c] = h]
                   /\ ending[c] # "open"
    BY <1>6 DEF Look, EnterGet, LooksAgain
  <2>2. ClientShape'
    <3>1. ClientShape
      BY DEF KafkaInv
    <3>2. pc' \in [Call -> {"idle", "sent", "waiting", "top", "enter", "get", "ended"}]
      BY <2>1, <3>1 DEF ClientShape
    <3>3. outcome' \in [Call -> {"none", "result", "error", "timeout", "cancelled", "ended",
                                "left"}]
      BY <2>1, <3>1 DEF ClientShape
    <3>4. QED
      BY <2>1, <3>1, <3>2, <3>3 DEF ClientShape
  <2>3. ASSUME NEW d \in Call PROVE CallerInv(d)'
    <3>1. CallerInv(d)
      BY DEF KafkaInv
    <3>2. CASE d = c
      <4>1. pc'[c] \in {"top", "enter", "get", "ended"} /\ (pc'[c] # "ended" => outcome' = outcome)
        BY <2>1 DEF KafkaInv, ClientShape
      <4>2. QED
        BY <2>1, <3>1, <3>2, <4>1 DEF CallerInv, InLoop
    <3>3. CASE d # c
      <4>1. pc'[d] = pc[d] /\ outcome'[d] = outcome[d]
        BY <2>1, <3>3 DEF KafkaInv, ClientShape
      <4>2. QED
        BY <2>1, <3>1, <4>1 DEF CallerInv, InLoop
    <3>4. QED
      BY <3>2, <3>3
  <2>5. RegistryExact'
    <3>1. /\ pc \in [Call -> {"idle", "sent", "waiting", "top", "enter", "get", "ended"}]
          /\ \A d \in Call \ {c} : pc'[d] = pc[d]
          /\ pc'[c] \in {"top", "enter", "get", "ended"}
      BY <2>1 DEF KafkaInv, ClientShape
    <3>2. \A d \in Call : (pc[d] = "waiting") <=> (pc'[d] = "waiting")
      BY <2>1, <3>1
    <3>3. \A d \in Call \ {c} : outcome'[d] = outcome[d] /\ (InLoop(d)' <=> InLoop(d))
      BY <2>1, <3>1 DEF KafkaInv, ClientShape, InLoop
    <3>4. /\ InLoop(c)
          /\ outcome[c] = "none"
          /\ InLoop(c)' \/ ending[c] # "open"
      BY <2>1 DEF KafkaInv, ClientShape, CallerInv, InLoop
    <3>5. QED
      BY <2>1, <3>2, <3>3, <3>4 DEF KafkaInv, RegistryExact
  <2>6. QED
    BY <1>0, <2>2, <2>3, <2>5 DEF KafkaInv
<1>7. CASE Yield(c)
  <2>1. ClientShape'
    BY <1>7 DEF KafkaInv, Yield, ClientShape
  <2>2. \A d \in Call : CallerInv(d)'
    BY <1>7 DEF KafkaInv, Yield, ClientShape, CallerInv, InLoop
  <2>3. RegistryExact'
    BY <1>7 DEF KafkaInv, Yield, ClientShape, CallerInv, RegistryExact, InLoop
  <2>4. QED
    BY <1>0, <2>1, <2>2, <2>3 DEF KafkaInv
<1>8. CASE CallerLeaves(c)
  <2> DEFINE m == Reply(c, 1, "cancelled")
  <2>1. m \in Answers /\ m.what = "cancelled"
    BY DEF Reply, Answers
  <2>2. /\ UNCHANGED <<method, heard, client, pending, streams, items, ending>>
        /\ (future' = Resolved(c, m) /\ pc[c] = "waiting") \/ future' = future
        /\ pc' = [pc EXCEPT ![c] = "ended"] /\ outcome' = [outcome EXCEPT ![c] = "left"]
        /\ pc[c] \in {"sent", "waiting", "top", "enter", "get"}
    BY <1>8 DEF CallerLeaves, Ends
  <2>3. /\ Resolved(c, m) \in [Call -> Seq(Answers)]
        /\ \A d \in Call \ {c} : Resolved(c, m)[d] = future[d]
        /\ Resolved(c, m)[c] # <<>>
        /\ Resolved(c, m)[c][1] = m \/ Resolved(c, m)[c] = future[c]
    BY <2>1, ResolvedIs DEF KafkaInv
  <2>4. /\ future' \in [Call -> Seq(Answers)] /\ \A d \in Call \ {c} : future'[d] = future[d]
        /\ future'[c] # <<>> => future'[c][1] = m \/ future'[c] = future[c]
    BY <2>2, <2>3 DEF KafkaInv, ClientShape
  <2> HIDE DEF m
  <2>5. ClientShape'
    BY <2>2, <2>4 DEF KafkaInv, ClientShape
  <2>6. /\ \A d \in Call \ {c} : pc'[d] = pc[d] /\ outcome'[d] = outcome[d]
        /\ pc'[c] = "ended" /\ outcome'[c] = "left"
    BY <2>2 DEF KafkaInv, ClientShape
  <2>7. \A d \in Call : CallerInv(d)'
    BY <2>1, <2>2, <2>4, <2>6 DEF KafkaInv, CallerInv, InLoop
  <2>8. RegistryExact'
    BY <2>2, <2>4, <2>6 DEF KafkaInv, RegistryExact, InLoop
  <2>9. QED
    BY <1>0, <2>5, <2>7, <2>8 DEF KafkaInv
<1>9. QED
  BY <1>1, <1>2, <1>3, <1>4, <1>5, <1>6, <1>7, <1>8 DEF CallerStep

\* What the client does with a reply and on its stop keeps the invariant.
LEMMA ClientKeepsInv ==
  ASSUME KafkaInv, ReadReply \/ StopClient \/ CancelAll
  PROVE  KafkaInv'
<1>1. CASE ReadReply
  <2> DEFINE m == replies[read + 1]
  <2>1. read + 1 \in DOMAIN replies /\ m \in Replies /\ <<m>> \in Seq(Answers) /\ m \in Answers
    <3>1. read + 1 \in DOMAIN replies /\ m \in Replies
      BY <1>1 DEF ReadReply, KafkaInv, ServerShape
    <3>2. m \in Answers
      BY <3>1 DEF Replies, Answers
    <3>3. QED
      BY <3>1, <3>2, Singles
  <2>2. m.call \in Call /\ m.i \in Nat \ {0} /\ m.what \in Fitting(m.call)
    BY <2>1 DEF Replies, KafkaInv, RepliesFit
  <2>3. <<m>> # <<>> /\ <<m>>[1] = m
    BY <2>1, Singles
  <2>4. ServerShape' /\ RepliesFit'
    BY <1>1 DEF ReadReply, KafkaInv, ServerShape, RepliesFit, Fitting, callVars, serverVars
  <2> HIDE DEF m
  <2>11. /\ Resolved(m.call, m) \in [Call -> Seq(Answers)]
         /\ \A d \in Call \ {m.call} : Resolved(m.call, m)[d] = future[d]
         /\ Resolved(m.call, m)[m.call] # <<>>
         /\ \/ Resolved(m.call, m)[m.call][1] = m
            \/ Resolved(m.call, m)[m.call] = future[m.call]
    BY <2>1, <2>2, ResolvedIs DEF KafkaInv
  <2>5. UNCHANGED callVars /\ UNCHANGED client
    BY <1>1 DEF ReadReply
  <2>6. CASE m.what = "complete" /\ CompleteStreaming(m)
    <3> USE <2>2, <2>3, <2>5, <2>6 DEF KafkaInv, CompleteStreaming, ClientShape, callVars
    <3>1. ClientShape'
      OBVIOUS
    <3>2. \A d \in Call : CallerInv(d)'
      BY DEF CallerInv, RegistryExact, InLoop
    <3>3. RegistryExact'
      BY DEF RegistryExact, InLoop
    <3>4. QED
      BY <2>4, <3>1, <3>2, <3>3
  <2>7. CASE m.what = "error" /\ CompleteWithException(m)
    <3> USE <2>1, <2>2, <2>3, <2>5, <2>7, <2>11 DEF KafkaInv, CompleteWithException, ClientShape, callVars
    <3>1. ClientShape'
      OBVIOUS
    <3>2. CASE m.call \in pending
      <4>1. /\ future' = Resolved(m.call, m)
            /\ pending' = pending \ {m.call}
            /\ UNCHANGED <<streams, ending, items>>
        BY <3>2
      <4>2. \A d \in Call : CallerInv(d)'
        BY <3>2, <4>1 DEF CallerInv, RegistryExact, InLoop
      <4>3. RegistryExact'
        BY <3>2, <4>1 DEF RegistryExact, InLoop
      <4>4. QED
        BY <2>4, <3>1, <4>2, <4>3
    <3>3. CASE m.call \notin pending
      <4>1. /\ streams' = streams \ {m.call}
            /\ ending' = IF m.call \in streams THEN [ending EXCEPT ![m.call] = "failed"]
                         ELSE ending
            /\ UNCHANGED <<pending, future, items>>
        BY <3>3
      <4>2. \A d \in Call : CallerInv(d)'
        BY <4>1 DEF CallerInv, RegistryExact, InLoop
      <4>3. RegistryExact'
        BY <4>1 DEF RegistryExact, InLoop
      <4>4. QED
        BY <2>4, <3>1, <4>2, <4>3
    <3>4. QED
      BY <3>2, <3>3
  <2>8. CASE m.what \in {"event", "result"} /\ Complete(m)
    <3> USE <2>1, <2>2, <2>3, <2>5, <2>8, <2>11 DEF KafkaInv, Complete, ClientShape, callVars
    <3>1. ASSUME m.call \in streams
          PROVE  Append(items[m.call], m.i) \in Seq(Nat \ {0})
      BY <3>1
    <3>2. CASE m.call \in pending
      <4>1. /\ future' = Resolved(m.call, m)
            /\ pending' = pending \ {m.call}
            /\ UNCHANGED <<streams, ending, items>>
        BY <3>2
      <4>2. ClientShape'
        BY <4>1
      <4>3. \A d \in Call : CallerInv(d)'
        BY <3>2, <4>1 DEF CallerInv, RegistryExact, InLoop, Fitting
      <4>4. RegistryExact'
        BY <3>2, <4>1 DEF RegistryExact, InLoop
      <4>5. QED
        BY <2>4, <4>2, <4>3, <4>4
    <3>3. CASE m.call \notin pending
      <4>1. UNCHANGED <<pending, future, streams, ending>>
        BY <3>3
      <4>2. items' \in [Call -> Seq(Nat \ {0})]
        BY <3>1, <3>3
      <4>3. ClientShape'
        BY <4>1, <4>2
      <4>4. RegistryExact' /\ \A d \in Call : CallerInv(d)'
        BY <4>1 DEF CallerInv, RegistryExact, InLoop
      <4>5. QED
        BY <2>4, <4>3, <4>4
    <3>4. QED
      BY <3>2, <3>3
  <2>9. CASE UNCHANGED registryVars
    <3> USE <2>5, <2>9 DEF KafkaInv, ClientShape, callVars, registryVars
    <3>1. ClientShape' /\ RegistryExact'
      BY DEF RegistryExact, InLoop
    <3>2. \A d \in Call : CallerInv(d)'
      BY DEF CallerInv, InLoop
    <3>3. QED
      BY <2>4, <3>1, <3>2
  <2>10. QED
    BY <1>1, <2>6, <2>7, <2>8, <2>9 DEF ReadReply, m
<1>2. CASE StopClient
  <2> USE <1>2 DEF StopClient, KafkaInv, ClientShape, ServerShape, callVars, registryVars,
                   serverVars
  <2>1. ClientShape' /\ ServerShape' /\ RepliesFit'
    BY DEF RepliesFit, Fitting
  <2>2. RegistryExact' /\ \A d \in Call : CallerInv(d)'
    BY DEF CallerInv, RegistryExact, InLoop
  <2>3. QED
    BY <2>1, <2>2
<1>3. CASE CancelAll
  <2>1. ServerShape' /\ RepliesFit'
    BY <1>3 DEF CancelAll, KafkaInv, ServerShape, RepliesFit, Fitting, callVars, serverVars
  <2>2. \A d \in Call : /\ Reply(d, 1, "cancelled") \in Answers
                        /\ Reply(d, 1, "cancelled").what = "cancelled"
    BY DEF Reply, Answers
  <2>3. \A d \in Call : /\ <<Reply(d, 1, "cancelled")>> \in Seq(Answers)
                        /\ <<Reply(d, 1, "cancelled")>> # <<>>
                        /\ <<Reply(d, 1, "cancelled")>>[1].what = "cancelled"
    BY <2>2, Singles
  <2> USE <1>3, <2>3 DEF CancelAll, KafkaInv, ClientShape, callVars
  <2>4. ClientShape'
    OBVIOUS
  <2>5. \A d \in Call : CallerInv(d)'
    BY DEF CallerInv, RegistryExact, InLoop
  <2>6. RegistryExact'
    BY DEF RegistryExact, InLoop
  <2>7. QED
    BY <2>1, <2>4, <2>5, <2>6
<1>4. QED
  BY <1>1, <1>2, <1>3

\* What the server does leaves the client alone.
LEMMA ServerKeepsInv ==
  ASSUME KafkaInv, ServerStep \/ ServerEnds
  PROVE  KafkaInv'
<1>1. UNCHANGED clientVars
  BY DEF ServerStep, Receive, Emit, Finish, ServerStarts, ServerEnds
<1>2. ClientShape' /\ RegistryExact' /\ \A c \in Call : CallerInv(c)'
  BY <1>1 DEF KafkaInv, ClientShape, CallerInv, RegistryExact, InLoop, clientVars, callVars,
              registryVars
<1>3. None \notin Call
  BY KafkaAssumption
<1>4. ASSUME NEW what \in Said, serving # None, what \in Fitting(serving), Says(what)
      PROVE  /\ replies' \in Seq(Replies) /\ Len(replies) <= Len(replies') /\ RepliesFit'
             /\ said' \in [Call -> Seq(Said)]
  <2> DEFINE m == Reply(serving, Len(said[serving]) + 1, what)
  <2>1. serving \in Call
    BY <1>4 DEF KafkaInv, ServerShape
  <2>2. m \in Replies /\ m.call = serving /\ m.what = what
    BY <2>1, <1>4 DEF Reply, Replies, KafkaInv, ServerShape
  <2> HIDE DEF m
  <2>3. replies' \in {replies, Append(replies, m)}
    BY <1>4 DEF Says, m
  <2>4. /\ Append(replies, m) \in Seq(Replies) /\ Len(replies) \in Nat
        /\ Len(Append(replies, m)) = Len(replies) + 1
        /\ \A i \in DOMAIN Append(replies, m) :
             Append(replies, m)[i] = IF i \in DOMAIN replies THEN replies[i] ELSE m
    BY <2>2 DEF KafkaInv, ServerShape
  <2>5. replies' \in Seq(Replies) /\ Len(replies) <= Len(replies')
    <3>1. replies \in Seq(Replies)
      BY DEF KafkaInv, ServerShape
    <3>2. QED
      BY <2>3, <2>4, <3>1
  <2>6. method' = method
    BY <1>1 DEF clientVars, callVars
  <2>7. RepliesFit'
    BY <1>4, <2>2, <2>3, <2>4, <2>6 DEF KafkaInv, RepliesFit, Fitting
  <2>8. said' \in [Call -> Seq(Said)]
    BY <1>4, <2>1 DEF Says, KafkaInv, ServerShape
  <2>9. QED
    BY <2>5, <2>7, <2>8
<1>5. CASE Receive
  <2>1. position + 1 \in 0..Len(requests) /\ requests[position + 1] \in Call
    BY <1>5 DEF Receive, KafkaInv, ServerShape
  <2>2. ServerShape'
    BY <1>1, <1>5, <2>1, KafkaAssumption DEF Receive, KafkaInv, ServerShape, clientVars
  <2>3. RepliesFit'
    BY <1>1, <1>5 DEF Receive, KafkaInv, RepliesFit, Fitting, clientVars, callVars
  <2>4. QED
    BY <1>2, <2>2, <2>3 DEF KafkaInv
<1>6. CASE Emit
  <2>1. "event" \in Said /\ "event" \in Fitting(serving)
    BY <1>6 DEF Emit, Said, Fitting
  <2>2. /\ replies' \in Seq(Replies) /\ Len(replies) <= Len(replies') /\ RepliesFit'
        /\ said' \in [Call -> Seq(Said)]
    BY <1>4, <1>6, <2>1 DEF Emit
  <2>3. read \in 0..Len(replies')
    BY <2>2 DEF KafkaInv, ServerShape
  <2>4. progress' \in 0..MaxEvents
    BY <1>6, KafkaAssumption DEF Emit, KafkaInv, ServerShape
  <2>5. ServerShape'
    BY <1>1, <1>6, <2>2, <2>3, <2>4 DEF Emit, KafkaInv, ServerShape, clientVars
  <2>6. QED
    BY <1>2, <2>2, <2>5 DEF KafkaInv
<1>7. CASE Finish
  <2>1. PICK what \in {"complete", "result", "error"} : what \in Fitting(serving) /\ Says(what)
    BY <1>7 DEF Finish, Fitting
  <2>2. /\ replies' \in Seq(Replies) /\ Len(replies) <= Len(replies') /\ RepliesFit'
        /\ said' \in [Call -> Seq(Said)]
    BY <1>4, <1>7, <2>1 DEF Finish, Said, Last
  <2>3. read \in 0..Len(replies')
    BY <2>2 DEF KafkaInv, ServerShape
  <2>4. ServerShape'
    BY <1>1, <1>7, <2>2, <2>3, KafkaAssumption DEF Finish, KafkaInv, ServerShape, clientVars
  <2>5. QED
    BY <1>2, <2>2, <2>4 DEF KafkaInv
<1>8. CASE ServerStarts \/ ServerEnds
  <2>1. ServerShape'
    <3>1. Len(requests) \in Nat /\ position \in Nat /\ committed \in Int
      BY DEF KafkaInv, ServerShape
    <3>2. CASE ServerStarts
      <4>1. position' \in 0..Len(requests) /\ committed \in -1..position'
        BY <3>1, <3>2 DEF ServerStarts, KafkaInv, ServerShape
      <4>2. QED
        BY <1>1, <3>2, <4>1 DEF ServerStarts, KafkaInv, ServerShape, clientVars
    <3>3. CASE ServerEnds
      <4>1. committed' \in -1..position /\ restarts' \in 0..MaxRestarts
        BY <3>1, <3>3, KafkaAssumption DEF ServerEnds, KafkaInv, ServerShape
      <4>2. QED
        BY <1>1, <3>3, <4>1, KafkaAssumption DEF ServerEnds, KafkaInv, ServerShape, clientVars
    <3>4. QED
      BY <1>8, <3>2, <3>3
  <2>2. RepliesFit'
    BY <1>1, <1>8
       DEF ServerStarts, ServerEnds, KafkaInv, RepliesFit, Fitting, clientVars, callVars
  <2>3. QED
    BY <1>2, <2>1, <2>2 DEF KafkaInv
<1>9. QED
  BY <1>5, <1>6, <1>7, <1>8 DEF ServerStep

\* Every step keeps the invariant.
LEMMA StepKeepsInv == KafkaInv /\ [KafkaNext]_kafkaVars => KafkaInv'
<1> SUFFICES ASSUME KafkaInv, [KafkaNext]_kafkaVars PROVE KafkaInv'
  OBVIOUS
<1>1. CASE UNCHANGED kafkaVars
  BY <1>1 DEF kafkaVars, clientVars, callVars, registryVars, serverVars, KafkaInv, ClientShape,
              ServerShape, RepliesFit, Fitting, CallerInv, RegistryExact, InLoop
<1>2. ASSUME NEW c \in Call, Send(c) \/ SendFails(c) \/ CallerStep(c) \/ CallerLeaves(c)
      PROVE  KafkaInv'
  BY <1>2, CallerKeepsInv
<1>3. CASE ReadReply \/ StopClient \/ CancelAll
  BY <1>3, ClientKeepsInv
<1>4. CASE ServerStep \/ ServerEnds
  BY <1>4, ServerKeepsInv
<1>5. QED
  BY <1>1, <1>2, <1>3, <1>4 DEF KafkaNext

\* The invariant always holds.
LEMMA InvHolds == KafkaSpec => []KafkaInv
BY KafkaInvInit, StepKeepsInv, PTL DEF KafkaSpec

\* Types are respected: readers stay within their topics, a restart never
\* takes the server past what was in its topic, and callers end in one of the
\* listed ways (no caller of another method is answered with a stream's event).
THEOREM KafkaTypeCorrect == KafkaSpec => []KafkaTypeOK
<1>1. KafkaInv => KafkaTypeOK
  BY DEF KafkaInv, ClientShape, ServerShape, KafkaTypeOK
<1>2. QED
  BY <1>1, InvHolds, PTL

\* But for calls whose caller left, the CorrelationManager holds exactly those
\* that can still be answered, whatever is lost, overtaken, timed out, stopped or
\* restarted.
THEOREM RegistryIsExact == KafkaSpec => []RegistryExact
<1>1. KafkaInv => RegistryExact
  BY DEF KafkaInv
<1>2. QED
  BY <1>1, InvHolds, PTL

-----------------------------------------------------------------------------
(* What callers hear.                                                      *)

Early(c) == pc[c] \in {"idle", "sent", "waiting"}

\* Numbers that stand for events or results the server said about c.
Told(c, s) ==
  \A j \in DOMAIN s : s[j] \in DOMAIN said[c] /\ said[c][s[j]] \in {"event", "result"}

Rising(s) == \A j, k \in DOMAIN s : j < k => s[j] < s[k]

FutureSaid(c) ==
  future[c] # <<>> /\ future[c][1].what = "result" =>
    future[c][1].i \in DOMAIN said[c] /\ said[c][future[c][1].i] = "result"

ResultSaid(c) == outcome[c] = "result" => \E i \in DOMAIN said[c] : said[c][i] = "result"

\* The reply topic holds, of each call, what was said about it, in that order.
RepliesSaid ==
  /\ \A k \in DOMAIN replies :
       /\ replies[k].i \in DOMAIN said[replies[k].call]
       /\ said[replies[k].call][replies[k].i] = replies[k].what
  /\ \A j, k \in DOMAIN replies :
       j < k /\ replies[j].call = replies[k].call => replies[j].i < replies[k].i

\* What the caller of c got, then what is queued for it, then what is still in
\* the topic for it, is in the order in which it was said.
InOrder(c) ==
  /\ Told(c, heard[c]) /\ Told(c, items[c])
  /\ Rising(heard[c]) /\ Rising(items[c])
  /\ \A j \in DOMAIN heard[c], k \in DOMAIN items[c] : heard[c][j] < items[c][k]
  /\ \A k \in DOMAIN replies : read < k /\ replies[k].call = c =>
       /\ \A j \in DOMAIN items[c] : items[c][j] < replies[k].i
       /\ c \in streams => \A j \in DOMAIN heard[c] : heard[c][j] < replies[k].i
  /\ Early(c) => heard[c] = <<>> /\ items[c] = <<>>

AnswerInv ==
  /\ RepliesSaid
  /\ \A c \in Call : FutureSaid(c) /\ ResultSaid(c) /\ InOrder(c)

\* A step that moves no answer: nothing is said, queued or heard.
LEMMA QuietKeepsAnswers ==
  ASSUME KafkaInv, KafkaInv', AnswerInv,
         UNCHANGED <<said, replies, heard, items>>,
         read <= read',
         \A c \in Call : c \in streams' => c \in streams \/ heard[c] = <<>>,
         \A c \in Call : FutureSaid(c)',
         \A c \in Call : outcome'[c] = "result" => outcome[c] = "result",
         \A c \in Call : Early(c)' => Early(c)
  PROVE  AnswerInv'
<1>1. RepliesSaid'
  BY DEF AnswerInv, RepliesSaid
<1>2. ASSUME NEW c \in Call PROVE ResultSaid(c)'
  BY DEF AnswerInv, ResultSaid
<1>3. ASSUME NEW c \in Call PROVE InOrder(c)'
  <2>1. InOrder(c)
    BY DEF AnswerInv
  <2>2. Told(c, heard[c])' /\ Told(c, items[c])' /\ Rising(heard[c])' /\ Rising(items[c])'
    BY <2>1 DEF InOrder, Told, Rising
  <2>3. \A j \in DOMAIN heard'[c], k \in DOMAIN items'[c] : heard'[c][j] < items'[c][k]
    BY <2>1 DEF InOrder
  <2>4. ASSUME NEW k \in DOMAIN replies', read' < k, replies'[k].call = c
        PROVE  /\ \A j \in DOMAIN items'[c] : items'[c][j] < replies'[k].i
               /\ c \in streams' => \A j \in DOMAIN heard'[c] : heard'[c][j] < replies'[k].i
    <3>1. k \in DOMAIN replies /\ read < k /\ replies[k].call = c
      BY <2>4 DEF KafkaInv, ServerShape
    <3>2. /\ \A j \in DOMAIN items[c] : items[c][j] < replies[k].i
          /\ c \in streams => \A j \in DOMAIN heard[c] : heard[c][j] < replies[k].i
      BY <2>1, <3>1 DEF InOrder
    <3>3. heard[c] = <<>> => DOMAIN heard[c] = {}
      BY NoEntries
    <3>4. QED
      BY <3>2, <3>3
  <2>5. Early(c)' => heard'[c] = <<>> /\ items'[c] = <<>>
    BY <2>1 DEF InOrder
  <2>6. QED
    BY <2>2, <2>3, <2>4, <2>5 DEF InOrder
<1>4. QED
  BY <1>1, <1>2, <1>3 DEF AnswerInv

\* Nothing has been said, queued or heard to begin with.
LEMMA AnswerInvInit == KafkaInit => AnswerInv
<1> SUFFICES ASSUME KafkaInit PROVE AnswerInv
  OBVIOUS
<1>1. DOMAIN <<>> = {}
  BY NoEntries
<1>2. RepliesSaid
  BY <1>1 DEF KafkaInit, RepliesSaid
<1>3. ASSUME NEW c \in Call PROVE FutureSaid(c) /\ ResultSaid(c) /\ InOrder(c)
  BY <1>1 DEF KafkaInit, FutureSaid, ResultSaid, InOrder, Told, Rising
<1>4. QED
  BY <1>2, <1>3 DEF AnswerInv

\* What a caller's steps do to the answers.
LEMMA CallerKeepsAnswers ==
  ASSUME KafkaInv, KafkaInv', AnswerInv, NEW c \in Call,
         Send(c) \/ SendFails(c) \/ CallerStep(c) \/ CallerLeaves(c)
  PROVE  AnswerInv'
<1>0. UNCHANGED <<said, replies, read>> /\ method' = method
  BY DEF Send, SendFails, CallerStep, Register, Answered, TimesOut, Look, EnterGet, Yield,
         LooksAgain, CallerLeaves, registryVars
<1>1. \A d \in Call : FutureSaid(d)'
  <2> DEFINE m == Reply(c, 1, "cancelled")
  <2>1. future' = future \/ future' = Resolved(c, m)
    BY DEF Send, SendFails, CallerStep, Register, Answered, TimesOut, Look, EnterGet, Yield,
           LooksAgain, CallerLeaves, registryVars
  <2>2. m \in Answers /\ m.what = "cancelled"
    BY DEF Reply, Answers
  <2>3. /\ \A d \in Call \ {c} : Resolved(c, m)[d] = future[d]
        /\ Resolved(c, m)[c][1] = m \/ Resolved(c, m)[c] = future[c]
    BY <2>2, ResolvedIs DEF KafkaInv
  <2> HIDE DEF m
  <2>4. QED
    BY <1>0, <2>1, <2>2, <2>3 DEF AnswerInv, FutureSaid
<1>2. RepliesSaid'
  BY <1>0 DEF AnswerInv, RepliesSaid
<1>3. InOrder(c) /\ heard[c] \in Seq(Nat \ {0}) /\ items[c] \in Seq(Nat \ {0})
  BY DEF AnswerInv, KafkaInv, ClientShape
<1>4. \A s : Told(c, s)' <=> Told(c, s)
  BY <1>0 DEF Told
<1>5. CASE Send(c) \/ SendFails(c) \/ TimesOut(c) \/ Look(c) \/ EnterGet(c) \/ LooksAgain(c)
           \/ CallerLeaves(c)
  <2>1. UNCHANGED <<heard, items, streams>>
    BY <1>5 DEF Send, SendFails, TimesOut, Look, EnterGet, LooksAgain, CallerLeaves, registryVars
  <2>2. /\ \/ outcome' = outcome
           \/ \E h \in {"error", "timeout", "ended", "cancelled", "left"} :
                outcome' = [outcome EXCEPT ![c] = h]
        /\ \E s \in {"sent", "top", "enter", "get", "ended"} : pc' = [pc EXCEPT ![c] = s]
    BY <1>5 DEF Send, SendFails, TimesOut, Look, EnterGet, LooksAgain, CallerLeaves, Ends
  <2>3. outcome \in [Call -> {"none", "result", "error", "timeout", "cancelled", "ended", "left"}]
        /\ pc \in [Call -> {"idle", "sent", "waiting", "top", "enter", "get", "ended"}]
    BY DEF KafkaInv, ClientShape
  <2>4. \A d \in Call : outcome'[d] = "result" => outcome[d] = "result"
    BY <2>2, <2>3
  <2>5. \A d \in Call : Early(d)' => Early(d)
    <3>1. CASE Send(c)
      BY <2>3, <3>1 DEF Send, Early
    <3>2. CASE ~Send(c)
      <4>1. \E s \in {"top", "enter", "get", "ended"} : pc' = [pc EXCEPT ![c] = s]
        BY <1>5, <3>2 DEF SendFails, TimesOut, Look, EnterGet, LooksAgain, CallerLeaves, Ends
      <4>2. QED
        BY <2>3, <4>1 DEF Early
    <3>3. QED
      BY <3>1, <3>2
  <2>6. read <= read'
    BY <1>0 DEF KafkaInv, ServerShape
  <2>7. QED
    BY <1>0, <1>1, <2>1, <2>4, <2>5, <2>6, QuietKeepsAnswers
<1>6. CASE Register(c)
  <2>1. heard[c] = <<>>
    BY <1>3, <1>6 DEF Register, InOrder, Early
  <2>2. \A d \in Call : d \in streams' => d \in streams \/ heard[d] = <<>>
    BY <1>6, <2>1 DEF Register
  <2>3. \A d \in Call : Early(d)' => Early(d)
    BY <1>6 DEF Register, Early, KafkaInv, ClientShape
  <2>4. read <= read'
    BY <1>0 DEF KafkaInv, ServerShape
  <2>5. UNCHANGED <<heard, items, outcome>>
    BY <1>6 DEF Register
  <2>6. QED
    BY <1>0, <1>1, <2>2, <2>3, <2>4, <2>5, QuietKeepsAnswers
<1>7. CASE Answered(c)
  <2> DEFINE got == future[c][1]
  <2>1. heard[c] = <<>> /\ items[c] = <<>> /\ c \notin streams
    <3>1. pc[c] = "waiting" /\ outcome[c] = "none"
      BY <1>7 DEF Answered, KafkaInv, CallerInv
    <3>2. QED
      BY <1>3, <3>1 DEF InOrder, Early, KafkaInv, RegistryExact, InLoop
  <2>2. got.what = "result" => got.i \in DOMAIN said[c] /\ said[c][got.i] = "result"
    BY <1>7 DEF Answered, AnswerInv, FutureSaid
  <2>3. got.i \in Nat \ {0}
    <3>1. future[c] \in Seq(Answers) /\ future[c] # <<>>
      BY <1>7 DEF KafkaInv, ClientShape, Answered
    <3>2. future[c][1] \in Answers
      BY <3>1
    <3>3. QED
      BY <3>2 DEF Answers
  <2> HIDE DEF got
  <2>4. Append(<<>>, got.i) = <<got.i>> /\ DOMAIN <<got.i>> = {1}
    BY <2>3
  <2>5. /\ heard' = IF got.what = "result" THEN [heard EXCEPT ![c] = <<got.i>>] ELSE heard
        /\ outcome' = [outcome EXCEPT ![c] = got.what]
        /\ pc' = [pc EXCEPT ![c] = "ended"]
        /\ UNCHANGED <<items, streams>>
    BY <1>7, <2>1, <2>4 DEF Answered, Ends, got, registryVars, KafkaInv, ClientShape
  <2>6. ASSUME NEW d \in Call PROVE ResultSaid(d)'
    BY <1>0, <2>2, <2>5 DEF AnswerInv, ResultSaid, KafkaInv, ClientShape
  <2>7. ASSUME NEW d \in Call PROVE InOrder(d)'
    <3>1. CASE d # c
      BY <1>0, <2>5, <3>1 DEF AnswerInv, InOrder, Told, Rising, Early, KafkaInv, ClientShape
    <3>2. CASE d = c
      <4>1. items'[c] = <<>> /\ c \notin streams' /\ ~Early(c)'
        BY <2>1, <2>5 DEF Early, KafkaInv, ClientShape
      <4>2. heard'[c] = <<>> \/ (heard'[c] = <<got.i>> /\ got.what = "result")
        BY <2>1, <2>5 DEF KafkaInv, ClientShape
      <4>3. Told(c, heard'[c]) /\ Told(c, items'[c])
        BY <2>2, <2>4, <4>1, <4>2, NoEntries DEF Told
      <4>4. Told(c, heard[c])' /\ Told(c, items[c])'
        BY <1>0, <4>3 DEF Told
      <4>5. Rising(heard'[c]) /\ Rising(items'[c])
        BY <2>4, <4>1, <4>2, NoEntries DEF Rising
      <4>6. DOMAIN items'[c] = {}
        BY <4>1, NoEntries
      <4>7. QED
        BY <3>2, <4>1, <4>4, <4>5, <4>6 DEF InOrder, Rising
    <3>3. QED
      BY <3>1, <3>2
  <2>8. QED
    BY <1>1, <1>2, <2>6, <2>7 DEF AnswerInv
<1>8. CASE Yield(c)
  <2> DEFINE h == Head(items[c])
             t == Tail(items[c])
             n == Len(heard[c])
             g == Append(heard[c], h)
  <2>1. /\ items[c] # <<>> /\ heard' = [heard EXCEPT ![c] = g]
        /\ items' = [items EXCEPT ![c] = t]
        /\ pc' = [pc EXCEPT ![c] = "top"]
        /\ UNCHANGED <<outcome, streams>>
    BY <1>8 DEF Yield
  <2>2. /\ h = items[c][1] /\ t \in Seq(Nat \ {0}) /\ 1 \in DOMAIN items[c]
        /\ h \in Nat
        /\ \A j \in DOMAIN t : /\ j \in Nat /\ j + 1 \in DOMAIN items[c] /\ 1 < j + 1
                               /\ t[j] = items[c][j + 1]
    BY <1>3, <2>1
  <2>3. /\ n \in Nat /\ DOMAIN heard[c] = 1..n /\ DOMAIN g = 1..(n + 1)
        /\ \A j \in 1..(n + 1) : g[j] = IF j = n + 1 THEN h ELSE heard[c][j]
    BY <1>3, <2>2
  <2> HIDE DEF h, t, n, g
  <2>4. \A d \in Call : ResultSaid(d)'
    BY <1>0, <2>1 DEF AnswerInv, ResultSaid
  <2>5. ASSUME NEW d \in Call PROVE InOrder(d)'
    <3>1. CASE d # c
      BY <1>0, <2>1, <3>1 DEF AnswerInv, InOrder, Told, Rising, Early, KafkaInv, ClientShape
    <3>2. CASE d = c
      <4>1. heard'[c] = g /\ items'[c] = t /\ ~Early(c)'
        BY <2>1 DEF Early, KafkaInv, ClientShape
      <4>2. Told(c, heard[c]) /\ Told(c, items[c]) /\ Rising(heard[c]) /\ Rising(items[c])
        BY <1>3 DEF InOrder
      <4>3. \A j \in 1..n : heard[c][j] < h
        BY <1>3, <2>2, <2>3 DEF InOrder
      <4>4. Told(c, g)
        BY <2>2, <2>3, <4>2 DEF Told
      <4>5. Told(c, t)
        BY <2>2, <4>2 DEF Told
      <4>6. Rising(g)
        <5> SUFFICES ASSUME NEW j \in DOMAIN g, NEW k \in DOMAIN g, j < k PROVE g[j] < g[k]
          BY DEF Rising
        <5>1. CASE k = n + 1
          BY <2>3, <4>3, <5>1
        <5>2. CASE k # n + 1
          BY <2>3, <4>2, <5>2 DEF Rising
        <5>3. QED
          BY <5>1, <5>2
      <4>7. \A j \in DOMAIN t : h < t[j]
        BY <2>2, <4>2 DEF Rising
      <4>8. Rising(t)
        <5> SUFFICES ASSUME NEW j \in DOMAIN t, NEW k \in DOMAIN t, j < k PROVE t[j] < t[k]
          BY DEF Rising
        <5>1. j + 1 < k + 1
          BY <2>2
        <5>2. QED
          BY <2>2, <4>2, <5>1 DEF Rising
      <4>9. \A j \in DOMAIN g, k \in DOMAIN t : g[j] < t[k]
        <5> SUFFICES ASSUME NEW j \in DOMAIN g, NEW k \in DOMAIN t PROVE g[j] < t[k]
          OBVIOUS
        <5>1. CASE j = n + 1
          BY <2>3, <4>7, <5>1
        <5>2. CASE j # n + 1
          <6>1. g[j] = heard[c][j] /\ j \in DOMAIN heard[c]
            BY <2>3, <5>2
          <6>2. heard[c][j] < items[c][k + 1]
            BY <1>3, <2>2, <6>1 DEF InOrder
          <6>3. QED
            BY <2>2, <6>1, <6>2
        <5>3. QED
          BY <5>1, <5>2
      <4>10. ASSUME NEW k \in DOMAIN replies, read < k, replies[k].call = c
             PROVE  /\ \A j \in DOMAIN t : t[j] < replies[k].i
                    /\ c \in streams => \A j \in DOMAIN g : g[j] < replies[k].i
        <5>1. /\ \A j \in DOMAIN items[c] : items[c][j] < replies[k].i
              /\ c \in streams => \A j \in DOMAIN heard[c] : heard[c][j] < replies[k].i
          BY <1>3, <4>10 DEF InOrder
        <5>2. \A j \in DOMAIN t : t[j] < replies[k].i
          BY <2>2, <5>1
        <5>3. h < replies[k].i
          BY <2>2, <5>1
        <5>4. ASSUME c \in streams, NEW j \in DOMAIN g PROVE g[j] < replies[k].i
          <6>1. CASE j = n + 1
            BY <2>3, <5>3, <6>1
          <6>2. CASE j # n + 1
            BY <2>3, <5>1, <5>4, <6>2
          <6>3. QED
            BY <6>1, <6>2
        <5>5. QED
          BY <5>2, <5>4
      <4>11. Told(c, heard[c])' /\ Told(c, items[c])' /\ Rising(heard[c])' /\ Rising(items[c])'
        BY <1>0, <4>1, <4>4, <4>5, <4>6, <4>8 DEF Told, Rising
      <4>12. QED
        BY <1>0, <2>1, <3>2, <4>1, <4>9, <4>10, <4>11 DEF InOrder
    <3>3. QED
      BY <3>1, <3>2
  <2>6. QED
    BY <1>1, <1>2, <2>4, <2>5 DEF AnswerInv
<1>9. QED
  BY <1>5, <1>6, <1>7, <1>8 DEF CallerStep

\* A reply goes to the call it names, and it was said after all that the
\* caller heard and all that is queued for it.
LEMMA ClientKeepsAnswers ==
  ASSUME KafkaInv, KafkaInv', AnswerInv, ReadReply \/ StopClient \/ CancelAll
  PROVE  AnswerInv'
<1>1. CASE ReadReply
  <2> DEFINE m == replies[read + 1]
  <2>1. read + 1 \in DOMAIN replies /\ m \in Replies /\ read \in Nat
    BY <1>1 DEF ReadReply, KafkaInv, ServerShape
  <2>2. m.call \in Call /\ m.i \in Nat \ {0} /\ m \in Answers
    BY <2>1 DEF Replies, Answers
  <2>3. m.i \in DOMAIN said[m.call] /\ said[m.call][m.i] = m.what
    BY <2>1 DEF AnswerInv, RepliesSaid
  <2>4. \A k \in DOMAIN replies : read + 1 < k /\ replies[k].call = m.call => m.i < replies[k].i
    BY <2>1 DEF AnswerInv, RepliesSaid
  <2>5. /\ \A j \in DOMAIN items[m.call] : items[m.call][j] < m.i
        /\ m.call \in streams => \A j \in DOMAIN heard[m.call] : heard[m.call][j] < m.i
    <3>1. read < read + 1
      BY <2>1
    <3>2. QED
      BY <2>1, <2>2, <3>1 DEF AnswerInv, InOrder
  <2>6. /\ UNCHANGED <<callVars, said, replies>> /\ read' = read + 1
        /\ read <= read'
    BY <1>1, <2>1 DEF ReadReply
  <2> HIDE DEF m
  <2>7. \A d \in Call : Early(d)' => Early(d)
    BY <2>6 DEF Early, callVars
  <2>8. \A d \in Call : outcome'[d] = "result" => outcome[d] = "result"
    BY <2>6 DEF callVars
  <2>10. ASSUME UNCHANGED items, streams' \subseteq streams,
                future' \in {future, Resolved(m.call, m)}
         PROVE  AnswerInv'
    <3>1. \A d \in Call : FutureSaid(d)'
      <4>1. CASE future' = future
        BY <2>6, <4>1 DEF AnswerInv, FutureSaid
      <4>2. CASE future' = Resolved(m.call, m)
        <5>1. /\ future'[m.call][1] = m \/ future'[m.call] = future[m.call]
              /\ \A d \in Call : d # m.call => future'[d] = future[d]
          BY <2>2, <4>2, ResolvedIs DEF KafkaInv
        <5>2. ASSUME NEW d \in Call, d = m.call PROVE FutureSaid(d)'
          BY <2>3, <2>6, <5>1, <5>2 DEF AnswerInv, FutureSaid
        <5>3. ASSUME NEW d \in Call, d # m.call PROVE FutureSaid(d)'
          <6>1. FutureSaid(d) /\ future'[d] = future[d]
            BY <5>1, <5>3 DEF AnswerInv
          <6>2. QED
            BY <2>6, <6>1 DEF FutureSaid
        <5>4. QED
          BY <5>2, <5>3
      <4>3. QED
        BY <2>10, <4>1, <4>2
    <3>2. UNCHANGED heard
      BY <2>6 DEF callVars
    <3>3. QED
      BY <2>6, <2>7, <2>8, <2>10, <3>1, <3>2, QuietKeepsAnswers
  <2>11. CASE m.what \in {"event", "result"} /\ m.call \notin pending /\ m.call \in streams
              /\ Complete(m)
    <3> DEFINE c == m.call
               n == Len(items[c])
               g == Append(items[c], m.i)
    <3>1. /\ items' = [items EXCEPT ![c] = g]
          /\ UNCHANGED <<pending, future, streams, ending>>
      BY <2>11 DEF Complete
    <3>2. /\ n \in Nat /\ DOMAIN items[c] = 1..n /\ DOMAIN g = 1..(n + 1)
          /\ \A j \in 1..(n + 1) : g[j] = IF j = n + 1 THEN m.i ELSE items[c][j]
          /\ \A j \in 1..n : items[c][j] \in Nat
      BY <2>2 DEF KafkaInv, ClientShape
    <3>3. InOrder(c) /\ c \in Call /\ m.i \in Nat
      BY <2>2 DEF AnswerInv
    <3>4. /\ \A j \in DOMAIN items[c] : items[c][j] < m.i
          /\ \A j \in DOMAIN heard[c] : heard[c][j] < m.i
      BY <2>5, <2>11
    <3>5. m.i \in DOMAIN said[c] /\ said[c][m.i] \in {"event", "result"}
      BY <2>3, <2>11
    <3>6. \A k \in DOMAIN replies : read + 1 < k /\ replies[k].call = c => m.i < replies[k].i
      BY <2>4
    <3>7. c \in streams
      BY <2>11
    <3> HIDE DEF c, n, g
    <3>8. UNCHANGED <<method, pc, outcome, heard>>
      BY <2>6 DEF callVars
    <3>9. RepliesSaid' /\ \A d \in Call : FutureSaid(d)' /\ ResultSaid(d)'
      BY <2>6, <3>1, <3>8 DEF AnswerInv, RepliesSaid, FutureSaid, ResultSaid
    <3>10. ASSUME NEW d \in Call PROVE InOrder(d)'
      <4>1. CASE d # c
        <5>1. items'[d] = items[d]
          BY <3>1, <4>1 DEF KafkaInv, ClientShape
        <5>2. \A k : read' < k => (k \in DOMAIN replies => read < k)
          BY <2>1, <2>6 DEF KafkaInv, ServerShape
        <5>3. QED
          BY <2>6, <3>1, <3>8, <5>1, <5>2 DEF AnswerInv, InOrder, Told, Rising, Early
      <4>2. CASE d = c
        <5>1. items'[c] = g
          BY <3>1, <3>3 DEF KafkaInv, ClientShape
        <5>2. Told(c, heard[c]) /\ Told(c, items[c]) /\ Rising(heard[c]) /\ Rising(items[c])
          BY <3>3 DEF InOrder
        <5>3. Told(c, g)
          BY <3>2, <3>5, <5>2 DEF Told
        <5>4. Rising(g)
          BY <3>2, <3>4, <5>2 DEF Rising
        <5>5. \A j \in DOMAIN heard[c], k \in DOMAIN g : heard[c][j] < g[k]
          BY <3>2, <3>3, <3>4 DEF InOrder
        <5>6. ASSUME NEW k \in DOMAIN replies, read' < k, replies[k].call = c
              PROVE  /\ \A j \in DOMAIN g : g[j] < replies[k].i
                     /\ \A j \in DOMAIN heard[c] : heard[c][j] < replies[k].i
          <6>1. m.i < replies[k].i
            BY <2>6, <3>6, <5>6
          <6>2. read < k
            BY <2>1, <2>6, <5>6 DEF KafkaInv, ServerShape
          <6>3. QED
            BY <3>2, <3>3, <3>7, <5>6, <6>1, <6>2 DEF InOrder
        <5>7. ~Early(c)
          BY <3>3, <3>7 DEF Early, KafkaInv, RegistryExact, InLoop, CallerInv
        <5>8. QED
          BY <2>6, <3>8, <4>2, <5>1, <5>2, <5>3, <5>4, <5>5, <5>6, <5>7
             DEF InOrder, Told, Rising, Early
      <4>3. QED
        BY <4>1, <4>2
    <3>11. QED
      BY <3>9, <3>10 DEF AnswerInv
  <2>12. QED
    <3>1. CASE CompleteStreaming(m)
      BY <2>10, <3>1 DEF CompleteStreaming
    <3>2. CASE CompleteWithException(m)
      BY <2>10, <3>2 DEF CompleteWithException
    <3>3. CASE Complete(m) /\ (m.call \in pending \/ m.call \notin streams)
      BY <2>10, <3>3 DEF Complete
    <3>4. CASE UNCHANGED registryVars
      BY <2>10, <3>4 DEF registryVars
    <3>5. QED
      BY <1>1, <2>11, <3>1, <3>2, <3>3, <3>4 DEF ReadReply, m
<1>2. CASE StopClient \/ CancelAll
  <2>1. UNCHANGED <<said, replies, heard, items, read, outcome, pc>> /\ streams' \subseteq streams
    BY <1>2 DEF StopClient, CancelAll, callVars, registryVars
  <2>2. \A d \in Call : future'[d] \in {future[d], <<Reply(d, 1, "cancelled")>>}
    BY <1>2 DEF StopClient, CancelAll, registryVars
  <2>3. ASSUME NEW d \in Call PROVE FutureSaid(d)'
    <3>1. CASE future'[d] = future[d]
      BY <2>1, <3>1 DEF AnswerInv, FutureSaid
    <3>2. CASE future'[d] = <<Reply(d, 1, "cancelled")>>
      <4>1. future'[d][1].what = "cancelled"
        BY <3>2 DEF Reply
      <4>2. QED
        BY <4>1 DEF FutureSaid
    <3>3. QED
      BY <2>2, <3>1, <3>2
  <2>4. read <= read'
    BY <2>1 DEF KafkaInv, ServerShape
  <2>5. \A d \in Call : Early(d)' => Early(d)
    BY <2>1 DEF Early
  <2>6. QED
    BY <2>1, <2>3, <2>4, <2>5, QuietKeepsAnswers
<1>3. QED
  BY <1>1, <1>2

\* What is said now comes after all that was said before.
LEMMA SayingKeepsAnswers ==
  ASSUME KafkaInv, KafkaInv', AnswerInv, UNCHANGED clientVars,
         serving \in Call, NEW what \in Said, Says(what)
  PROVE  AnswerInv'
<1> DEFINE n == Len(said[serving])
           m == Reply(serving, n + 1, what)
           l == Len(replies)
           longer == Append(said[serving], what)
<1>1. /\ said[serving] \in Seq(Said) /\ n \in Nat /\ DOMAIN said[serving] = 1..n
      /\ replies \in Seq(Replies) /\ l \in Nat /\ DOMAIN replies = 1..l /\ read \in 0..l
  <2>1. said \in [Call -> Seq(Said)] /\ replies \in Seq(Replies) /\ read \in 0..Len(replies)
    BY DEF KafkaInv, ServerShape
  <2>2. QED
    BY <2>1
<1>2. m \in Replies /\ m.call = serving /\ m.i = n + 1 /\ m.what = what
  <2>1. n + 1 \in Nat \ {0}
    BY <1>1
  <2>2. QED
    BY <2>1 DEF Reply, Replies
<1>3. /\ said' = [said EXCEPT ![serving] = longer]
      /\ replies' \in {replies, Append(replies, m)}
  BY DEF Says
<1>4. DOMAIN longer = 1..(n + 1) /\ longer[n + 1] = what
      /\ \A i \in 1..n : longer[i] = said[serving][i]
  BY <1>1
<1>5. /\ DOMAIN Append(replies, m) = 1..(l + 1)
      /\ Append(replies, m)[l + 1] = m
      /\ \A k \in 1..l : Append(replies, m)[k] = replies[k]
  <2>1. /\ Len(Append(replies, m)) = l + 1
        /\ DOMAIN Append(replies, m) = 1..Len(Append(replies, m))
    BY <1>1, <1>2
  <2>2. \A k \in 1..(l + 1) :
           Append(replies, m)[k] = IF k = l + 1 THEN m ELSE replies[k]
    BY <1>1, <1>2
  <2>3. QED
    BY <1>1, <2>1, <2>2
<1> HIDE DEF n, m, l, longer
<1>3a. said \in [Call -> Seq(Said)]
  BY DEF KafkaInv, ServerShape
<1>3b. said'[serving] = longer /\ \A c \in Call \ {serving} : said'[c] = said[c]
  BY <1>3, <1>3a
<1>6. ASSUME NEW c \in Call, NEW i \in DOMAIN said[c]
      PROVE  i \in DOMAIN said'[c] /\ said'[c][i] = said[c][i]
  <2>1. CASE c = serving
    <3>1. i \in 1..n
      BY <1>1, <1>6, <2>1
    <3>2. i \in 1..(n + 1)
      BY <1>1, <3>1
    <3>3. QED
      BY <1>4, <1>3b, <2>1, <3>1, <3>2
  <2>2. CASE c # serving
    BY <1>6, <1>3b, <2>2
  <2>3. QED
    BY <2>1, <2>2
<1>7. n + 1 \in DOMAIN said'[serving] /\ said'[serving][n + 1] = what
  <2>1. n + 1 \in 1..(n + 1)
    BY <1>1
  <2>2. QED
    BY <1>4, <1>3b, <2>1
<1>8. \A k \in 1..l : /\ replies[k].call \in Call /\ replies[k].i \in Nat
                      /\ replies[k].i \in DOMAIN said[replies[k].call]
                      /\ said[replies[k].call][replies[k].i] = replies[k].what
  <2>1. \A k \in 1..l : replies[k] \in Replies
    BY <1>1
  <2>2. \A k \in 1..l : replies[k].call \in Call /\ replies[k].i \in Nat
    BY <2>1 DEF Replies
  <2>3. QED
    BY <1>1, <2>2 DEF AnswerInv, RepliesSaid
<1>9. \A k \in DOMAIN replies' : \/ k \in 1..l /\ replies'[k] = replies[k]
                                 \/ k = l + 1 /\ replies'[k] = m
  <2>1. CASE replies' = replies
    BY <1>1, <2>1
  <2>2. CASE replies' = Append(replies, m)
    <3>1. DOMAIN replies' = 1..(l + 1)
      BY <1>5, <2>2
    <3>2. QED
      BY <1>1, <1>5, <2>2, <3>1
  <2>3. QED
    BY <1>3, <2>1, <2>2
<1>10. RepliesSaid'
  <2>1. ASSUME NEW k \in DOMAIN replies'
        PROVE  /\ replies'[k].i \in DOMAIN said'[replies'[k].call]
               /\ said'[replies'[k].call][replies'[k].i] = replies'[k].what
    BY <1>2, <1>6, <1>7, <1>8, <1>9
  <2>2. ASSUME NEW j \in DOMAIN replies', NEW k \in DOMAIN replies', j < k,
               replies'[j].call = replies'[k].call
        PROVE  replies'[j].i < replies'[k].i
    <3>1. j \in 1..l /\ replies'[j] = replies[j]
      BY <1>1, <1>9, <2>2
    <3>2. CASE k \in 1..l /\ replies'[k] = replies[k]
      BY <1>1, <2>2, <3>1, <3>2 DEF AnswerInv, RepliesSaid
    <3>3. CASE replies'[k] = m
      BY <1>1, <1>2, <1>8, <2>2, <3>1, <3>3
    <3>4. QED
      BY <1>9, <3>2, <3>3
  <2>3. QED
    BY <2>1, <2>2 DEF RepliesSaid
<1>11. UNCHANGED <<method, pc, outcome, heard, streams, items, future, read>>
  BY DEF clientVars, callVars, registryVars
<1>12. ASSUME NEW c \in Call PROVE FutureSaid(c)' /\ ResultSaid(c)'
  BY <1>6, <1>11 DEF AnswerInv, FutureSaid, ResultSaid
<1>13. ASSUME NEW c \in Call PROVE InOrder(c)'
  <2>1. InOrder(c) /\ heard[c] \in Seq(Nat \ {0}) /\ items[c] \in Seq(Nat \ {0})
    BY DEF AnswerInv, KafkaInv, ClientShape
  <2>2. Told(c, heard[c])' /\ Told(c, items[c])'
    BY <1>6, <1>11, <2>1 DEF InOrder, Told
  <2>3. Rising(heard[c])' /\ Rising(items[c])'
    BY <1>11, <2>1 DEF InOrder, Rising
  <2>4. ASSUME NEW k \in DOMAIN replies', read < k, replies'[k].call = c
        PROVE  /\ \A j \in DOMAIN items[c] : items[c][j] < replies'[k].i
               /\ c \in streams => \A j \in DOMAIN heard[c] : heard[c][j] < replies'[k].i
    <3>1. CASE k \in 1..l /\ replies'[k] = replies[k]
      BY <1>1, <2>1, <2>4, <3>1 DEF InOrder
    <3>2. CASE replies'[k] = m
      <4>1. c = serving /\ replies'[k].i = n + 1
        BY <1>2, <2>4, <3>2
      <4>2. /\ \A j \in DOMAIN items[c] : items[c][j] \in 1..n
            /\ \A j \in DOMAIN heard[c] : heard[c][j] \in 1..n
        BY <1>1, <2>1, <4>1 DEF InOrder, Told
      <4>3. QED
        BY <1>1, <4>1, <4>2
    <3>3. QED
      BY <1>9, <3>1, <3>2
  <2>5. QED
    BY <1>11, <2>1, <2>2, <2>3, <2>4 DEF InOrder, Early
<1>14. QED
  BY <1>10, <1>12, <1>13 DEF AnswerInv

\* What the server does keeps the answers in order.
LEMMA ServerKeepsAnswers ==
  ASSUME KafkaInv, KafkaInv', AnswerInv, ServerStep \/ ServerEnds
  PROVE  AnswerInv'
<1>1. UNCHANGED clientVars
  BY DEF ServerStep, Receive, Emit, Finish, ServerStarts, ServerEnds
<1>2. CASE Emit \/ Finish
  <2>1. PICK what \in Said : serving # None /\ Says(what)
    BY <1>2 DEF Emit, Finish, Said, Last
  <2>2. serving \in Call
    BY <2>1 DEF KafkaInv, ServerShape
  <2>3. QED
    BY <1>1, <2>1, <2>2, SayingKeepsAnswers
<1>3. CASE Receive \/ ServerStarts \/ ServerEnds
  <2>1. UNCHANGED <<said, replies>>
    BY <1>3 DEF Receive, ServerStarts, ServerEnds
  <2>2. \A c \in Call : FutureSaid(c)'
    BY <1>1, <2>1 DEF AnswerInv, FutureSaid, clientVars, registryVars
  <2>3. read <= read'
    BY <1>1 DEF KafkaInv, ServerShape, clientVars
  <2>4. QED
    BY <1>1, <2>1, <2>2, <2>3, QuietKeepsAnswers DEF clientVars, callVars, registryVars, Early
<1>4. QED
  BY <1>2, <1>3 DEF ServerStep

\* Every step keeps the answers in order.
LEMMA StepKeepsAnswers ==
  KafkaInv /\ KafkaInv' /\ AnswerInv /\ [KafkaNext]_kafkaVars => AnswerInv'
<1> SUFFICES ASSUME KafkaInv, KafkaInv', AnswerInv, [KafkaNext]_kafkaVars PROVE AnswerInv'
  OBVIOUS
<1>1. CASE UNCHANGED kafkaVars
  BY <1>1 DEF kafkaVars, clientVars, callVars, registryVars, AnswerInv, RepliesSaid, FutureSaid,
              ResultSaid, InOrder, Told, Rising, Early
<1>2. ASSUME NEW c \in Call, Send(c) \/ SendFails(c) \/ CallerStep(c) \/ CallerLeaves(c)
      PROVE  AnswerInv'
  BY <1>2, CallerKeepsAnswers
<1>3. CASE ReadReply \/ StopClient \/ CancelAll
  BY <1>3, ClientKeepsAnswers
<1>4. CASE ServerStep \/ ServerEnds
  BY <1>4, ServerKeepsAnswers
<1>5. QED
  BY <1>1, <1>2, <1>3, <1>4 DEF KafkaNext

\* The answers are always in order.
LEMMA AnswersHold == KafkaSpec => []AnswerInv
BY InvHolds, AnswerInvInit, StepKeepsAnswers, PTL DEF KafkaSpec

\* What callers get is what the server said about their own call, each reply
\* once and in the order in which it was said, however the request topic is
\* replayed after restarts and whatever the caller, the reader of the replies
\* and the stop of the transport do in between.
THEOREM AnswersAreTrue == KafkaSpec => []AnswersAreReplies
<1>1. AnswerInv => AnswersAreReplies
  BY DEF AnswerInv, ResultSaid, InOrder, Told, Rising, AnswersAreReplies
<1>2. QED
  BY <1>1, AnswersHold, PTL

-----------------------------------------------------------------------------
(* The transport implements Rpc when the server is never restarted.        *)

Unended(c) == \A i \in DOMAIN said[c] : said[c][i] \notin Last

\* A call makes at most one request, the server has said nothing about those
\* it has not come to, and no end of the one it is handling.
OnceInv ==
  /\ server = "up"
  /\ \A j, k \in DOMAIN requests : requests[j] = requests[k] => j = k
  /\ \A k \in DOMAIN requests : pc[requests[k]] # "idle"
  /\ \A k \in DOMAIN requests : position < k => said[requests[k]] = <<>>
  /\ \A c \in Call : pc[c] = "idle" => said[c] = <<>>
  /\ serving # None => /\ position \in DOMAIN requests /\ serving = requests[position]
                       /\ Unended(serving)

\* No request has been made to begin with.
LEMMA OnceInvInit == KafkaInit => OnceInv
BY NoEntries DEF KafkaInit, OnceInv

\* A caller makes its request once.
LEMMA CallerKeepsOnce ==
  ASSUME KafkaInv, OnceInv, NEW c \in Call,
         Send(c) \/ SendFails(c) \/ CallerStep(c) \/ CallerLeaves(c)
  PROVE  OnceInv'
<1> DEFINE n == Len(requests)
           r == Append(requests, c)
<1>1. /\ UNCHANGED <<said, server, serving, position>>
      /\ \/ requests' = requests
         \/ requests' = r /\ pc[c] = "idle" /\ pc'[c] # "idle"
      /\ \A d \in Call : pc'[d] = "idle" <=> pc[d] = "idle" /\ d # c
  BY DEF Send, SendFails, CallerStep, Register, Answered, TimesOut, Look, EnterGet, Yield,
         LooksAgain, CallerLeaves, Ends, serverVars, KafkaInv, ClientShape
<1>2. /\ n \in Nat /\ position \in 0..n /\ DOMAIN requests = 1..n /\ DOMAIN r = 1..(n + 1)
      /\ \A k \in 1..n : requests[k] \in Call /\ r[k] = requests[k]
      /\ r[n + 1] = c
  BY DEF KafkaInv, ServerShape
<1> HIDE DEF n, r
<1>3. CASE requests' = requests
  BY <1>1, <1>2, <1>3 DEF OnceInv, Unended
<1>4. CASE requests' = r /\ pc[c] = "idle" /\ pc'[c] # "idle"
  <2>1. \A k \in 1..n : requests[k] # c
    BY <1>2, <1>4 DEF OnceInv
  <2>2. \A j, k \in DOMAIN requests' : requests'[j] = requests'[k] => j = k
    BY <1>2, <1>4, <2>1 DEF OnceInv
  <2>3. \A k \in DOMAIN requests' : pc'[requests'[k]] # "idle"
    BY <1>1, <1>2, <1>4, <2>1 DEF OnceInv
  <2>4. \A k \in DOMAIN requests' : position' < k => said'[requests'[k]] = <<>>
    BY <1>1, <1>2, <1>4 DEF OnceInv
  <2>5. serving' # None => /\ position' \in DOMAIN requests' /\ serving' = requests'[position']
                           /\ Unended(serving)'
    BY <1>1, <1>2, <1>4 DEF OnceInv, Unended
  <2>6. QED
    BY <1>1, <2>2, <2>3, <2>4, <2>5 DEF OnceInv
<1>5. QED
  BY <1>1, <1>3, <1>4

\* The request that the server handles has been made and has not had its end.
LEMMA ServingInv ==
  ASSUME KafkaInv, OnceInv, serving # None
  PROVE  /\ serving \in Call /\ pc[serving] # "idle" /\ Unended(serving)
         /\ \A k \in DOMAIN requests : position < k => requests[k] # serving
BY DEF KafkaInv, ServerShape, OnceInv

\* Without restarts no request is handled twice.
LEMMA StepKeepsOnce ==
  ASSUME MaxRestarts = 0
  PROVE  KafkaInv /\ OnceInv /\ [KafkaNext]_kafkaVars => OnceInv'
<1> SUFFICES ASSUME KafkaInv, OnceInv, [KafkaNext]_kafkaVars PROVE OnceInv'
  OBVIOUS
<1> USE DEF OnceInv, Unended
<1>1. CASE UNCHANGED kafkaVars
  BY <1>1 DEF kafkaVars, clientVars, callVars, serverVars
<1>2. ASSUME NEW c \in Call, Send(c) \/ SendFails(c) \/ CallerStep(c) \/ CallerLeaves(c)
      PROVE  OnceInv'
  BY <1>2, CallerKeepsOnce
<1>3. CASE ReadReply \/ StopClient \/ CancelAll
  BY <1>3 DEF ReadReply, StopClient, CancelAll, callVars, serverVars
<1>4. CASE Receive
  <2>1. position + 1 \in DOMAIN requests /\ position \in Nat /\ position' = position + 1
    BY <1>4 DEF Receive, KafkaInv, ServerShape
  <2>2. UNCHANGED <<requests, pc, said, server>> /\ serving' = requests[position + 1]
    BY <1>4 DEF Receive, clientVars, callVars
  <2>3. said[requests[position + 1]] = <<>>
    BY <2>1
  <2>4. \A k \in DOMAIN requests : position + 1 < k => position < k
    BY <2>1 DEF KafkaInv, ServerShape
  <2>5. QED
    BY <2>1, <2>2, <2>3, <2>4, NoEntries
<1>5. CASE Emit \/ Finish
  <2>1. /\ serving \in Call /\ pc[serving] # "idle" /\ Unended(serving)
        /\ \A k \in DOMAIN requests : position < k => requests[k] # serving
    BY <1>5, ServingInv DEF Emit, Finish
  <2>2. UNCHANGED <<requests, pc, position, server>>
    BY <1>5 DEF Emit, Finish, clientVars, callVars
  <2>3. PICK what \in Said : /\ said' = [said EXCEPT ![serving] = Append(@, what)]
                             /\ serving' = None \/ (serving' = serving /\ what = "event")
    BY <1>5 DEF Emit, Finish, Says, Said, Last
  <2>4. \A d \in Call : d # serving => said'[d] = said[d]
    BY <2>3 DEF KafkaInv, ServerShape
  <2>5. \A k \in DOMAIN requests : requests[k] \in Call
    BY DEF KafkaInv, ServerShape
  <2>6. ASSUME serving' # None
        PROVE  Unended(serving)' /\ serving' = serving
    <3>1. serving' = serving /\ what = "event"
      BY <2>3, <2>6
    <3>2. said[serving] \in Seq(Said) /\ said'[serving] = Append(said[serving], what)
      BY <2>1, <2>3 DEF KafkaInv, ServerShape
    <3>3. \A i \in DOMAIN said'[serving] :
            \/ i \in DOMAIN said[serving] /\ said'[serving][i] = said[serving][i]
            \/ said'[serving][i] = what
      BY <3>2
    <3>4. QED
      BY <2>1, <3>1, <3>3 DEF Last
  <2>7. QED
    BY <2>1, <2>2, <2>3, <2>4, <2>5, <2>6
<1>6. CASE ServerStarts \/ ServerEnds
  BY <1>6 DEF ServerStarts, ServerEnds, KafkaInv, ServerShape
<1>7. QED
  BY <1>1, <1>2, <1>3, <1>4, <1>5, <1>6 DEF KafkaNext, ServerStep

\* Of each call: where the abstract specification sees it.
Stage(c) == CASE pc[c] = "idle" -> "idle" [] pc[c] = "ended" -> "over" [] OTHER -> "asked"

\* Stage by cases, in a state and in the next.
LEMMA Stages ==
  /\ \A c \in Call : Stage(c) = IF pc[c] = "idle" THEN "idle"
                                ELSE IF pc[c] = "ended" THEN "over" ELSE "asked"
  /\ \A c \in Call : Stage(c)' = IF pc'[c] = "idle" THEN "idle"
                                 ELSE IF pc'[c] = "ended" THEN "over" ELSE "asked"
BY DEF Stage

\* A step of the transport that moves one call and says and hears nothing is
\* that call being asked or left, or no step of Rpc at all.
LEMMA MovesRefine ==
  ASSUME KafkaInv, NEW c \in Call, NEW at, UNCHANGED <<said, heard>>,
         pc' = [pc EXCEPT ![c] = at], at # "idle",
         pc[c] # "ended", pc[c] # "idle" \/ at \in {"sent", "ended"}
  PROVE  [Abstract!Next]_(Abstract!rpcVars)
<1>1. \A d \in Call : d # c => pc'[d] = pc[d]
  BY DEF KafkaInv, ClientShape
<1>2. pc'[c] = at
  BY DEF KafkaInv, ClientShape
<1>3. \A d \in Call : d # c => Stage(d)' = Stage(d)
  BY <1>1, Stages
<1>4. CASE at = "ended"
  <2>1. Stage(c)' = "over" /\ Stage(c) # "over"
    BY <1>2, <1>4, Stages
  <2>2. Abstract!Leave(c)
    BY <1>3, <2>1 DEF Abstract!Leave, Stage
  <2>3. QED
    BY <2>2 DEF Abstract!Next
<1>5. CASE at # "ended" /\ pc[c] = "idle"
  <2>1. Stage(c)' = "asked" /\ Stage(c) = "idle"
    BY <1>2, <1>5, Stages
  <2>2. Abstract!Ask(c)
    BY <1>3, <2>1 DEF Abstract!Ask, Stage
  <2>3. QED
    BY <2>2 DEF Abstract!Next
<1>6. CASE at # "ended" /\ pc[c] # "idle"
  <2>1. Stage(c)' = Stage(c)
    BY <1>2, <1>6, Stages
  <2>2. UNCHANGED Abstract!rpcVars
    BY <1>3, <2>1 DEF Abstract!rpcVars, Stage
  <2>3. QED
    BY <2>2
<1>7. QED
  BY <1>4, <1>5, <1>6

\* What a caller hears next was said about its call and comes after all that
\* it heard.
LEMMA HearRefines ==
  ASSUME KafkaInv, NEW c \in Call, NEW i \in DOMAIN said[c], NEW at, UNCHANGED said,
         pc[c] \notin {"idle", "ended"}, at # "idle",
         pc' = [pc EXCEPT ![c] = at],
         heard' = [heard EXCEPT ![c] = Append(@, i)],
         \A j \in DOMAIN heard[c] : heard[c][j] < i
  PROVE  Abstract!Next
<1>1. \A d \in Call : d # c => pc'[d] = pc[d]
  BY DEF KafkaInv, ClientShape
<1>2. pc'[c] = at
  BY DEF KafkaInv, ClientShape
<1>3. \A d \in Call : d # c => Stage(d)' = Stage(d)
  BY <1>1, Stages
<1>4. Stage(c) = "asked" /\ Stage(c)' = IF at = "ended" THEN "over" ELSE "asked"
  BY <1>2, Stages
<1>5. i \in Abstract!Unheard(c)
  BY DEF Abstract!Unheard
<1>6. Abstract!Hear(c, i, at = "ended")
  BY <1>3, <1>4, <1>5 DEF Abstract!Hear, Stage
<1>7. QED
  BY <1>6 DEF Abstract!Next

\* The steps of a caller are steps of Rpc.
LEMMA CallerRefines ==
  ASSUME KafkaInv, AnswerInv, NEW c \in Call,
         Send(c) \/ SendFails(c) \/ CallerStep(c) \/ CallerLeaves(c)
  PROVE  [Abstract!Next]_(Abstract!rpcVars)
<1>1. UNCHANGED said
  BY DEF Send, SendFails, CallerStep, Register, Answered, TimesOut, Look, EnterGet, Yield,
         LooksAgain, CallerLeaves
<1>2. CASE Send(c)
  BY <1>1, <1>2, MovesRefine DEF Send
<1>3. CASE SendFails(c) \/ TimesOut(c) \/ CallerLeaves(c)
  <2>1. pc' = [pc EXCEPT ![c] = "ended"] /\ pc[c] # "ended" /\ UNCHANGED heard
    BY <1>3 DEF SendFails, TimesOut, CallerLeaves, Ends
  <2>2. QED
    BY <1>1, <2>1, MovesRefine
<1>4. CASE Register(c) \/ Look(c) \/ EnterGet(c) \/ LooksAgain(c)
  <2>1. PICK at \in {"waiting", "top", "enter", "get", "ended"} :
          pc' = [pc EXCEPT ![c] = at] /\ pc[c] \notin {"idle", "ended"} /\ UNCHANGED heard
    BY <1>4 DEF Register, Look, EnterGet, LooksAgain, Ends
  <2>2. QED
    BY <1>1, <2>1, MovesRefine
<1>5. CASE Answered(c)
  <2>1. pc' = [pc EXCEPT ![c] = "ended"] /\ pc[c] = "waiting"
    BY <1>5 DEF Answered, Ends
  <2>2. CASE future[c][1].what = "result"
    <3>1. /\ future[c][1].i \in DOMAIN said[c]
          /\ heard' = [heard EXCEPT ![c] = Append(@, future[c][1].i)]
      BY <1>5, <2>2 DEF Answered, AnswerInv, FutureSaid
    <3>2. heard[c] = <<>>
      BY <2>1 DEF AnswerInv, InOrder, Early
    <3>3. QED
      BY <1>1, <2>1, <3>1, <3>2, HearRefines, NoEntries
  <2>3. CASE future[c][1].what # "result"
    <3>1. UNCHANGED heard
      BY <1>5, <2>3 DEF Answered
    <3>2. QED
      BY <1>1, <2>1, <3>1, MovesRefine
  <2>4. QED
    BY <2>2, <2>3
<1>6. CASE Yield(c)
  <2>1. /\ pc' = [pc EXCEPT ![c] = "top"] /\ pc[c] = "get" /\ items[c] # <<>>
        /\ heard' = [heard EXCEPT ![c] = Append(@, Head(items[c]))]
    BY <1>6 DEF Yield
  <2>2. 1 \in DOMAIN items[c] /\ Head(items[c]) = items[c][1]
    BY <2>1 DEF KafkaInv, ClientShape
  <2>3. Head(items[c]) \in DOMAIN said[c] /\ \A j \in DOMAIN heard[c] : heard[c][j] < Head(items[c])
    BY <2>2 DEF AnswerInv, InOrder, Told
  <2>4. QED
    BY <1>1, <2>1, <2>3, HearRefines
<1>7. QED
  BY <1>2, <1>3, <1>4, <1>5, <1>6 DEF CallerStep

\* The server says one thing at a time, and nothing after the end.
LEMMA SayingRefines ==
  ASSUME KafkaInv, OnceInv, Emit \/ Finish
  PROVE  Abstract!Next
<1>1. serving \in Call /\ pc[serving] # "idle" /\ Unended(serving)
  BY ServingInv DEF Emit, Finish
<1>2. PICK what \in {"event"} \union Last :
        said' = [said EXCEPT ![serving] = Append(@, what)]
  BY DEF Emit, Finish, Says, Last
<1>3. UNCHANGED <<pc, heard>>
  BY DEF Emit, Finish, clientVars, callVars
<1>4. ~Abstract!Handled(serving)
  <2>1. said[serving] \in Seq(Said)
    BY <1>1 DEF KafkaInv, ServerShape
  <2>2. said[serving] # <<>> => Len(said[serving]) \in DOMAIN said[serving]
    BY <2>1
  <2>3. QED
    BY <1>1, <2>2 DEF Abstract!Handled, Unended
<1>5. Stage(serving) # "idle" /\ \A c \in Call : Stage(c)' = Stage(c)
  BY <1>1, <1>3, Stages
<1>6. Abstract!Say(serving, what)
  BY <1>1, <1>2, <1>3, <1>4, <1>5 DEF Abstract!Say, Stage
<1>7. QED
  BY <1>1, <1>2, <1>6 DEF Abstract!Next

\* Every step is a step of Rpc or a stutter.
LEMMA StepRefines ==
  KafkaInv /\ AnswerInv /\ OnceInv /\ [KafkaNext]_kafkaVars => [Abstract!Next]_(Abstract!rpcVars)
<1> SUFFICES ASSUME KafkaInv, AnswerInv, OnceInv, [KafkaNext]_kafkaVars
             PROVE  [Abstract!Next]_(Abstract!rpcVars)
  OBVIOUS
<1>1. ASSUME UNCHANGED <<pc, said, heard>> PROVE UNCHANGED Abstract!rpcVars
  BY <1>1, Stages DEF Abstract!rpcVars, Stage
<1>2. CASE UNCHANGED kafkaVars
  BY <1>1, <1>2 DEF kafkaVars, clientVars, callVars
<1>3. ASSUME NEW c \in Call, Send(c) \/ SendFails(c) \/ CallerStep(c) \/ CallerLeaves(c)
      PROVE  [Abstract!Next]_(Abstract!rpcVars)
  BY <1>3, CallerRefines
<1>4. CASE Emit \/ Finish
  BY <1>4, SayingRefines
<1>5. CASE ReadReply \/ StopClient \/ CancelAll \/ Receive \/ ServerStarts \/ ServerEnds
  BY <1>1, <1>5 DEF ReadReply, StopClient, CancelAll, Receive, ServerStarts, ServerEnds,
                    clientVars, callVars
<1>6. QED
  BY <1>2, <1>3, <1>4, <1>5 DEF KafkaNext, ServerStep

\* A server that is not restarted handles every request at most once, and the
\* transport is then an implementation of Rpc: a caller hears only what was
\* said about its call, in order, each thing once and not after it is over.
THEOREM TransportIsRpc ==
  ASSUME MaxRestarts = 0
  PROVE  KafkaSpec => IsRpc
<1>1. KafkaInit => Abstract!Init
  BY Stages DEF KafkaInit, Abstract!Init, Stage
<1>2. KafkaSpec => []OnceInv
  BY OnceInvInit, StepKeepsOnce, InvHolds, PTL DEF KafkaSpec
<1>3. QED
  BY <1>1, <1>2, InvHolds, AnswersHold, StepRefines, PTL DEF KafkaSpec, IsRpc, Abstract!Spec

-----------------------------------------------------------------------------
(* What is left of an end that is stopped, for any number of coroutines    *)
(* that stop it, of starts and of errors.                                  *)


Place == {Idle, "producer", "consumer", Waiting, Done} \union Stopping

LifeShape ==
  /\ running \in BOOLEAN /\ producer = starts
  /\ doing \in [Coroutine -> Place]

\* A start and a stop are never under way together.
StartsAlone ==
  doing["owner"] \in {"producer", "consumer"} =>
    ~running /\ \A p \in Coroutine : doing[p] \notin Stopping

\* The reader of an end that does not run is awaited by a stop.
ReaderAwaited ==
  ReaderAlive => running \/ \E p \in Coroutine : doing[p] = "joining"

\* Stops that are still to close the consumer, or the producer.
ClosesNextConsumer(p) ==
  doing[p] \in {"joining", "first"} \/ (use = "client" /\ doing[p] = "second")
ClosesNextProducer(p) ==
  doing[p] \in {"joining", "first"} \/ (use # "client" /\ doing[p] = "second")

\* What is connected is what the fields hold, and unless the end runs, or is being
\* started, a stop is still to close it.
ConsumerAwaited ==
  /\ consumers \ lostConsumers \subseteq {consumer}
  /\ consumers \ lostConsumers # {} => running \/ \E p \in Coroutine : ClosesNextConsumer(p)

ProducerAwaited ==
  /\ producers \ lostProducers \subseteq {producer}
  /\ producers \ lostProducers # {} =>
       running \/ doing["owner"] = "consumer" \/ \E p \in Coroutine : ClosesNextProducer(p)

LifeInv ==
  LifeShape /\ StartsAlone /\ ReaderAwaited /\ ConsumerAwaited /\ ProducerAwaited

\* Nothing was started.
LEMMA LifeInitInv == LifeInit => LifeInv
<1> SUFFICES ASSUME LifeInit PROVE LifeInv
  OBVIOUS
<1>1. LifeShape
  BY DEF LifeInit, LifeShape, Place
<1>2. StartsAlone /\ ReaderAwaited
  BY DEF LifeInit, StartsAlone, ReaderAwaited, ReaderAlive, Idle, Coroutine
<1>3. ConsumerAwaited /\ ProducerAwaited
  BY DEF LifeInit, ConsumerAwaited, ProducerAwaited
<1>4. QED
  BY <1>1, <1>2, <1>3 DEF LifeInv

\* stop() returns at once, or waits for the reader with everything still to close.
LEMMA StopsInv ==
  ASSUME LifeInv, NEW p \in Coroutine, Stops(p), doing[p] \notin Stopping,
         UNCHANGED <<use, starts, lostConsumers, producer, consumer, linkVars, reader>>,
         \/ lostProducers' = lostProducers /\ doing[p] \notin {"producer", "consumer"}
         \/ p = "owner" /\ doing[p] \in {"producer", "consumer"} /\ lostProducers' = lostProducers \union {starts}
  PROVE  LifeInv'
<1> USE DEF LifeInv, lostVars
<1>1. CASE running
  <2>1. /\ running' = FALSE /\ doing' = [doing EXCEPT ![p] = "joining"]
        /\ doing'[p] = "joining" /\ \A q \in Coroutine \ {p} : doing'[q] = doing[q]
    BY <1>1 DEF Stops, Goes, LifeShape
  <2>2. doing["owner"] \notin {"producer", "consumer"} /\ "owner" \in Coroutine
    BY <1>1 DEF StartsAlone, Coroutine
  <2>3. LifeShape'
    BY <2>1 DEF LifeShape, Place, Stopping
  <2>4. StartsAlone'
    BY <2>1, <2>2 DEF StartsAlone
  <2>5. ReaderAwaited'
    BY <2>1 DEF ReaderAwaited
  <2>6. ConsumerAwaited' /\ ProducerAwaited'
    BY <2>1, <2>2 DEF ConsumerAwaited, ProducerAwaited, ClosesNextConsumer, ClosesNextProducer,
                      linkVars
  <2>7. QED
    BY <2>3, <2>4, <2>5, <2>6
<1>2. CASE ~running
  <2>1. /\ running' = running /\ doing' = [doing EXCEPT ![p] = Stopped(p)]
        /\ doing'[p] \in {Idle, Done} /\ \A q \in Coroutine \ {p} : doing'[q] = doing[q]
    BY <1>2 DEF Stops, Goes, LifeShape, Stopped
  <2>2. LifeShape'
    BY <2>1 DEF LifeShape, Place
  <2>3. StartsAlone'
    BY <2>1 DEF StartsAlone, Stopping, Idle, Done
  <2>4. \A q \in Coroutine : doing[q] \in Stopping => doing'[q] = doing[q]
    BY <2>1
  <2>5. ReaderAwaited'
    BY <2>1, <2>4 DEF ReaderAwaited, ReaderAlive, Stopping
  <2>6. ConsumerAwaited'
    BY <2>1, <2>4 DEF ConsumerAwaited, ClosesNextConsumer, linkVars, Stopping
  <2>7. CASE lostProducers' = lostProducers /\ doing[p] \notin {"producer", "consumer"}
    <3>1. ProducerAwaited'
      BY <2>1, <2>4, <2>7 DEF ProducerAwaited, ClosesNextProducer, linkVars, Stopping, Coroutine
    <3>2. QED
      BY <2>2, <2>3, <2>5, <2>6, <3>1
  <2>8. CASE lostProducers' = lostProducers \union {starts}
    <3>1. ProducerAwaited'
      BY <2>8 DEF ProducerAwaited, LifeShape, linkVars
    <3>2. QED
      BY <2>2, <2>3, <2>5, <2>6, <3>1
  <2>9. QED
    BY <2>7, <2>8
<1>3. QED
  BY <1>1, <1>2 DEF LifeShape

\* The steps of a stop: what it has passed is over or closed.
LEMMA StopGoesInv ==
  ASSUME LifeInv, NEW p \in Coroutine, StopGoes(p)
  PROVE  LifeInv'
<1> USE DEF LifeInv, lostVars
<1>1. CASE Joins(p)
  <2>1. /\ doing[p] = "joining" /\ ~ReaderAlive /\ doing'[p] = "first"
        /\ \A q \in Coroutine \ {p} : doing'[q] = doing[q]
        /\ doing' = [doing EXCEPT ![p] = "first"]
        /\ UNCHANGED <<use, starts, lostVars, running, producer, consumer, producers, consumers,
                       reader>>
    BY <1>1 DEF Joins, Goes, LifeShape, fieldVars, linkVars, readerVars
  <2>2. LifeShape' /\ StartsAlone'
    BY <2>1 DEF LifeShape, StartsAlone, Place, Stopping
  <2>3. ReaderAwaited'
    BY <2>1 DEF ReaderAwaited, ReaderAlive
  <2>4. ConsumerAwaited' /\ ProducerAwaited'
    BY <2>1 DEF ConsumerAwaited, ProducerAwaited, ClosesNextConsumer, ClosesNextProducer
  <2>5. QED
    BY <2>2, <2>3, <2>4
<1>2. CASE Closes(p)
  <2>1. /\ doing[p] \in {"first", "second"}
        /\ doing' = [doing EXCEPT ![p] = IF doing[p] = "first" THEN "second" ELSE Stopped(p)]
        /\ doing'[p] = (IF doing[p] = "first" THEN "second" ELSE Stopped(p))
        /\ \A q \in Coroutine \ {p} : doing'[q] = doing[q]
        /\ UNCHANGED <<use, starts, lostProducers, lostConsumers, running, producer, consumer,
                       reader>>
    BY <1>2 DEF Closes, AtProducer, AtConsumer, Goes, LifeShape, fieldVars, readerVars, lostVars
  <2>2. Stopped(p) \in {Idle, Done}
    BY DEF Stopped
  <2>3. LifeShape' /\ StartsAlone'
    BY <2>1, <2>2 DEF LifeShape, StartsAlone, Place, Stopping, Idle, Done
  <2>4. ReaderAwaited'
    BY <2>1 DEF ReaderAwaited, ReaderAlive
  <2>5. CASE AtProducer(p) /\ ClosesProducer
    <3>1. ProducerAwaited'
      BY <2>1, <2>5 DEF ProducerAwaited, ClosesProducer
    <3>2. ConsumerAwaited'
      BY <2>1, <2>5 DEF ConsumerAwaited, ClosesProducer, ClosesNextConsumer, AtProducer
    <3>3. QED
      BY <2>3, <2>4, <3>1, <3>2
  <2>6. CASE AtConsumer(p) /\ ClosesConsumer
    <3>1. ConsumerAwaited'
      BY <2>1, <2>6 DEF ConsumerAwaited, ClosesConsumer
    <3>2. doing["owner"] = "consumer" => doing'["owner"] = "consumer"
      BY <2>1 DEF Coroutine
    <3>3. ProducerAwaited'
      BY <2>1, <2>6, <3>2 DEF ProducerAwaited, ClosesConsumer, ClosesNextProducer, AtConsumer
    <3>4. QED
      BY <2>3, <2>4, <3>1, <3>3
  <2>7. QED
    BY <1>2, <2>5, <2>6 DEF Closes
<1>3. QED
  BY <1>1, <1>2 DEF StopGoes

\* A stop that breaks off gives up what it had still to close.
LEMMA CloseFailsInv ==
  ASSUME LifeInv, NEW p \in Coroutine, CloseFails(p)
  PROVE  LifeInv'
<1> USE DEF LifeInv, lostVars
<1>1. /\ doing[p] \in {"first", "second"}
      /\ doing' = [doing EXCEPT ![p] = Stopped(p)]
      /\ doing'[p] = Stopped(p)
      /\ \A q \in Coroutine \ {p} : doing'[q] = doing[q]
      /\ producers' \subseteq producers /\ consumers' \subseteq consumers
      /\ UNCHANGED <<use, starts, running, producer, consumer, reader>>
  BY DEF CloseFails, AtProducer, AtConsumer, Goes, LifeShape, fieldVars, readerVars, linkVars,
         ClosesProducer, ClosesConsumer
<1>2. Stopped(p) \in {Idle, Done}
  BY DEF Stopped
<1>3. LifeShape' /\ StartsAlone'
  BY <1>1, <1>2 DEF LifeShape, StartsAlone, Place, Stopping, Idle, Done
<1>4. ReaderAwaited'
  BY <1>1 DEF ReaderAwaited, ReaderAlive
<1>5. doing["owner"] = "consumer" => doing'["owner"] = "consumer"
  BY <1>1 DEF Coroutine
<1>6. ProducerAwaited'
  <2>1. CASE AtProducer(p) \/ use # "client"
    <3>1. lostProducers' = lostProducers \union {producer}
      BY <2>1 DEF CloseFails
    <3>2. QED
      BY <1>1, <3>1 DEF ProducerAwaited
  <2>2. CASE ~(AtProducer(p) \/ use # "client")
    <3>1. lostProducers' = lostProducers /\ ~ClosesNextProducer(p)
      BY <1>1, <2>2 DEF CloseFails, AtProducer, ClosesNextProducer
    <3>2. QED
      BY <1>1, <1>5, <3>1 DEF ProducerAwaited, ClosesNextProducer
  <2>3. QED
    BY <2>1, <2>2
<1>7. ConsumerAwaited'
  <2>1. CASE AtConsumer(p) \/ use = "client"
    <3>1. lostConsumers' = lostConsumers \union {consumer}
      BY <2>1 DEF CloseFails
    <3>2. QED
      BY <1>1, <3>1 DEF ConsumerAwaited
  <2>2. CASE ~(AtConsumer(p) \/ use = "client")
    <3>1. lostConsumers' = lostConsumers /\ ~ClosesNextConsumer(p)
      BY <1>1, <2>2 DEF CloseFails, AtConsumer, ClosesNextConsumer
    <3>2. QED
      BY <1>1, <3>1 DEF ConsumerAwaited, ClosesNextConsumer
  <2>3. QED
    BY <2>1, <2>2
<1>8. QED
  BY <1>3, <1>4, <1>6, <1>7

\* The reader ends, or is closing and opening the consumer of an end that runs or
\* that a stop is still to close.
LEMMA ReaderInv ==
  ASSUME LifeInv, ReaderFails \/ ReaderGoes
  PROVE  LifeInv'
<1> USE DEF LifeInv, lostVars
<1>1. UNCHANGED <<use, starts, lostVars, running, producer, consumer, doing, producers>>
  BY DEF ReaderFails, ReaderGoes, ReaderWakes, ReaderCloses, ReaderReopens, ReaderCut, Unread,
         fieldVars, linkVars, ClosesConsumer
<1>2. ReaderAlive /\ consumers' \subseteq consumers \union {consumer}
  BY DEF ReaderFails, ReaderGoes, ReaderWakes, ReaderCloses, ReaderReopens, ReaderCut,
         linkVars, ClosesConsumer, ReaderAlive
<1>3. LifeShape' /\ StartsAlone' /\ ReaderAwaited'
  BY <1>1, <1>2 DEF LifeShape, StartsAlone, ReaderAwaited
<1>4. ConsumerAwaited'
  BY <1>1, <1>2 DEF ConsumerAwaited, ReaderAwaited, ClosesNextConsumer
<1>5. ProducerAwaited'
  BY <1>1 DEF ProducerAwaited, ClosesNextProducer
<1>6. QED
  BY <1>3, <1>4, <1>5

\* A start finds everything closed but what earlier starts and stops gave up.
LEMMA StartInv ==
  ASSUME LifeInv, StartCalled \/ ProducerStarts \/ ConsumerStarts
  PROVE  LifeInv'
<1> USE DEF LifeInv, lostVars
<1>1. "owner" \in Coroutine
  BY DEF Coroutine
<1>2. CASE StartCalled
  <2>1. /\ \A p \in Coroutine : doing[p] = Idle
        /\ ~running /\ doing' = [doing EXCEPT !["owner"] = "producer"]
        /\ starts' = starts + 1 /\ producer' = starts + 1
        /\ UNCHANGED <<use, lostVars, running, consumer, producers, consumers, reader>>
    BY <1>2 DEF StartCalled, Goes, linkVars, readerVars
  <2>2. consumers \ lostConsumers = {} /\ producers \ lostProducers = {} /\ ~ReaderAlive
    BY <1>1, <2>1 DEF ConsumerAwaited, ProducerAwaited, ReaderAwaited, ClosesNextConsumer,
                      ClosesNextProducer, Idle
  <2>3. LifeShape' /\ StartsAlone'
    BY <2>1 DEF LifeShape, StartsAlone, Place, Stopping, Idle
  <2>4. ReaderAwaited' /\ ConsumerAwaited' /\ ProducerAwaited'
    BY <2>1, <2>2 DEF ReaderAwaited, ReaderAlive, ConsumerAwaited, ProducerAwaited
  <2>5. QED
    BY <2>3, <2>4
<1>3. CASE ProducerStarts
  <2>1. /\ doing["owner"] = "producer" /\ doing' = [doing EXCEPT !["owner"] = "consumer"]
        /\ producers' = producers \union {producer}
        /\ UNCHANGED <<use, starts, lostVars, running, producer, consumers, reader>>
    BY <1>3 DEF ProducerStarts, Goes, readerVars
  <2>2. /\ ~running /\ doing'["owner"] = "consumer"
        /\ \A p \in Coroutine : doing[p] \notin Stopping /\ doing'[p] \notin Stopping
    BY <1>1, <2>1 DEF StartsAlone, LifeShape, Stopping
  <2>3. consumers \ lostConsumers = {} /\ ~ReaderAlive
    BY <2>2 DEF ConsumerAwaited, ReaderAwaited, ClosesNextConsumer, Stopping
  <2>4. LifeShape' /\ StartsAlone'
    BY <2>1, <2>2 DEF LifeShape, StartsAlone, Place
  <2>5. ReaderAwaited' /\ ConsumerAwaited'
    BY <2>1, <2>3 DEF ReaderAwaited, ReaderAlive, ConsumerAwaited
  <2>6. ProducerAwaited'
    BY <2>1, <2>2 DEF ProducerAwaited
  <2>7. QED
    BY <2>4, <2>5, <2>6
<1>4. CASE ConsumerStarts
  <2>1. /\ doing["owner"] = "consumer" /\ running' = TRUE
        /\ doing' = [doing EXCEPT !["owner"] = IF use = "run" THEN Waiting ELSE Idle]
        /\ consumers' = consumers \union {consumer}
        /\ UNCHANGED <<use, starts, lostVars, producer, consumer, producers>>
    BY <1>4 DEF ConsumerStarts, Goes
  <2>2. LifeShape' /\ StartsAlone'
    BY <1>1, <2>1 DEF LifeShape, StartsAlone, Place, Waiting, Idle
  <2>3. ReaderAwaited' /\ ConsumerAwaited' /\ ProducerAwaited'
    BY <2>1 DEF ReaderAwaited, ConsumerAwaited, ProducerAwaited
  <2>4. QED
    BY <2>2, <2>3
<1>5. QED
  BY <1>2, <1>3, <1>4

\* Every step keeps the invariant.
LEMMA LifeStepInv ==
  ASSUME LifeInv, [LifeNext]_lifeVars
  PROVE  LifeInv'
<1>1. "owner" \in Coroutine
  BY DEF Coroutine
<1>2. CASE StartFails
  <2>1. doing["owner"] \notin Stopping
    BY <1>2 DEF StartFails, Stopping
  <2>2. QED
    BY <1>1, <1>2, <2>1, StopsInv DEF StartFails, lostVars
<1>3. CASE OwnerStops \/ RunEnds
  <2>1. doing["owner"] \notin Stopping \union {"producer", "consumer"}
    BY <1>3 DEF OwnerStops, RunEnds, Stopping, Idle, Waiting
  <2>2. QED
    BY <1>1, <1>3, <2>1, StopsInv DEF OwnerStops, RunEnds, lostVars
<1>4. ASSUME NEW p \in Coroutine, StopCalled(p)
      PROVE  LifeInv'
  <2>1. doing[p] \notin Stopping \union {"producer", "consumer"}
    BY <1>4 DEF StopCalled, Stopping, Idle
  <2>2. QED
    BY <1>4, <2>1, StopsInv DEF StopCalled, lostVars
<1>5. CASE RunCancelled \/ UNCHANGED lifeVars
  BY <1>5 DEF RunCancelled, lifeVars, fieldVars, linkVars, readerVars, lostVars, LifeInv, LifeShape,
              StartsAlone, ReaderAwaited, ReaderAlive, ConsumerAwaited, ProducerAwaited,
              ClosesNextConsumer, ClosesNextProducer
<1>6. QED
  BY <1>2, <1>3, <1>4, <1>5, StartInv, StopGoesInv, CloseFailsInv, ReaderInv DEF LifeNext

\* When nobody is at work on an end that does not run, its reader is over, and all its
\* connections are closed that no start and no stop gave up half-way.
THEOREM StopsAreFinal == LifeSpec => []StopIsFinal
<1>1. LifeInv => StopIsFinal
  <2> SUFFICES ASSUME LifeInv, ~running, \A p \in Coroutine : doing[p] \in {Idle, Done}
               PROVE  ~ReaderAlive /\ consumers \subseteq lostConsumers /\ producers \subseteq lostProducers
    BY DEF StopIsFinal
  <2>1. ~ReaderAlive /\ consumers \ lostConsumers = {}
    BY DEF LifeInv, ReaderAwaited, ConsumerAwaited, ClosesNextConsumer, Idle, Done
  <2>2. producers \ lostProducers = {}
    BY DEF LifeInv, ProducerAwaited, ClosesNextProducer, Idle, Done, Coroutine
  <2>3. QED
    BY <2>1, <2>2
<1>2. QED
  BY LifeInitInv, LifeStepInv, <1>1, PTL DEF LifeSpec

-----------------------------------------------------------------------------
(* What the variables of the transport's life hold.                        *)

\* The owner starts something it has counted, and a reader has a consumer.
StartsCounted ==
  /\ doing["owner"] \in {"producer", "consumer"} => starts > 0
  /\ running \/ (\E p \in Coroutine : doing[p] \in Stopping) => starts > 0
  /\ doing["owner"] = "consumer" => consumer = starts
  /\ reader # "none" => consumer > 0

LifeTypes == LifeTypeOK /\ StartsCounted

\* What a coroutine that stops does to the types.
LEMMA StopsTypes ==
  ASSUME LifeTypes, NEW p \in Coroutine, Stops(p),
         UNCHANGED <<starts, producer, consumer, producers, consumers, reader, errors>>,
         lostProducers' \subseteq 1..starts,
         lostConsumers' = lostConsumers
  PROVE  LifeTypes'
<1>1. /\ running' \in BOOLEAN /\ cut' \in BOOLEAN
      /\ doing' = [doing EXCEPT ![p] = doing'[p]] /\ doing'[p] \in {"joining", Idle, Done}
      /\ (running' => running) /\ (doing'[p] = "joining" => running)
  <2>1. running \in BOOLEAN /\ cut \in BOOLEAN /\ doing = [q \in Coroutine |-> doing[q]]
    BY DEF LifeTypes, LifeTypeOK
  <2>2. ReaderAlive \in BOOLEAN
    BY DEF ReaderAlive
  <2>3. Goes(p, "joining") \/ Goes(p, Stopped(p))
    BY DEF Stops
  <2>4. Stopped(p) \in {Idle, Done}
    BY DEF Stopped
  <2>5. doing' = [doing EXCEPT ![p] = doing'[p]] /\ doing'[p] \in {"joining", Idle, Done}
    BY <2>1, <2>3, <2>4 DEF Goes
  <2>6. running' \in BOOLEAN /\ cut' \in BOOLEAN
    BY <2>1, <2>2 DEF Stops
  <2>7. /\ running' => running
        /\ doing'[p] = "joining" => running
    BY <2>1, <2>4 DEF Stops, Goes, Idle, Done
  <2>8. QED
    BY <2>5, <2>6, <2>7
<1>2. LifeTypeOK'
  BY <1>1 DEF LifeTypes, LifeTypeOK, Stopping
<1>3. doing'["owner"] \in {"producer", "consumer"} => doing'["owner"] = doing["owner"]
  BY <1>1 DEF LifeTypes, LifeTypeOK, Coroutine, Idle, Done
<1>4. running' \/ (\E q \in Coroutine : doing'[q] \in Stopping) => starts' > 0
  <2>1. \A q \in Coroutine \ {p} : doing'[q] = doing[q]
    BY <1>1 DEF LifeTypes, LifeTypeOK
  <2>2. doing'[p] \in Stopping => running
    BY <1>1 DEF Stopping, Idle, Done
  <2>3. QED
    BY <1>1, <2>1, <2>2 DEF LifeTypes, StartsCounted
<1>6. StartsCounted'
  BY <1>3, <1>4 DEF LifeTypes, StartsCounted
<1>5. QED
  BY <1>2, <1>6 DEF LifeTypes

\* Every step keeps the types.
LEMMA LifeStepTypes ==
  ASSUME LifeTypes, [LifeNext]_lifeVars
  PROVE  LifeTypes'
<1> USE DEF LifeTypes, fieldVars, linkVars, readerVars, lostVars
<1>1. "owner" \in Coroutine /\ starts \in Nat /\ MaxStarts \in Nat /\ MaxErrors \in Nat
  BY LifecycleAssumption DEF LifeTypeOK, Coroutine
<1>2. CASE StartCalled
  <2>1. doing' = [doing EXCEPT !["owner"] = "producer"] /\ starts' \in 1..MaxStarts
        /\ doing'["owner"] = "producer" /\ consumer' \in 0..starts' /\ producer' = starts'
        /\ 1..starts \subseteq 1..starts'
    BY <1>1, <1>2 DEF StartCalled, LifeTypeOK, Goes
  <2>2. /\ producers' \subseteq 1..starts' /\ consumers' \subseteq 1..starts'
        /\ lostProducers' \subseteq 1..starts' /\ lostConsumers' \subseteq 0..starts'
    BY <1>2, <2>1 DEF StartCalled, LifeTypeOK
  <2>3. doing' \in [Coroutine -> {Idle, "producer", "consumer", Waiting, Done} \union Stopping]
    BY <1>1, <2>1 DEF LifeTypeOK
  <2>4. starts' \in 0..MaxStarts
    BY <1>1, <2>1
  <2>5. LifeTypeOK'
    BY <1>2, <2>1, <2>2, <2>3, <2>4 DEF StartCalled, LifeTypeOK
  <2>6. reader' # "none" => consumer' > 0
    BY <1>2 DEF StartCalled, StartsCounted
  <2>7. StartsCounted'
    BY <1>1, <2>1, <2>6 DEF StartsCounted
  <2>8. QED
    BY <2>5, <2>7
<1>3. CASE ProducerStarts
  <2>1. doing' = [doing EXCEPT !["owner"] = "consumer"] /\ starts > 0
        /\ doing'["owner"] = "consumer" /\ consumer' = starts
    BY <1>1, <1>3 DEF ProducerStarts, LifeTypeOK, StartsCounted, Goes
  <2>2. producers' \subseteq 1..starts
    BY <1>1, <1>3, <2>1 DEF ProducerStarts, LifeTypeOK
  <2>3. LifeTypeOK'
    BY <1>1, <1>3, <2>1, <2>2 DEF ProducerStarts, LifeTypeOK
  <2>4. StartsCounted'
    BY <1>3, <2>1 DEF ProducerStarts, StartsCounted
  <2>5. QED
    BY <2>3, <2>4
<1>4. CASE ConsumerStarts
  <2>1. /\ doing' = [doing EXCEPT !["owner"] = doing'["owner"]]
        /\ doing'["owner"] \in {Waiting, Idle} /\ starts > 0 /\ consumer = starts
    BY <1>1, <1>4 DEF ConsumerStarts, LifeTypeOK, StartsCounted, Goes
  <2>2. consumers' \subseteq 1..starts
    BY <1>1, <1>4, <2>1 DEF ConsumerStarts, LifeTypeOK
  <2>3. LifeTypeOK'
    BY <1>4, <2>1, <2>2 DEF ConsumerStarts, LifeTypeOK
  <2>4. StartsCounted'
    BY <1>1, <1>4, <2>1 DEF ConsumerStarts, StartsCounted, Waiting, Idle
  <2>5. QED
    BY <2>3, <2>4
<1>5. CASE StartFails
  <2>1. starts > 0
    BY <1>5 DEF StartFails, StartsCounted
  <2>2. lostProducers' \subseteq 1..starts
    BY <1>1, <1>5, <2>1 DEF StartFails, LifeTypeOK
  <2>3. QED
    BY <1>1, <1>5, <2>2, StopsTypes DEF StartFails
<1>6. CASE OwnerStops \/ RunEnds
  <2>1. lostProducers' \subseteq 1..starts
    BY <1>6 DEF OwnerStops, RunEnds, LifeTypeOK
  <2>2. QED
    BY <1>1, <1>6, <2>1, StopsTypes DEF OwnerStops, RunEnds
<1>7. CASE RunCancelled \/ UNCHANGED lifeVars
  <2>1. UNCHANGED <<use, starts, running, producer, consumer, producers, consumers, lostProducers,
                    lostConsumers, reader, errors, doing>> /\ cut' \in {TRUE, cut}
    BY <1>7 DEF RunCancelled, lifeVars
  <2>2. LifeTypeOK'
    BY <2>1 DEF LifeTypeOK
  <2>3. StartsCounted'
    BY <2>1 DEF StartsCounted
  <2>4. QED
    BY <2>2, <2>3
<1>8. ASSUME NEW p \in Coroutine, StopCalled(p) PROVE LifeTypes'
  <2>1. /\ p \in Stopper /\ p # "owner" /\ Stops(p)
        /\ UNCHANGED <<starts, producer, consumer, producers, consumers, reader, errors, lostVars>>
    BY <1>8, LifecycleAssumption DEF StopCalled
  <2>2. lostProducers' \subseteq 1..starts
    BY <2>1 DEF LifeTypeOK
  <2>3. QED
    BY <1>8, <2>1, <2>2, StopsTypes
<1>9. ASSUME NEW p \in Coroutine, StopGoes(p) \/ CloseFails(p) PROVE LifeTypes'
  <2>1. /\ doing' = [doing EXCEPT ![p] = doing'[p]]
        /\ doing'[p] \in {"first", "second", Idle, Done}
        /\ doing[p] \in Stopping
        /\ producers' \subseteq producers /\ consumers' \subseteq consumers
        /\ UNCHANGED <<starts, producer, consumer, running, cut, reader, errors>>
    BY <1>9 DEF StopGoes, Joins, Closes, CloseFails, AtProducer, AtConsumer, Goes, LifeTypeOK,
                Stopped, Stopping, ClosesProducer, ClosesConsumer
  <2>6. /\ lostProducers' \subseteq lostProducers \union {producer}
        /\ lostConsumers' \subseteq lostConsumers \union {consumer}
    BY <1>9 DEF StopGoes, Joins, Closes, CloseFails
  <2>7. producer \in 1..starts
    <3>1. starts > 0
      BY <2>1 DEF StartsCounted
    <3>2. QED
      BY <1>1, <3>1 DEF LifeTypeOK
  <2>2. LifeTypeOK'
    BY <2>1, <2>6, <2>7 DEF LifeTypeOK, Stopping
  <2>3. doing'["owner"] \in {"producer", "consumer"} => doing'["owner"] = doing["owner"]
    BY <2>1 DEF LifeTypeOK, Coroutine, Idle, Done
  <2>4. StartsCounted'
    BY <2>1, <2>3 DEF StartsCounted
  <2>5. QED
    BY <2>2, <2>4
<1>10. CASE ReaderFails \/ ReaderGoes
  <2>1. /\ UNCHANGED <<starts, producer, consumer, running, cut, producers, lostVars, doing>>
        /\ errors' \in 0..MaxErrors /\ consumers' \subseteq consumers \union {consumer}
        /\ reader # "none"
        /\ reader' \in {"none", "reading", "sleeping", "closing", "opening", "over"}
    BY <1>1, <1>10 DEF ReaderFails, ReaderGoes, ReaderWakes, ReaderCloses, ReaderReopens,
                       ReaderCut, Unread, ReaderAlive, ClosesConsumer, LifeTypeOK
  <2>2. consumer > 0
    BY <2>1 DEF StartsCounted
  <2>3. consumer \in 1..starts
    BY <1>1, <2>2 DEF LifeTypeOK
  <2>4. LifeTypeOK'
    BY <2>1, <2>3 DEF LifeTypeOK
  <2>5. StartsCounted'
    BY <2>1, <2>2 DEF StartsCounted
  <2>6. QED
    BY <2>4, <2>5
<1>11. QED
  BY <1>2, <1>3, <1>4, <1>5, <1>6, <1>7, <1>8, <1>9, <1>10 DEF LifeNext

\* The fields hold the clients of the last start, and only clients that were made
\* are connected, whoever starts, stops and fails.
THEOREM LifeTyped == LifeSpec => []LifeTypeOK
<1>1. LifeInit => LifeTypes
  <2> SUFFICES ASSUME LifeInit PROVE LifeTypes
    OBVIOUS
  <2>1. 0 \in 0..MaxStarts /\ 0 \in 0..MaxErrors /\ 0 \in 0..0
    BY LifecycleAssumption
  <2>2. doing["owner"] = Idle
    BY DEF LifeInit, Coroutine
  <2>3. LifeTypeOK
    BY <2>1 DEF LifeInit, LifeTypeOK
  <2>4. StartsCounted
    BY <2>2 DEF LifeInit, StartsCounted, Idle, Stopping
  <2>5. QED
    BY <2>3, <2>4 DEF LifeTypes
<1>2. LifeTypes => LifeTypeOK
  BY DEF LifeTypes
<1>3. QED
  BY <1>1, <1>2, LifeStepTypes, PTL DEF LifeSpec
=============================================================================
