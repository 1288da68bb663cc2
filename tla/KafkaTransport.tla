--------------------------- MODULE KafkaTransport ---------------------------
(***************************************************************************)
(* Calls over Kafka: KafkaClientTransport with its CorrelationManager and  *)
(* StreamingFutures (src/a2a/client/transports), the request and the reply *)
(* topic, and KafkaServerApp with KafkaHandler (src/a2a/server).           *)
(*                                                                         *)
(* One client with one reply topic, one server, and topics of one          *)
(* partition, so that a topic is a log with a reader's position in it.     *)
(* The two processes take steps of their own; within a process a step is   *)
(* the code between two points where a coroutine can suspend.  The lock of *)
(* the CorrelationManager is never held across one.                        *)
(*                                                                         *)
(* The business logic behind the server is open: a stream is any number of *)
(* events up to MaxEvents and then its end or an error, any other method   *)
(* gives a result or an error.  Lost sends are the KafkaErrors that the    *)
(* code catches.  Retries inside the Kafka clients are not here.           *)
(***************************************************************************)
EXTENDS Integers, Sequences

CONSTANTS
  Call,
  None,
  Methods,        \* what callers call
  MaxEvents,      \* events in one stream
  MaxRestarts,    \* how often the server ends and comes back
  HandlersFail,   \* handlers may raise
  SendsFail,      \* send_and_wait may raise, on either side
  ClientStops,    \* the client transport may be stopped
  CallersLeave,   \* callers may be cancelled, or stop iterating over a stream
  SlowAcks,       \* a reply may overtake the acknowledgement of its request
  SplitWait       \* asyncio.wait_for runs get() in a task (Python < 3.12)

\* "task" stands for message_send without streaming, task_get and task_cancel,
\* "config" for the get and delete of a push notification configuration.
ASSUME KafkaAssumption ==
  /\ Methods \subseteq {"task", "config", "stream"}
  /\ MaxEvents \in Nat /\ MaxRestarts \in Nat
  /\ {HandlersFail, SendsFail, ClientStops, CallersLeave, SlowAcks, SplitWait} \subseteq BOOLEAN
  /\ None \notin Call \union Nat

VARIABLES
  method,     \* what each call is
  pc,         \* where its caller is
  outcome,    \* how it ended for its caller
  heard,      \* what its caller got, by number in said
  client,     \* the transport: "up", "stopping" or "down"
  pending,    \* keys of _pending_requests
  future,     \* the future of a call: undone, a reply, or cancelled
  streams,    \* keys of _streaming_requests
  items,      \* queue of the StreamingFuture
  ending,     \* why it is done, if it is
  replies,    \* the reply topic
  read,       \* how much of it the client has consumed
  requests,   \* the request topic
  position,   \* how much of it the server has consumed
  committed,  \* the offset committed when it last ended, or -1: there is none
  server,     \* "up" or "down"
  serving,    \* the request it is handling
  progress,   \* the events sent for it
  restarts,
  said        \* history: what the server said about each call

callVars == <<method, pc, outcome, heard>>
registryVars == <<pending, future, streams, items, ending>>
clientVars == <<callVars, client, registryVars, read>>
serverVars == <<position, committed, server, serving, progress, restarts>>
kafkaVars == <<clientVars, replies, requests, serverVars, said>>

Last == {"result", "complete", "error"}
Said == {"event"} \union Last
Reply(c, i, what) == [call |-> c, i |-> i, what |-> what]
Replies == [call : Call, i : Nat \ {0}, what : Said]

KafkaInit ==
  /\ method \in [Call -> Methods]
  /\ pc = [c \in Call |-> "idle"]
  /\ outcome = [c \in Call |-> "none"]
  /\ heard = [c \in Call |-> <<>>]
  /\ client = "up"
  /\ pending = {} /\ streams = {}
  /\ future = [c \in Call |-> <<>>]
  /\ items = [c \in Call |-> <<>>]
  /\ ending = [c \in Call |-> "open"]
  /\ replies = <<>> /\ read = 0
  /\ requests = <<>> /\ position = 0 /\ committed = -1
  /\ server = "up" /\ serving = None /\ progress = 0 /\ restarts = 0
  /\ said = [c \in Call |-> <<>>]

-----------------------------------------------------------------------------
(* The caller: _send_request, then the wait for the answer.                *)

\* A future that is done stays as it is.
Resolved(c, m) == [future EXCEPT ![c] = IF @ = <<>> THEN <<m>> ELSE @]

Ends(c, how) ==
  /\ pc' = [pc EXCEPT ![c] = "ended"]
  /\ outcome' = [outcome EXCEPT ![c] = how]

\* The request is in the topic; its acknowledgement is under way.
Send(c) ==
  /\ pc[c] = "idle" /\ client = "up"
  /\ requests' = Append(requests, c)
  /\ pc' = [pc EXCEPT ![c] = "sent"]
  /\ UNCHANGED <<method, outcome, heard, client, registryVars, read, replies,
                 serverVars, said>>

\* send_and_wait raises: the request may have reached the topic all the same.
SendFails(c) ==
  /\ pc[c] = "idle"
  /\ \/ client # "up" /\ UNCHANGED requests
     \/ SendsFail /\ client = "up" /\ requests' \in {requests, Append(requests, c)}
  /\ Ends(c, "error")
  /\ UNCHANGED <<method, heard, client, registryVars, read, replies, serverVars, said>>

\* The acknowledgement arrives and the call is registered.
Register(c) ==
  /\ pc[c] = "sent"
  /\ \/ /\ method[c] # "stream"
        /\ pending' = pending \union {c}
        /\ pc' = [pc EXCEPT ![c] = "waiting"]
        /\ UNCHANGED streams
     \/ /\ method[c] = "stream"
        /\ streams' = streams \union {c}
        /\ pc' = [pc EXCEPT ![c] = "top"]
        /\ UNCHANGED pending
  /\ UNCHANGED <<method, outcome, heard, client, future, items, ending, read,
                 replies, requests, serverVars, said>>

\* Slip: only a result wakes the caller.
AnsweredWithResult(c) ==
  /\ pc[c] = "waiting" /\ future[c] # <<>>
  /\ future[c][1].what = "result"
  /\ Ends(c, "result")
  /\ heard' = [heard EXCEPT ![c] = Append(@, future[c][1].i)]
  /\ UNCHANGED <<method, client, registryVars, read, replies, requests, serverVars, said>>

Answered(c) ==
  /\ pc[c] = "waiting" /\ future[c] # <<>>
  /\ LET got == future[c][1] IN
     /\ Ends(c, got.what)
     /\ heard' = IF got.what = "result" THEN [heard EXCEPT ![c] = Append(@, got.i)] ELSE heard
  /\ UNCHANGED <<method, client, registryVars, read, replies, requests, serverVars, said>>

\* Slip: a call that timed out stays registered.
TimesOutRegistered(c) ==
  /\ pc[c] = "waiting" /\ future[c] = <<>>
  /\ Ends(c, "timeout")
  /\ UNCHANGED <<method, heard, client, registryVars, read, replies, requests,
                 serverVars, said>>

\* wait_for gives up after the timeout of the call.
TimesOut(c) ==
  /\ pc[c] = "waiting" /\ future[c] = <<>>
  /\ Ends(c, "timeout")
  /\ pending' = pending \ {c}
  /\ UNCHANGED <<method, heard, client, future, streams, items, ending, read, replies,
                 requests, serverVars, said>>

-----------------------------------------------------------------------------
(* The loop of send_message_streaming.                                     *)

Look(c) ==
  /\ pc[c] = "top"
  /\ \/ ending[c] # "open" /\ Ends(c, "ended")
     \/ /\ ending[c] = "open"
        /\ pc' = [pc EXCEPT ![c] = IF SplitWait THEN "enter" ELSE "get"]
        /\ UNCHANGED outcome
  /\ UNCHANGED <<method, heard, client, registryVars, read, replies, requests,
                 serverVars, said>>

\* get() begins: it raises the exception of a stream that failed since the
\* loop looked.
EnterGet(c) ==
  /\ pc[c] = "enter"
  /\ \/ ending[c] = "failed" /\ Ends(c, "error")
     \/ ending[c] = "cancelled" /\ Ends(c, "cancelled")
     \/ /\ ending[c] \in {"open", "complete"}
        /\ pc' = [pc EXCEPT ![c] = "get"]
        /\ UNCHANGED outcome
  /\ UNCHANGED <<method, heard, client, registryVars, read, replies, requests,
                 serverVars, said>>

Yield(c) ==
  /\ pc[c] = "get" /\ items[c] # <<>>
  /\ heard' = [heard EXCEPT ![c] = Append(@, Head(items[c]))]
  /\ items' = [items EXCEPT ![c] = Tail(@)]
  /\ pc' = [pc EXCEPT ![c] = "top"]
  /\ UNCHANGED <<method, outcome, client, pending, future, streams, ending, read,
                 replies, requests, serverVars, said>>

\* No event for five seconds; that matters only when the stream is done.
LooksAgain(c) ==
  /\ pc[c] = "get" /\ items[c] = <<>> /\ ending[c] # "open"
  /\ pc' = [pc EXCEPT ![c] = "top"]
  /\ UNCHANGED <<method, outcome, heard, client, registryVars, read, replies, requests,
                 serverVars, said>>

\* The caller is cancelled where it waits, which wait_for passes on to the
\* future, or drops the generator at a yield.  Only time-outs and errors are
\* handled: what is registered stays.
CallerLeaves(c) ==
  /\ CallersLeave
  /\ \/ pc[c] \in {"sent", "waiting", "enter", "get"}
     \/ pc[c] = "top" /\ heard[c] # <<>>
  /\ Ends(c, "left")
  /\ future' = IF pc[c] = "waiting" THEN Resolved(c, Reply(c, 1, "cancelled")) ELSE future
  /\ UNCHANGED <<method, heard, client, pending, streams, items, ending, read, replies,
                 requests, serverVars, said>>

-----------------------------------------------------------------------------
(* _consume_responses and the CorrelationManager.                          *)

\* _parse_response knows the types of tasks, messages and their updates.
Parsable(m) == m.what = "error" \/ method[m.call] # "config"

\* Slip: an event is queued for a stream whoever else is registered.
CompleteMixed(m) ==
  /\ \/ /\ m.call \in pending
        /\ future' = Resolved(m.call, m)
        /\ pending' = pending \ {m.call}
        /\ UNCHANGED items
     \/ /\ m.call \notin pending /\ streams # {}
        /\ items' = [c \in Call |-> IF c \in streams THEN Append(items[c], m.i) ELSE items[c]]
        /\ UNCHANGED <<pending, future>>
     \/ /\ m.call \notin pending /\ streams = {}
        /\ UNCHANGED <<pending, future, items>>
  /\ UNCHANGED <<streams, ending>>

Complete(m) ==
  /\ \/ /\ m.call \in pending
        /\ future' = Resolved(m.call, m)
        /\ pending' = pending \ {m.call}
        /\ UNCHANGED items
     \/ /\ m.call \notin pending /\ m.call \in streams
        /\ items' = [items EXCEPT ![m.call] = Append(@, m.i)]
        /\ UNCHANGED <<pending, future>>
     \/ /\ m.call \notin pending \union streams
        /\ UNCHANGED <<pending, future, items>>
  /\ UNCHANGED <<streams, ending>>

\* Slip: the end of a stream is not handed to its caller.
CompleteStreamingSilent(m) ==
  /\ streams' = streams \ {m.call}
  /\ UNCHANGED <<ending, pending, future, items>>

CompleteStreaming(m) ==
  /\ streams' = streams \ {m.call}
  /\ ending' = IF m.call \in streams THEN [ending EXCEPT ![m.call] = "complete"] ELSE ending
  /\ UNCHANGED <<pending, future, items>>

CompleteWithException(m) ==
  /\ \/ /\ m.call \in pending
        /\ future' = Resolved(m.call, m)
        /\ pending' = pending \ {m.call}
        /\ UNCHANGED <<streams, ending>>
     \/ /\ m.call \notin pending
        /\ streams' = streams \ {m.call}
        /\ ending' = IF m.call \in streams THEN [ending EXCEPT ![m.call] = "failed"] ELSE ending
        /\ UNCHANGED <<pending, future>>
  /\ UNCHANGED items

\* The next reply, for the call its correlation id names.
ReadReply ==
  /\ client = "up" /\ read < Len(replies)
  /\ LET m == replies[read + 1] IN
     /\ pc[m.call] = "sent" => SlowAcks
     /\ \/ m.what = "complete" /\ CompleteStreaming(m)
        \/ m.what = "error" /\ CompleteWithException(m)
        \/ m.what \in {"event", "result"} /\ Parsable(m) /\ Complete(m)
        \/ m.what \in {"event", "result"} /\ ~Parsable(m) /\ UNCHANGED registryVars
  /\ read' = read + 1
  /\ UNCHANGED <<callVars, client, replies, requests, serverVars, said>>

\* stop() ends the consumer of the replies ...
StopClient ==
  /\ ClientStops /\ client = "up"
  /\ client' = "stopping"
  /\ UNCHANGED <<callVars, registryVars, read, replies, requests, serverVars, said>>

\* ... and then cancels all that is registered.
CancelAll ==
  /\ client = "stopping"
  /\ client' = "down"
  /\ future' = [c \in Call |-> IF c \in pending /\ future[c] = <<>>
                              THEN <<Reply(c, 1, "cancelled")>> ELSE future[c]]
  /\ ending' = [c \in Call |-> IF c \in streams THEN "cancelled" ELSE ending[c]]
  /\ pending' = {} /\ streams' = {}
  /\ UNCHANGED <<callVars, items, read, replies, requests, serverVars, said>>

-----------------------------------------------------------------------------
(* The server: _consume_requests handles one request after the other.      *)

Receive ==
  /\ server = "up" /\ serving = None /\ position < Len(requests)
  /\ serving' = requests[position + 1]
  /\ position' = position + 1
  /\ progress' = 0
  /\ UNCHANGED <<clientVars, replies, requests, committed, server, restarts, said>>

\* A reply is sent; when that fails it is lost and the handler goes on.
Says(what) ==
  LET c == serving
      m == Reply(c, Len(said[c]) + 1, what)
  IN  /\ said' = [said EXCEPT ![c] = Append(@, what)]
      /\ \/ replies' = Append(replies, m)
         \/ SendsFail /\ UNCHANGED replies

Emit ==
  /\ serving # None /\ method[serving] = "stream" /\ progress < MaxEvents
  /\ Says("event")
  /\ progress' = progress + 1
  /\ UNCHANGED <<clientVars, requests, position, committed, server, serving, restarts>>

\* Slip: the handler goes on when its stream is over.
FinishAgain ==
  /\ serving # None
  /\ Says(IF method[serving] = "stream" THEN "complete" ELSE "result")
  /\ serving' \in {None, serving}
  /\ progress' = MaxEvents
  /\ UNCHANGED <<clientVars, requests, position, committed, server, restarts>>

Finish ==
  /\ serving # None
  /\ \/ Says(IF method[serving] = "stream" THEN "complete" ELSE "result")
     \/ HandlersFail /\ Says("error")
  /\ serving' = None /\ progress' = 0
  /\ UNCHANGED <<clientVars, requests, position, committed, server, restarts>>

\* A crash, or stop(), which cancels the handler.  The consumer commits in the
\* background what it has handed out, and stop() commits on its way out: any
\* offset since the last restart may be the committed one.
ServerEnds ==
  /\ server = "up" /\ restarts < MaxRestarts
  /\ server' = "down" /\ restarts' = restarts + 1
  /\ serving' = None /\ progress' = 0
  /\ committed' \in committed..position
  /\ UNCHANGED <<clientVars, replies, requests, position, said>>

\* Slip: the consumer starts after the committed offset.
ServerStartsAfter ==
  /\ server = "down"
  /\ server' = "up"
  /\ position' = IF committed = -1 THEN Len(requests) ELSE committed + 1
  /\ UNCHANGED <<clientVars, replies, requests, committed, serving, progress, restarts, said>>

\* Without a committed offset the consumer starts at the end of the topic.
ServerStarts ==
  /\ server = "down"
  /\ server' = "up"
  /\ position' = IF committed = -1 THEN Len(requests) ELSE committed
  /\ UNCHANGED <<clientVars, replies, requests, committed, serving, progress, restarts, said>>

-----------------------------------------------------------------------------
CallerStep(c) ==
  \/ Register(c) \/ Answered(c) \/ TimesOut(c)
  \/ Look(c) \/ EnterGet(c) \/ Yield(c) \/ LooksAgain(c)

ServerStep == Receive \/ Emit \/ Finish \/ ServerStarts

KafkaNext ==
  \/ \E c \in Call : Send(c) \/ SendFails(c) \/ CallerStep(c) \/ CallerLeaves(c)
  \/ ReadReply \/ StopClient \/ CancelAll
  \/ ServerStep \/ ServerEnds

KafkaSpec == KafkaInit /\ [][KafkaNext]_kafkaVars

(* Each process runs what can run, Kafka acknowledges and delivers what it *)
(* has, time-outs expire, handlers end, and a server that ended is started *)
(* again.                                                                  *)
KafkaFairness ==
  /\ \A c \in Call : WF_kafkaVars(CallerStep(c))
  /\ WF_kafkaVars(ReadReply) /\ WF_kafkaVars(CancelAll)
  /\ WF_kafkaVars(ServerStep)

FairKafkaSpec == KafkaSpec /\ KafkaFairness
-----------------------------------------------------------------------------
(* Properties.                                                             *)

InLoop(c) == pc[c] \in {"top", "enter", "get"}

\* Every variable keeps its shape, and readers are within their topics.
KafkaTypeOK ==
  /\ method \in [Call -> Methods]
  /\ pc \in [Call -> {"idle", "sent", "waiting", "top", "enter", "get", "ended"}]
  /\ outcome \in [Call -> {"none", "result", "error", "timeout", "cancelled", "ended", "left"}]
  /\ client \in {"up", "stopping", "down"}
  /\ pending \subseteq Call /\ streams \subseteq Call
  /\ ending \in [Call -> {"open", "complete", "failed", "cancelled"}]
  /\ \A i \in DOMAIN replies : replies[i] \in Replies
  /\ read \in 0..Len(replies)
  /\ \A i \in DOMAIN requests : requests[i] \in Call
  /\ position \in 0..Len(requests)
  /\ committed \in -1..position
  /\ server \in {"up", "down"} /\ serving \in Call \union {None}
  /\ progress \in 0..MaxEvents /\ restarts \in 0..MaxRestarts

\* Of the calls whose caller did not leave, the registry holds exactly those
\* somebody waits for: a waiting caller whose future is undone can still be
\* answered, and nothing is kept for a call that is over, however answers,
\* time-outs and the stop interleave.  What a caller left is no open stream
\* that ended.
RegistryExact ==
  \A c \in Call :
    /\ outcome[c] # "left" =>
         /\ c \in pending <=> pc[c] = "waiting" /\ future[c] = <<>>
         /\ c \in streams <=> InLoop(c) /\ ending[c] = "open"
    /\ c \in streams => ending[c] = "open"

\* An answer is a reply of the server to this very call, also when requests
\* are handled again after a restart; no reply is taken for another call's.
AnswersAreReplies ==
  \A c \in Call :
    /\ outcome[c] = "result" => \E i \in DOMAIN said[c] : said[c][i] = "result"
    /\ \A j \in DOMAIN heard[c] :
         heard[c][j] \in DOMAIN said[c] /\ said[c][heard[c][j]] \in {"event", "result"}
    /\ \A j, k \in DOMAIN heard[c] : j < k => heard[c][j] < heard[c][k]

\* Without restarts the transport implements the abstract Rpc: requests are
\* handled at most once, and what callers hear was said about their call, in
\* that order, once.
Abstract == INSTANCE Rpc WITH
  state <- [c \in Call |-> CASE pc[c] = "idle" -> "idle" [] pc[c] = "ended" -> "over"
                             [] OTHER -> "asked"],
  Event <- {"event"}
IsRpc == Abstract!Spec

\* Every call that is not a stream returns, also when its request or its reply
\* is lost or its handler is cut off by a restart.
CallsReturn == \A c \in Call : pc[c] = "sent" /\ method[c] # "stream" ~> pc[c] = "ended"

\* A stream whose end (complete or failed) is in the reply topic when it is
\* registered, or later, ends for its caller, whoever leaves and however often the
\* server restarts, as long as the client is not stopped.  (Of one call also when sends
\* are lost and the client may stop: KafkaEnds.cfg.)
EndIsInTopic(c) ==
  \E i \in (read + 1)..Len(replies) :
    replies[i].call = c /\ replies[i].what \in {"complete", "error"}
StreamsEnd ==
  \A c \in Call : c \in streams /\ client = "up" /\ EndIsInTopic(c) ~> pc[c] = "ended"

-----------------------------------------------------------------------------
(* What the docs and comments promise and the code does not keep; README.md *)
(* names the cfg that shows each.                                          *)

\* "Client yields responses as they arrive until stream completes": a stream
\* that ended at its completion has yielded every event.
StreamsAreWhole ==
  \A c \in Call : outcome[c] = "ended" /\ ending[c] = "complete" => items[c] = <<>>

\* "Proper exception propagation": a stream whose handler raised does not end
\* for its caller as if it were complete.
StreamErrorsRaised == \A c \in Call : outcome[c] = "ended" => ending[c] # "failed"

\* "At-least-once delivery": a request in the topic is handled to its end.
AtLeastOnce ==
  \A c \in Call : (\E i \in DOMAIN requests : requests[i] = c)
    ~> \E i \in DOMAIN said[c] : said[c][i] \in Last

\* "Client correlates response using correlation ID and completes future": a
\* reply that is read completes the call it is for.
RepliesComplete ==
  [][\A c \in Call :
       read' = read + 1 /\ replies[read'].call = c /\ replies[read'].what = "result"
         /\ pc[c] \notin {"ended"} => c \notin pending' /\ future'[c] # <<>>]_kafkaVars

\* The registry keeps nothing of a call that is over, also when its caller left.
NothingLeftBehind == \A c \in pending \union streams : pc[c] # "ended"

\* stop() cancels "all pending requests": no caller waits on.
StopEndsCalls == \A c \in Call : client = "down" /\ pc[c] # "idle" ~> pc[c] = "ended"
=============================================================================
