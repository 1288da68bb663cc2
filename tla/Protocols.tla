----------------------------- MODULE Protocols -----------------------------
(***************************************************************************)
(* One call from the client library to a request handler and back, over    *)
(* JSON-RPC, REST or gRPC: Client and the transports under                 *)
(* src/a2a/client, the applications and protocol handlers under            *)
(* src/a2a/server that decode it, check what the agent supports, run the   *)
(* RequestHandler and encode what it says.                                 *)
(*                                                                         *)
(* The RequestHandler is open: it says events, ends, raises a ServerError  *)
(* of any kind it uses, or fails with another exception.  RequestHandler   *)
(* and KafkaTransport model the one that is shipped and the fourth         *)
(* transport.  HTTP, SSE and gRPC are a sequence of frames that may break  *)
(* off; payloads are not here but in WireFormat.                           *)
(***************************************************************************)
EXTENDS Naturals, Sequences

CONSTANTS
  Transport,    \* the transports a call may go over
  MaxEvents,    \* events in one stream
  LinkFails,    \* connections may break, answers be late
  CallersLeave, \* callers may stop iterating over a stream
  Foreign       \* requests that this library's client would not write

ASSUME ProtocolsAssumption ==
  /\ Transport \subseteq {"jsonrpc", "rest", "grpc"}
  /\ MaxEvents \in Nat
  /\ {LinkFails, CallersLeave, Foreign} \subseteq BOOLEAN

VARIABLES
  call,      \* what is asked of whom
  client,    \* "idle", "waiting" or "over"
  outcome,   \* how the call ended for its caller
  heard,     \* the events and results the caller got, by number in said
  request,   \* "unsent", "sent", "taken" or "lost"
  bodyRead,  \* the server has the body of the request in memory
  handler,   \* "idle", "starting", "running", "ended" or "dropped"
  said,      \* history: what the handler said
  activated, \* the agent activated an extension
  response,  \* the response that was begun: "none", "json", "sse", "page"
  told,      \* it names the activated extension
  frames,    \* on their way to the client
  link       \* "up" or "down"

clientVars == <<client, outcome, heard>>
serverVars == <<request, bodyRead, handler, said, activated, response, told>>
protocolVars == <<call, clientVars, serverVars, frames, link>>

Method == {"send", "get", "cancel", "setConfig", "getConfig", "resubscribe"}
Kind == {"TaskNotFound", "TaskNotCancelable", "InvalidParams", "UnsupportedOperation", "Internal"}
Event == {"update", "message"}
Last == {"result", "nothing", "complete", "crash"} \union Kind

\* streaming and push are the agent's capabilities, card is what the client's
\* card says of streaming and wants what its configuration says.
Calls == [transport : Transport, api : {"client", "legacy"}, method : Method,
          wants : BOOLEAN, card : BOOLEAN, streaming : BOOLEAN, push : BOOLEAN,
          defect : {"none", "json", "large", "base", "method", "params"}]

\* Defects a request can have on its way into a transport: a JSON-RPC body can
\* be wrong at every layer, the others only in what their messages contain.
Possible(c) ==
  /\ c.defect # "none" => Foreign
  /\ c.transport # "jsonrpc" => c.defect \in {"none", "params"} /\ c.api = "client"
  /\ c.transport = "rest" /\ c.method \in {"cancel", "getConfig", "resubscribe"} => c.defect = "none"

\* BaseClient.send_message streams if its configuration and the card say so.
Streams ==
  \/ call.method = "resubscribe"
  \/ call.method = "send" /\ call.wants /\ (call.card \/ call.api = "legacy")

Frame(is, of, why) == [is |-> is, of |-> of, why |-> why]
Item(i) == Frame("item", i, "")
Error(why) == Frame("error", 0, why)
End == Frame("end", 0, "")
Break == Frame("break", 0, "")

ProtocolInit ==
  /\ call \in {c \in Calls : Possible(c)}
  /\ client = "idle" /\ outcome = [how |-> "none", why |-> ""] /\ heard = <<>>
  /\ request = "unsent" /\ bodyRead = FALSE
  /\ handler = "idle" /\ said = <<>> /\ activated = FALSE
  /\ response = "none" /\ told = FALSE
  /\ frames = <<>> /\ link = "up"

-----------------------------------------------------------------------------
(* The client asks.                                                        *)

Over(how, why) == client' = "over" /\ outcome' = [how |-> how, why |-> why]

NotOffered ==
  call.api = "client" /\ call.method = "resubscribe" /\ ~(call.wants /\ call.card)

Ask ==
  /\ client = "idle" /\ ~NotOffered
  /\ client' = "waiting" /\ request' = "sent"
  /\ UNCHANGED <<call, outcome, heard, bodyRead, handler, said, activated, response, told, frames, link>>

\* BaseClient.resubscribe raises NotImplementedError.
Declines ==
  /\ client = "idle" /\ NotOffered
  /\ Over("notImplemented", "")
  /\ UNCHANGED <<call, heard, serverVars, frames, link>>

-----------------------------------------------------------------------------
(* The server takes the request.                                           *)

\* What a JSON-RPC application answers to a defect: the checks of
\* _handle_requests, in their order.
JsonRpcDefect ==
  [json |-> "JSONParse", large |-> "InvalidRequest", base |-> "InvalidRequest",
   method |-> "MethodNotFound", params |-> "InvalidParams"]

\* The capability checks: decorators of the handlers' methods, which raise
\* outside the try blocks inside them.  JSON-RPC has none on tasks/resubscribe.
Refused ==
  \/ Streams /\ ~call.streaming /\ ~(call.transport = "jsonrpc" /\ call.method = "resubscribe")
  \/ call.method = "setConfig" /\ ~call.push

\* What becomes of a ServerError that a decorator raises.
RefusalShown ==
  IF call.transport = "jsonrpc" THEN "Internal"
  ELSE IF call.transport = "grpc" THEN "Unknown"
  ELSE IF Streams THEN "500" ELSE "501"

\* REST parses the body of a stream when the response has begun already.
DefectShown ==
  IF call.transport = "jsonrpc" THEN Error(JsonRpcDefect[call.defect])
  ELSE IF call.transport = "grpc"
         THEN Error(IF call.method = "send" THEN "Unknown" ELSE "InvalidParams")
  ELSE IF Streams THEN Break ELSE Error("500")

TakeBad ==
  /\ request = "sent" /\ call.defect # "none"
  /\ call.transport = "jsonrpc" \/ ~Refused
  /\ request' = "taken"
  /\ response' = IF call.transport = "rest" /\ Streams THEN "sse" ELSE "json"
  /\ frames' = <<DefectShown>>
  /\ UNCHANGED <<call, clientVars, bodyRead, handler, said, activated, told, link>>

Refuse ==
  /\ request = "sent" /\ Refused
  /\ call.transport = "jsonrpc" => call.defect = "none"
  /\ request' = "taken"
  /\ response' = IF call.transport = "rest" /\ Streams THEN "page" ELSE "json"
  /\ frames' = <<Error(RefusalShown)>>
  /\ UNCHANGED <<call, clientVars, bodyRead, handler, said, activated, told, link>>

\* Slip: the body is left to the generator of the stream.
AcceptUnread ==
  /\ request = "sent" /\ ~Refused /\ call.defect = "none"
  /\ request' = "taken" /\ handler' = "starting"
  /\ bodyRead' = (call.transport # "rest")
  /\ response' = IF Streams THEN "sse" ELSE "none"
  /\ UNCHANGED <<call, clientVars, said, activated, told, frames, link>>

\* A stream's response begins before the generator behind it runs: its body
\* must be in memory by then, and its headers are what is known by then.
Accept ==
  /\ request = "sent" /\ ~Refused /\ call.defect = "none"
  /\ request' = "taken" /\ handler' = "starting"
  /\ bodyRead' = (call.transport # "rest" \/ Streams)
  /\ response' = IF Streams THEN "sse" ELSE "none"
  /\ UNCHANGED <<call, clientVars, said, activated, told, frames, link>>

\* Slip: a handler that has ended is run again.
RunAgain ==
  /\ handler \in {"starting", "ended"} /\ (bodyRead \/ response = "none")
  /\ handler' = "running" /\ bodyRead' = TRUE
  /\ UNCHANGED <<call, clientVars, request, said, activated, response, told, frames, link>>

\* request.body() after the response has begun would wait for ever.
Run ==
  /\ handler = "starting" /\ (bodyRead \/ response = "none")
  /\ handler' = "running" /\ bodyRead' = TRUE
  /\ UNCHANGED <<call, clientVars, request, said, activated, response, told, frames, link>>

-----------------------------------------------------------------------------
(* The request handler says something, the protocol handler encodes it.    *)

\* What the handler gave its caller, as opposed to how it ended.
Given == Event \union {"result"}

\* JSON-RPC puts a ServerError into the body or, as the last one, into the
\* stream.  Other exceptions reach the application, which knows what to make
\* of them as long as the response has not begun.
JsonRpcAnswer(what, i) ==
  IF what \in Given THEN Item(i)
  ELSE Error(IF what = "nothing" THEN "TaskNotFound" ELSE IF what = "crash" THEN "Internal" ELSE what)

JsonRpcChunk(what, i) ==
  IF what \in Given THEN <<Item(i)>>
  ELSE IF what = "complete" THEN <<End>>
  ELSE IF what = "crash" THEN <<Break>> ELSE <<Error(what), End>>

\* Slip: a kind without a status of its own falls back to 500.
NotCancelableIs500 ==
  [TaskNotFound |-> "404", TaskNotCancelable |-> "500", InvalidParams |-> "422",
   UnsupportedOperation |-> "501", Internal |-> "500"]

A2AErrorToHttpStatus ==
  [TaskNotFound |-> "404", TaskNotCancelable |-> "409", InvalidParams |-> "422",
   UnsupportedOperation |-> "501", Internal |-> "500"]

\* REST answers with a status.
RestAnswer(what, i) ==
  IF what \in Given THEN Item(i)
  ELSE Error(IF what = "crash" THEN "500"
             ELSE A2AErrorToHttpStatus[IF what = "nothing" THEN "TaskNotFound" ELSE what])

\* A stream has its status already: an exception goes to the HTTP server,
\* which breaks the connection off.
RestChunk(what, i) ==
  IF what \in Given THEN Item(i) ELSE IF what = "complete" THEN End ELSE Break

\* gRPC ends every call with a status; abort_context names the kind in it.
abort_context(what) ==
  Error(IF what = "nothing" THEN "TaskNotFound" ELSE IF what = "crash" THEN "Unknown" ELSE what)

GrpcAnswer(what, i) == IF what \in Given THEN Item(i) ELSE abort_context(what)

GrpcChunk(what, i) ==
  IF what \in Given THEN Item(i) ELSE IF what = "complete" THEN End ELSE abort_context(what)

Answer(what, i) ==
  IF call.transport = "jsonrpc" THEN JsonRpcAnswer(what, i)
  ELSE IF call.transport = "rest" THEN RestAnswer(what, i) ELSE GrpcAnswer(what, i)

Chunks(what, i) ==
  IF call.transport = "jsonrpc" THEN JsonRpcChunk(what, i)
  ELSE IF call.transport = "rest" THEN <<RestChunk(what, i)>> ELSE <<GrpcChunk(what, i)>>

Reply(what, i) == IF Streams THEN Chunks(what, i) ELSE <<Answer(what, i)>>

\* JSON-RPC computes a header when it creates the response, which for a stream
\* is before the agent runs; gRPC adds trailing metadata when message/send or
\* message/stream succeeds; REST says nothing.
Tells(what) ==
  \/ call.transport = "jsonrpc" /\ ~Streams /\ what # "crash"
  \/ call.transport = "grpc" /\ call.method = "send" /\ what \in {"result", "complete"}

Says(what) ==
  /\ handler = "running"
  /\ said' = Append(said, what)
  /\ handler' = IF what \in Last THEN "ended" ELSE "running"
  /\ response' = IF response = "none" THEN "json" ELSE response
  /\ told' = IF Tells(what) THEN activated ELSE told
  /\ frames' = IF link = "up" /\ client = "waiting"
                 THEN frames \o Reply(what, Len(said) + 1) ELSE frames
  /\ UNCHANGED <<call, clientVars, request, bodyRead, activated, link>>

HandlerEmits ==
  /\ Streams /\ Len(said) < MaxEvents
  /\ \E what \in Event : Says(what)

HandlerReturns ==
  \/ Streams /\ Says("complete")
  \/ ~Streams /\ Says("result")
  \/ call.method \in {"get", "cancel"} /\ Says("nothing")

HandlerRaises == \E what \in Kind \union {"crash"} : Says(what)

\* RequestContext.add_activated_extension
Activates ==
  /\ handler = "running" /\ call.method = "send" /\ ~activated
  /\ activated' = TRUE
  /\ UNCHANGED <<call, clientVars, request, bodyRead, handler, said, response, told, frames, link>>

\* The server sees that nobody reads a stream any more and cancels what
\* produces it.  gRPC cancels unary calls too, HTTP lets them run to their end.
ServerNotices ==
  /\ handler \in {"starting", "running"}
  /\ Streams \/ call.transport = "grpc"
  /\ client = "over" \/ link = "down"
  /\ handler' = "dropped"
  /\ UNCHANGED <<call, clientVars, request, bodyRead, said, activated, response, told, frames, link>>

-----------------------------------------------------------------------------
(* The client reads a frame.                                               *)

Hears(i) == heard' = Append(heard, i)

ReadResult(f) == Hears(f.of) /\ Over("done", "")

\* A stream's first Message is all of it for Client.send_message, any other
\* is an A2AClientInvalidStateError.  The legacy client takes what comes.
ReadEvent(f) ==
  LET isMessage == call.api = "client" /\ said[f.of] = "message"
      isAnswer == call.method = "send" /\ heard = <<>>
  IN \/ ~isMessage /\ Hears(f.of) /\ UNCHANGED <<client, outcome>>
     \/ isMessage /\ isAnswer /\ Hears(f.of) /\ Over("done", "")
     \/ isMessage /\ ~isAnswer /\ Over("invalidState", "") /\ UNCHANGED heard

\* anext() of a stream without events raises inside an async generator.
ReadEnd ==
  /\ IF call.api = "client" /\ call.method = "send" /\ heard = <<>>
       THEN Over("runtimeError", "") ELSE Over("done", "")
  /\ UNCHANGED heard

\* The clients of HTTP check the status of message/stream but not that of
\* tasks/resubscribe, and then that the response is a stream of events.
JsonRpcStreamError(f) ==
  IF response = "sse" THEN Over("jsonrpc", f.why) ELSE Over("http", "400")

JsonRpcError(f) ==
  Over(IF call.api = "legacy" THEN "errorResponse" ELSE "jsonrpc", f.why)

RestStreamError(f) ==
  Over("http", IF call.method = "resubscribe" THEN "400" ELSE f.why)

RestError(f) == Over("http", f.why)

GrpcError(f) == Over("grpc", f.why)

ReadError(f) ==
  /\ \/ call.transport = "jsonrpc" /\ Streams /\ JsonRpcStreamError(f)
     \/ call.transport = "jsonrpc" /\ ~Streams /\ JsonRpcError(f)
     \/ call.transport = "rest" /\ Streams /\ RestStreamError(f)
     \/ call.transport = "rest" /\ ~Streams /\ RestError(f)
     \/ call.transport = "grpc" /\ GrpcError(f)
  /\ UNCHANGED heard

\* An httpx.RequestError becomes a 503 in unary calls and once the headers of a
\* stream are there.  Before that aconnect_sse raises it, outside the try.
Lost503 == (Streams => response = "sse") /\ Over("http", "503")
LostRaw == Streams /\ heard = <<>> /\ Over("httpx", "")

ReadBreak ==
  /\ \/ call.transport = "grpc" /\ Over("grpc", "Unavailable")
     \/ call.transport # "grpc" /\ Lost503
     \/ call.transport # "grpc" /\ link = "down" /\ LostRaw
  /\ UNCHANGED heard

ClientReads ==
  /\ client = "waiting" /\ frames # <<>>
  /\ frames' = Tail(frames)
  /\ LET f == Head(frames)
     IN \/ f.is = "item" /\ ~Streams /\ ReadResult(f)
        \/ f.is = "item" /\ Streams /\ ReadEvent(f)
        \/ f.is = "end" /\ ReadEnd
        \/ f.is = "error" /\ ReadError(f)
        \/ f.is = "break" /\ ReadBreak
  /\ UNCHANGED <<call, serverVars, link>>

\* Only a unary call of JSON-RPC tells a read timeout from other failures.
\* tasks/resubscribe, streams of REST and gRPC wait without limit.  The client
\* of HTTP closes the connection of what timed out.
TimesOut ==
  /\ LinkFails /\ client = "waiting" /\ frames = <<>>
  /\ call.transport # "grpc" /\ (Streams => call.transport = "jsonrpc" /\ call.method = "send")
  /\ IF call.transport = "jsonrpc" /\ ~Streams THEN Over("timeout", "") ELSE Lost503 \/ LostRaw
  /\ link' = "down"
  /\ UNCHANGED <<call, heard, serverVars, frames>>

Leaves ==
  /\ CallersLeave /\ client = "waiting" /\ Streams
  /\ Over("left", "")
  /\ UNCHANGED <<call, heard, serverVars, frames, link>>

\* What was sent last may be lost with the connection.
LinkBreaks ==
  /\ LinkFails /\ link = "up" /\ client = "waiting"
  /\ link' = "down"
  /\ request' = IF request = "sent" THEN "lost" ELSE request
  /\ \E n \in 0..Len(frames) : frames' = SubSeq(frames, 1, n) \o <<Break>>
  /\ UNCHANGED <<call, clientVars, bodyRead, handler, said, activated, response, told>>

-----------------------------------------------------------------------------
ServerSteps == TakeBad \/ Refuse \/ Accept \/ Run \/ ServerNotices
HandlerSteps == HandlerEmits \/ HandlerReturns \/ HandlerRaises \/ Activates
ClientSteps == Ask \/ Declines \/ TimesOut \/ Leaves

ProtocolNext == ServerSteps \/ HandlerSteps \/ ClientSteps \/ ClientReads \/ LinkBreaks

\* The event loops of both sides run what is ready.  Nothing makes an agent
\* finish.
ProtocolFairness == WF_protocolVars(ServerSteps) /\ WF_protocolVars(ClientReads)

ProtocolSpec == ProtocolInit /\ [][ProtocolNext]_protocolVars /\ ProtocolFairness

-----------------------------------------------------------------------------
(* Properties.                                                             *)

\* Every variable keeps its type, through all of the protocol handlers.
ProtocolTypeOK ==
  /\ call \in Calls
  /\ client \in {"idle", "waiting", "over"}
  /\ \A i \in DOMAIN heard : heard[i] \in DOMAIN said
  /\ request \in {"unsent", "sent", "taken", "lost"} /\ bodyRead \in BOOLEAN
  /\ handler \in {"idle", "starting", "running", "ended", "dropped"}
  /\ \A i \in DOMAIN said : said[i] \in Event \union Last
  /\ activated \in BOOLEAN /\ told \in BOOLEAN
  /\ response \in {"none", "json", "sse", "page"}
  /\ \A i \in DOMAIN frames :
       frames[i].is \in {"item", "error", "end", "break"} /\ frames[i].of \in 0..Len(said)
  /\ link \in {"up", "down"}

\* The three transports keep the promise that Kafka keeps as well: a request is
\* handled at most once, and its caller hears what was said about it in order,
\* each thing once, and nothing that the handler did not say.
Abstract == INSTANCE Rpc WITH
  Call <- {1}, Event <- Event, Last <- Last,
  state <- [c \in {1} |-> IF client = "idle" THEN "idle" ELSE
                          IF client = "waiting" THEN "asked" ELSE "over"],
  said <- [c \in {1} |-> said], heard <- [c \in {1} |-> heard]

IsRpc == Abstract!Spec

\* A call that ends without an error has given its caller everything the
\* handler said, and the handler had finished: no connection that breaks, no
\* exception after the first event and no refusal passes for an end.  The
\* exception is a Message that comes first, which the client takes for all.
NothingCutShort ==
  outcome.how = "done" =>
    \/ /\ said # <<>> /\ said[Len(said)] \in {"result", "complete"}
       /\ \A i \in DOMAIN said :
            said[i] # "complete" => \E j \in DOMAIN heard : heard[j] = i
    \/ call.api = "client" /\ heard = <<1>> /\ said[1] = "message"

\* The handler raised a ServerError, the connection held, and the client read on
\* till its call was over.
ErrorReached ==
  /\ client = "over" /\ link = "up" /\ outcome.how \notin {"left", "done", "invalidState"}
  /\ said # <<>> /\ said[Len(said)] \in Kind

Blamed == IF outcome.why \in {"400", "404", "409", "415", "422"} THEN "request" ELSE "server"

Fault(kind) ==
  IF kind \in {"TaskNotFound", "TaskNotCancelable", "InvalidParams"} THEN "request" ELSE "server"

\* What the handler raised is what the caller can tell it was, at whatever moment
\* it was raised: JSON-RPC and gRPC name the kind, in a stream as well, and the
\* status of a REST call that is no stream blames the request for a fault of the
\* request and the server for one of the server.  Of a stream of REST the caller
\* only learns that it broke off: a 503, whatever was wrong, and never an end.
ErrorsKeepTheirKind ==
  ErrorReached =>
    LET kind == said[Len(said)]
    IN IF call.transport # "rest"
         THEN outcome.how \in {"jsonrpc", "grpc", "errorResponse"} /\ outcome.why = kind
       ELSE IF Streams THEN outcome = [how |-> "http", why |-> "503"]
       ELSE outcome.how = "http" /\ Blamed = Fault(kind)

\* Whatever becomes of the request, its caller is not left waiting, unless the
\* agent never ends: the generator behind a stream does not wait for a body
\* that can no longer be read, and every failure reaches the client.
AnswerArrives ==
  []<>(handler # "running") => (client = "waiting" ~> client = "over")

\* The comment on RequestContext.add_activated_extension: "This causes the
\* extension to be indicated back to the client in the response."
ExtensionsTold == outcome.how = "done" /\ activated => told

\* A stream of REST blames the side that was at fault, as other calls of REST do:
\* a task that is not there is not the server's fault.
StreamsBlameRightly ==
  ErrorReached /\ call.transport = "rest" /\ Streams => Blamed = Fault(said[Len(said)])

\* What goes wrong with a connection reaches the caller as an error of the
\* client library.
LossesAreClientErrors == outcome.how # "httpx"

=============================================================================
