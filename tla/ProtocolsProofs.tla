--------------------------- MODULE ProtocolsProofs ---------------------------
(***************************************************************************)
(* What the transports and their protocol handlers guarantee for streams of*)
(* any length, whatever the request handler says, raises or leaves undone, *)
(* and wherever a connection breaks or a caller leaves.                    *)
(***************************************************************************)
EXTENDS Protocols, TLAPS

-----------------------------------------------------------------------------
(* The inductive invariant.                                                *)

Why == Kind \union {"", "JSONParse", "InvalidRequest", "MethodNotFound", "Unknown",
                    "404", "409", "422", "500", "501"}
Frames == [is : {"item", "error", "end", "break"}, of : Nat, why : Why]

ProtocolShape ==
  /\ call \in Calls
  /\ client \in {"idle", "waiting", "over"}
  /\ request \in {"unsent", "sent", "taken", "lost"}
  /\ handler \in {"idle", "starting", "running", "ended", "dropped"}
  /\ link \in {"up", "down"}
  /\ said \in Seq(Event \union Last) /\ heard \in Seq(Nat) /\ frames \in Seq(Frames)

\* Callers hear the things said from the first one on, and leave none out.
HeardInOrder ==
  /\ Len(heard) <= Len(said)
  /\ \A j \in DOMAIN heard : heard[j] = j

\* Nothing is said before the request is taken.
NothingEarly ==
  /\ client = "idle" => request = "unsent"
  /\ request = "unsent" => client # "waiting"
  /\ request # "taken" => handler = "idle"
  /\ handler = "idle" => said = <<>>
  /\ request \in {"unsent", "sent"} => frames = <<>> \/ client = "over"

AtWork == handler \in {"starting", "running"}

\* As long as the handler is at work every frame is something it said, and all
\* it said is heard or on its way.
FramesKeepUp ==
  AtWork =>
    /\ \A i \in DOMAIN said : said[i] \in Event
    /\ IF Streams THEN response = "sse" ELSE said = <<>>
    /\ client = "waiting" /\ link = "up" =>
         /\ Len(said) = Len(heard) + Len(frames)
         /\ \A k \in DOMAIN frames : frames[k].is = "item"

\* The request was dealt with, and nothing more will be said.
Settled == ~AtWork /\ request \in {"taken", "lost"}

EndsWith(what) == said # <<>> /\ said[Len(said)] = what

ErrorFits(f) ==
  /\ Settled
  /\ \A kind \in Kind : EndsWith(kind) =>
       /\ f.why = IF call.transport = "rest" THEN A2AErrorToHttpStatus[kind] ELSE kind
       /\ call.transport = "rest" => ~Streams
       /\ call.transport = "jsonrpc" /\ Streams => response = "sse"

\* A server breaks a response off of itself over HTTP only, and after a
\* ServerError only streams of REST.
BreakFits ==
  /\ Settled /\ call.transport # "grpc"
  /\ \A kind \in Kind : EndsWith(kind) => call.transport = "rest" /\ Streams

\* A frame is the next thing said, the error of a settled request, the end of
\* all that was said, or a connection broken off.
FrameFits(k) ==
  LET f == frames[k]
  IN /\ f.is = "item" =>
          /\ f.of = Len(heard) + k /\ f.of <= Len(said)
          /\ Streams \/ (EndsWith("result") /\ Len(said) = 1)
     /\ f.is = "error" => ErrorFits(f)
     /\ f.is = "end" =>
          /\ Streams
          /\ \/ k > 1 /\ frames[k - 1].is = "error"
             \/ EndsWith("complete") /\ Len(said) = Len(heard) + k
     /\ f.is = "break" => link = "down" \/ BreakFits

FramesFit == client = "waiting" => \A k \in DOMAIN frames : FrameFits(k)

\* What the caller of a handler that raised this kind is told of it.
KindTold(kind) ==
  IF call.transport # "rest"
    THEN outcome.how \in {"jsonrpc", "grpc", "errorResponse"} /\ outcome.why = kind
  ELSE IF Streams THEN outcome = [how |-> "http", why |-> "503"]
  ELSE outcome.how = "http" /\ outcome.why = A2AErrorToHttpStatus[kind]

\* What the caller was told when its call was over: of an error of the handler
\* its kind, or the status of it.  Nothing more will be said then.
OutcomeFits ==
  /\ outcome.how = "none" <=> client # "over"
  /\ client = "over" /\ link = "up" /\ outcome.how \notin {"left", "done", "invalidState"} =>
       /\ request = "unsent" \/ Settled
       /\ \A kind \in Kind : EndsWith(kind) => KindTold(kind)

ProtocolInv ==
  /\ ProtocolShape /\ HeardInOrder /\ NothingEarly /\ FramesKeepUp /\ FramesFit
  /\ OutcomeFits /\ NothingCutShort
-----------------------------------------------------------------------------
(* Facts about the operators.                                              *)

\* What the helpers make are frames.
LEMMA FrameTypes ==
  /\ \A i \in Nat : Item(i) \in Frames /\ Item(i).is = "item" /\ Item(i).of = i
  /\ \A why \in Why : Error(why) \in Frames /\ Error(why).is = "error" /\ Error(why).why = why
  /\ End \in Frames /\ End.is = "end"
  /\ Break \in Frames /\ Break.is = "break"
BY DEF Item, Error, End, Break, Frame, Frames, Why

\* Replies are sequences of one or two frames.
LEMMA ShortReplies ==
  ASSUME NEW f \in Frames, NEW g \in Frames
  PROVE  /\ <<f>> \in Seq(Frames) /\ Len(<<f>>) = 1 /\ <<f>>[1] = f
         /\ <<f, g>> \in Seq(Frames) /\ Len(<<f, g>>) = 2
         /\ <<f, g>>[1] = f /\ <<f, g>>[2] = g
OBVIOUS

\* A call goes over one of the transports.
LEMMA Transports ==
  ASSUME call \in Calls
  PROVE  call.transport \in {"jsonrpc", "rest", "grpc"}
BY ProtocolsAssumption DEF Calls

\* Every kind of error has a status.
LEMMA Statuses ==
  \A kind \in Kind : A2AErrorToHttpStatus[kind] \in Why
<1>1. /\ A2AErrorToHttpStatus["TaskNotFound"] = "404"
      /\ A2AErrorToHttpStatus["TaskNotCancelable"] = "409"
      /\ A2AErrorToHttpStatus["InvalidParams"] = "422"
      /\ A2AErrorToHttpStatus["UnsupportedOperation"] = "501"
      /\ A2AErrorToHttpStatus["Internal"] = "500"
  BY DEF A2AErrorToHttpStatus
<1>2. QED
  BY <1>1 DEF Kind, Why

\* What the protocol handlers make of the n-th thing that was said: an item of
\* what was given, the end of what is complete, and of an error what tells its
\* kind, unless the connection is broken off.
LEMMA ReplyFits ==
  ASSUME call \in Calls, NEW what \in Event \union Last, NEW n \in Nat,
         what \in Event \union {"complete"} => Streams,
         what \in {"result", "nothing"} => ~Streams
  PROVE  /\ what \in Given => Reply(what, n) = <<Item(n)>>
         /\ what = "complete" => Reply(what, n) = <<End>>
         /\ what \notin Given \union {"complete"} =>
              \/ /\ Reply(what, n) = <<Break>> /\ call.transport # "grpc"
                 /\ what \in Kind => call.transport = "rest" /\ Streams
              \/ \E why \in Why :
                   /\ \/ Reply(what, n) = <<Error(why)>>
                      \/ Reply(what, n) = <<Error(why), End>> /\ Streams
                   /\ what \in Kind =>
                        /\ why = IF call.transport = "rest" THEN A2AErrorToHttpStatus[what]
                                 ELSE what
                        /\ call.transport = "rest" => ~Streams
<1>1. CASE call.transport = "jsonrpc"
  <2>1. CASE Streams
    BY <1>1, <2>1 DEF Reply, Chunks, JsonRpcChunk, Given, Last, Kind, Event, Why
  <2>2. CASE ~Streams
    BY <1>1, <2>2 DEF Reply, Answer, JsonRpcAnswer, Given, Last, Kind, Event, Why
  <2>3. QED
    BY <2>1, <2>2
<1>2. CASE call.transport = "rest"
  <2>1. CASE Streams
    BY <1>2, <2>1 DEF Reply, Chunks, RestChunk, Given, Last, Kind, Event, Why
  <2>2. CASE ~Streams
    BY <1>2, <2>2, Statuses
       DEF Reply, Answer, RestAnswer, Given, Last, Kind, Event, Why, A2AErrorToHttpStatus
  <2>3. QED
    BY <2>1, <2>2
<1>3. CASE call.transport = "grpc"
  <2>1. CASE Streams
    BY <1>3, <2>1 DEF Reply, Chunks, GrpcChunk, abort_context, Given, Last, Kind, Event, Why
  <2>2. CASE ~Streams
    BY <1>3, <2>2 DEF Reply, Answer, GrpcAnswer, abort_context, Given, Last, Kind, Event, Why
  <2>3. QED
    BY <2>1, <2>2
<1>4. QED
  BY <1>1, <1>2, <1>3, Transports

-----------------------------------------------------------------------------
(* The invariant holds at first, and the steps that say nothing keep it.   *)

\* Nothing was asked or said.
LEMMA ProtocolInitInv == ProtocolInit => ProtocolInv
<1> SUFFICES ASSUME ProtocolInit PROVE ProtocolInv
  OBVIOUS
<1>1. ProtocolShape
  <2>1. call \in Calls
    BY DEF ProtocolInit
  <2>2. said = <<>> /\ heard = <<>> /\ frames = <<>>
    BY DEF ProtocolInit
  <2>3. said \in Seq(Event \union Last) /\ heard \in Seq(Nat) /\ frames \in Seq(Frames)
    BY <2>2
  <2>4. QED
    BY <2>1, <2>3 DEF ProtocolInit, ProtocolShape
<1>2. HeardInOrder /\ NothingEarly /\ FramesKeepUp /\ FramesFit
  <2>1. heard = <<>> /\ said = <<>> /\ frames = <<>>
    BY DEF ProtocolInit
  <2>2. HeardInOrder
    BY <2>1 DEF HeardInOrder
  <2>3. NothingEarly /\ FramesKeepUp /\ FramesFit
    BY DEF ProtocolInit, NothingEarly, FramesKeepUp, FramesFit, AtWork
  <2>4. QED
    BY <2>2, <2>3
<1>3. OutcomeFits /\ NothingCutShort
  BY DEF ProtocolInit, OutcomeFits, NothingCutShort
<1>4. QED
  BY <1>1, <1>2, <1>3 DEF ProtocolInv

\* A call that is over, however, and otherwise leaves everything as it is.
LEMMA OverKeeps ==
  ASSUME ProtocolInv, NEW how, NEW why, Over(how, why),
         how \notin {"none", "done"}, link' \in {link, "down"},
         how = "left" \/ request = "unsent" \/ link' = "down",
         UNCHANGED <<call, heard, serverVars>>, frames' \in Seq(Frames)
  PROVE  ProtocolInv'
<1> USE DEF ProtocolInv
<1>1. ProtocolShape'
  BY DEF ProtocolShape, Over, serverVars
<1>2. HeardInOrder' /\ NothingEarly' /\ FramesFit'
  BY DEF HeardInOrder, NothingEarly, FramesFit, Over, serverVars
<1>3. FramesKeepUp'
  BY DEF FramesKeepUp, AtWork, Streams, Over, serverVars
<1>4. OutcomeFits'
  <2>1. request = "unsent" => said = <<>>
    BY DEF NothingEarly
  <2>2. client' = "over" /\ outcome'.how = how /\ UNCHANGED <<request, said>>
    BY DEF Over, serverVars
  <2>3. \A kind : EndsWith(kind)' => said # <<>>
    BY <2>2 DEF EndsWith
  <2>4. QED
    BY <2>1, <2>2, <2>3 DEF OutcomeFits
<1>5. NothingCutShort'
  BY DEF NothingCutShort, Over
<1>6. QED
  BY <1>1, <1>2, <1>3, <1>4, <1>5

\* A connection that is lost ends the call with an error of its own.
LEMMA LossIsOver ==
  ASSUME Lost503 \/ LostRaw
  PROVE  Over("http", "503") \/ Over("httpx", "")
<1>1. CASE Lost503
  BY <1>1 DEF Lost503
<1>2. CASE LostRaw
  BY <1>2 DEF LostRaw
<1>3. QED
  BY <1>1, <1>2

\* The steps of the caller that read nothing.
LEMMA CallerInv ==
  ASSUME ProtocolInv, Ask \/ Declines \/ TimesOut \/ Leaves
  PROVE  ProtocolInv'
<1> USE DEF ProtocolInv
<1>1. CASE Ask
  <2>1. ProtocolShape'
    BY <1>1 DEF ProtocolShape, Ask
  <2>2. HeardInOrder' /\ NothingEarly' /\ FramesKeepUp'
    BY <1>1 DEF HeardInOrder, NothingEarly, FramesKeepUp, AtWork, Ask
  <2>3. FramesFit'
    BY <1>1 DEF FramesFit, NothingEarly, Ask
  <2>4. OutcomeFits' /\ NothingCutShort'
    BY <1>1 DEF OutcomeFits, NothingCutShort, Ask
  <2>5. QED
    BY <2>1, <2>2, <2>3, <2>4
<1>2. CASE Declines
  BY <1>2, OverKeeps DEF Declines, ProtocolShape, NothingEarly
<1>3. CASE TimesOut
  <2>1. Over("timeout", "") \/ Over("http", "503") \/ Over("httpx", "")
    BY <1>3, LossIsOver DEF TimesOut
  <2>2. link' = "down" /\ UNCHANGED <<call, heard, serverVars>> /\ frames' \in Seq(Frames)
    BY <1>3 DEF TimesOut, ProtocolShape
  <2>3. QED
    BY <2>1, <2>2, OverKeeps
<1>4. CASE Leaves
  BY <1>4, OverKeeps DEF Leaves, ProtocolShape
<1>5. QED
  BY <1>1, <1>2, <1>3, <1>4

\* A request that is refused, or cannot be read, is settled by one frame.
LEMMA RefusalInv ==
  ASSUME ProtocolInv, TakeBad \/ Refuse
  PROVE  ProtocolInv'
<1> USE DEF ProtocolInv
<1>1. PICK f \in Frames : frames' = <<f>> /\ (f.is = "error" \/ (f.is = "break" /\ call.transport # "grpc"))
  <2>1. CASE TakeBad
    <3>1. call.defect \in {"json", "large", "base", "method", "params"}
      BY <2>1 DEF TakeBad, ProtocolShape, Calls
    <3>2. JsonRpcDefect[call.defect] \in Why
      <4>1. /\ JsonRpcDefect["json"] = "JSONParse" /\ JsonRpcDefect["large"] = "InvalidRequest"
            /\ JsonRpcDefect["base"] = "InvalidRequest" /\ JsonRpcDefect["method"] = "MethodNotFound"
            /\ JsonRpcDefect["params"] = "InvalidParams"
        BY DEF JsonRpcDefect
      <4>2. QED
        BY <3>1, <4>1 DEF Why, Kind
    <3>3. QED
      BY <2>1, <3>2, FrameTypes DEF TakeBad, DefectShown, Why, Kind
  <2>2. CASE Refuse
    <3>1. RefusalShown \in {"Internal", "Unknown", "500", "501"}
      BY DEF RefusalShown
    <3>2. RefusalShown \in Why
      BY <3>1 DEF Why, Kind
    <3>3. Error(RefusalShown) \in Frames /\ Error(RefusalShown).is = "error"
      BY <3>2, FrameTypes DEF Error, Frame
    <3>4. frames' = <<Error(RefusalShown)>>
      BY <2>2 DEF Refuse
    <3>5. QED
      BY <3>3, <3>4
  <2>3. QED
    BY <2>1, <2>2
<1>2. /\ request = "sent" /\ request' = "taken" /\ handler = "idle" /\ said = <<>>
      /\ UNCHANGED <<call, client, outcome, heard, handler, said, link>>
  BY DEF TakeBad, Refuse, clientVars, NothingEarly
<1>3. ProtocolShape' /\ HeardInOrder' /\ NothingEarly'
  BY <1>1, <1>2 DEF ProtocolShape, HeardInOrder, NothingEarly
<1>4. FramesKeepUp' /\ Settled'
  BY <1>2 DEF FramesKeepUp, Settled, AtWork
<1>5. FramesFit'
  BY <1>1, <1>2, <1>4 DEF FramesFit, FrameFits, ErrorFits, BreakFits, EndsWith
<1>6. OutcomeFits' /\ NothingCutShort'
  BY <1>2, <1>4 DEF OutcomeFits, NothingCutShort, EndsWith
<1>7. QED
  BY <1>3, <1>4, <1>5, <1>6

\* The handler of an accepted request has said nothing yet.
LEMMA AcceptInv ==
  ASSUME ProtocolInv, Accept
  PROVE  ProtocolInv'
<1> USE DEF ProtocolInv
<1>1. /\ request = "sent" /\ request' = "taken" /\ handler = "idle" /\ said = <<>>
      /\ handler' = "starting" /\ (client = "over" \/ frames = <<>>)
      /\ Streams' = Streams /\ response' = IF Streams THEN "sse" ELSE "none"
      /\ UNCHANGED <<call, client, outcome, heard, said, frames, link>>
  BY DEF Accept, clientVars, NothingEarly, Streams
<1>2. ProtocolShape' /\ HeardInOrder' /\ NothingEarly'
  BY <1>1 DEF ProtocolShape, HeardInOrder, NothingEarly
<1>3. FramesKeepUp'
  BY <1>1 DEF FramesKeepUp, HeardInOrder, ProtocolShape
<1>4. FramesFit'
  BY <1>1 DEF FramesFit
<1>5. OutcomeFits' /\ NothingCutShort'
  BY <1>1 DEF OutcomeFits, NothingCutShort, Settled
<1>6. QED
  BY <1>2, <1>3, <1>4, <1>5

\* The handler starts, uses an extension or is cancelled.
LEMMA HandlerInv ==
  ASSUME ProtocolInv, Run \/ Activates \/ ServerNotices
  PROVE  ProtocolInv'
<1> USE DEF ProtocolInv
<1>1. /\ AtWork /\ handler' \in {"running", "dropped"}
      /\ Streams' = Streams
      /\ UNCHANGED <<call, client, outcome, heard, request, said, response, frames, link>>
  BY DEF Run, Activates, ServerNotices, clientVars, AtWork, Streams
<1>2. ProtocolShape' /\ HeardInOrder' /\ NothingEarly' /\ NothingCutShort'
  BY <1>1 DEF ProtocolShape, HeardInOrder, NothingEarly, NothingCutShort, AtWork
<1>3. FramesKeepUp'
  BY <1>1 DEF FramesKeepUp
<1>4. FramesFit'
  BY <1>1 DEF FramesFit, FrameFits, ErrorFits, BreakFits, EndsWith, Settled, AtWork
<1>5. OutcomeFits'
  BY <1>1 DEF OutcomeFits, Settled, NothingEarly, AtWork
<1>6. QED
  BY <1>2, <1>3, <1>4, <1>5

\* Of what is on its way a broken connection leaves a beginning.
LEMMA LinkInv ==
  ASSUME ProtocolInv, LinkBreaks
  PROVE  ProtocolInv'
<1> USE DEF ProtocolInv
<1>1. /\ client = "waiting" /\ link' = "down"
      /\ request' = IF request = "sent" THEN "lost" ELSE request
      /\ Streams' = Streams
      /\ UNCHANGED <<call, client, outcome, heard, handler, said, response>>
  BY DEF LinkBreaks, clientVars, Streams
<1>2. PICK n \in 0..Len(frames) : frames' = SubSeq(frames, 1, n) \o <<Break>>
  BY DEF LinkBreaks
<1>3. /\ frames' \in Seq(Frames) /\ Len(frames') = n + 1
      /\ \A k \in 1..n : k \in DOMAIN frames /\ frames'[k] = frames[k]
      /\ frames'[n + 1].is = "break"
  <2>1. frames \in Seq(Frames) /\ <<Break>> \in Seq(Frames) /\ SubSeq(frames, 1, n) \in Seq(Frames)
    BY FrameTypes DEF ProtocolShape
  <2>2. Len(SubSeq(frames, 1, n)) = n /\ \A k \in 1..n : SubSeq(frames, 1, n)[k] = frames[k]
    BY <2>1
  <2>3. QED
    BY <1>2, <2>1, <2>2, FrameTypes
<1>4. ProtocolShape' /\ HeardInOrder' /\ NothingEarly' /\ NothingCutShort' /\ OutcomeFits'
  <2>1. ProtocolShape'
    BY <1>1, <1>3 DEF ProtocolShape
  <2>2. HeardInOrder' /\ NothingEarly'
    BY <1>1 DEF HeardInOrder, NothingEarly, ProtocolShape
  <2>3. NothingCutShort' /\ OutcomeFits'
    BY <1>1 DEF NothingCutShort, OutcomeFits
  <2>4. QED
    BY <2>1, <2>2, <2>3
<1>5. FramesKeepUp'
  BY <1>1 DEF FramesKeepUp, AtWork
<1>6. FramesFit'
  <2>1. ASSUME NEW k \in 1..n PROVE FrameFits(k)'
    BY <1>1, <1>3, <2>1
       DEF FramesFit, FrameFits, ErrorFits, BreakFits, EndsWith, Settled, AtWork, ProtocolShape
  <2>2. FrameFits(n + 1)'
    BY <1>1, <1>3 DEF FrameFits
  <2>3. DOMAIN frames' = 1..(n + 1)
    BY <1>3
  <2>4. QED
    BY <2>1, <2>2, <2>3 DEF FramesFit
<1>7. QED
  BY <1>4, <1>5, <1>6
-----------------------------------------------------------------------------
(* The handler says something.                                             *)

\* The frames of what is said fit, whatever is said.
LEMMA SaysInv ==
  ASSUME ProtocolInv, NEW what \in Event \union Last, Says(what),
         what \in Event \union {"complete"} => Streams,
         what \in {"result", "nothing"} => ~Streams
  PROVE  ProtocolInv'
<1> USE DEF ProtocolInv
<1> DEFINE n == Len(said) + 1
           reply == Reply(what, n)
<1>1. /\ handler = "running" /\ AtWork /\ request = "taken" /\ client # "idle"
      /\ handler' = IF what \in Last THEN "ended" ELSE "running"
      /\ response' = IF response = "none" THEN "json" ELSE response
      /\ Streams' = Streams
      /\ UNCHANGED <<call, client, outcome, heard, request, link>>
  BY DEF Says, clientVars, AtWork, NothingEarly, Streams
<1>2. /\ said \in Seq(Event \union Last) /\ said' \in Seq(Event \union Last)
      /\ Len(said') = n /\ n \in Nat \ {0}
      /\ said'[n] = what /\ DOMAIN said' = 1..n
      /\ \A i \in DOMAIN said : i \in 1..n /\ said'[i] = said[i] /\ said[i] \in Event
  BY <1>1 DEF Says, ProtocolShape, FramesKeepUp
<1>3. \A x : EndsWith(x)' <=> x = what
  BY <1>2 DEF EndsWith
<1>4. what \in Last => Settled'
  BY <1>1 DEF Settled, AtWork
<1>5. /\ what \in Event => what \notin Last /\ what \in Given
      /\ what = "result" => what \in Last /\ what \in Given
      /\ what \notin Given => what \in Last /\ what \notin Event
      /\ what \in Given => what \in Event \/ what = "result"
      /\ "complete" \notin Kind
  BY DEF Event, Given, Last, Kind
<1>6. \/ what \in Given /\ reply = <<Item(n)>>
      \/ what = "complete" /\ reply = <<End>>
      \/ what \notin Given \union {"complete"} /\ reply = <<Break>> /\ call.transport # "grpc"
         /\ (what \in Kind => call.transport = "rest" /\ Streams)
      \/ \E why \in Why :
           /\ what \notin Given \union {"complete"}
           /\ \/ reply = <<Error(why)>>
              \/ reply = <<Error(why), End>> /\ Streams
           /\ what \in Kind =>
                /\ why = IF call.transport = "rest" THEN A2AErrorToHttpStatus[what] ELSE what
                /\ call.transport = "rest" => ~Streams
  <2>1. call \in Calls
    BY DEF ProtocolShape
  <2>2. CASE what \in Given
    BY <1>2, <2>1, <2>2, ReplyFits
  <2>3. CASE what = "complete"
    BY <1>2, <2>1, <2>3, ReplyFits
  <2>4. CASE what \notin Given \union {"complete"}
    <3>1. \/ /\ reply = <<Break>> /\ call.transport # "grpc"
             /\ what \in Kind => call.transport = "rest" /\ Streams
          \/ \E why \in Why :
               /\ \/ reply = <<Error(why)>>
                  \/ reply = <<Error(why), End>> /\ Streams
               /\ what \in Kind =>
                    /\ why = IF call.transport = "rest" THEN A2AErrorToHttpStatus[what]
                             ELSE what
                    /\ call.transport = "rest" => ~Streams
      BY <1>2, <2>1, <2>4, ReplyFits
    <3> HIDE DEF reply
    <3>2. QED
      BY <2>4, <3>1
  <2>5. QED
    BY <2>2, <2>3, <2>4
<1> HIDE DEF reply
<1>7. /\ reply \in Seq(Frames) /\ Len(reply) \in 1..2
      /\ \A k \in 1..Len(reply) : reply[k] \in Frames
  <2>1. Item(n) \in Frames /\ End \in Frames /\ Break \in Frames
    BY <1>2, FrameTypes
  <2>2. PICK f \in Frames, g \in Frames : reply = <<f>> \/ reply = <<f, g>>
    <3>1. \A why \in Why : Error(why) \in Frames
      BY FrameTypes
    <3>2. QED
      BY <1>6, <2>1, <3>1
  <2>3. CASE reply = <<f>>
    <3>1. reply \in Seq(Frames) /\ Len(reply) = 1 /\ reply[1] = f
      BY <2>3, ShortReplies
    <3>2. QED
      BY <3>1
  <2>4. CASE reply = <<f, g>>
    <3>1. reply \in Seq(Frames) /\ Len(reply) = 2 /\ reply[1] = f /\ reply[2] = g
      BY <2>4, ShortReplies
    <3>2. QED
      BY <3>1
  <2>5. QED
    BY <2>2, <2>3, <2>4
<1>8. frames' = frames \/ (client = "waiting" /\ link = "up" /\ frames' = frames \o reply)
  BY DEF Says, reply
<1>9. frames' \in Seq(Frames) /\ frames \in Seq(Frames)
  <2>1. frames \in Seq(Frames)
    BY DEF ProtocolShape
  <2>2. reply \in Seq(Frames)
    BY <1>7
  <2>3. frames \o reply \in Seq(Frames)
    BY <2>1, <2>2
  <2>4. QED
    BY <1>8, <2>1, <2>3
<1>10. ProtocolShape' /\ NothingEarly'
  BY <1>1, <1>2, <1>9 DEF ProtocolShape, NothingEarly
<1>11. HeardInOrder' /\ NothingCutShort'
  <2>1. HeardInOrder'
    BY <1>1, <1>2 DEF HeardInOrder, ProtocolShape
  <2>2. NothingCutShort'
    <3>1. CASE outcome.how # "done"
      BY <1>1, <3>1 DEF NothingCutShort
    <3>2. CASE outcome.how = "done"
      <4>1. said # <<>> => said[Len(said)] \in Event
        BY <1>2
      <4>2. call.api = "client" /\ heard = <<1>> /\ said[1] = "message"
        BY <3>2, <4>1 DEF NothingCutShort, Event
      <4>3. 1 \in DOMAIN said
        BY <4>2, <1>2 DEF HeardInOrder
      <4>4. QED
        BY <1>1, <1>2, <4>2, <4>3 DEF NothingCutShort
    <3>3. QED
      BY <3>1, <3>2
  <2>3. QED
    BY <2>1, <2>2
<1>12. OutcomeFits'
  BY <1>1 DEF OutcomeFits, Settled
<1>13. ASSUME client = "waiting", NEW k \in DOMAIN frames
       PROVE  /\ FrameFits(k) /\ frames[k].is \in {"item", "break"}
              /\ frames[k].is = "item" => frames[k].of = Len(heard) + k /\ frames[k].of <= Len(said)
              /\ frames[k].is = "break" => link = "down"
              /\ frames[k].is = "item" => Streams
  <2>1. FrameFits(k) /\ (k > 1 => FrameFits(k - 1)) /\ k \in 1..Len(frames)
    BY <1>9, <1>13 DEF FramesFit
  <2>2. frames[k].is # "error" /\ (k > 1 => frames[k - 1].is # "error")
    BY <1>1, <2>1 DEF FrameFits, ErrorFits, Settled
  <2>6. ~BreakFits
    BY <1>1 DEF BreakFits, Settled
  <2>3. ~EndsWith("complete") /\ ~EndsWith("result")
    BY <1>2 DEF EndsWith, Event
  <2>4. frames[k].is \in {"item", "error", "end", "break"}
    <3>1. frames[k] \in Frames
      BY <1>9, <1>13
    <3>2. QED
      BY <3>1 DEF Frames
  <2>5. QED
    BY <2>1, <2>2, <2>3, <2>4, <2>6 DEF FrameFits
<1>14. FramesFit'
  <2> SUFFICES ASSUME client = "waiting", NEW k \in DOMAIN frames' PROVE FrameFits(k)'
    BY <1>1 DEF FramesFit
  <2>1. CASE k \in DOMAIN frames
    <3>1. frames'[k] = frames[k] /\ k \in Nat
      <4>1. k \in 1..Len(frames) /\ Len(frames) \in Nat
        BY <1>9, <2>1
      <4>2. (frames \o reply)[k] = frames[k]
        BY <1>7, <1>9, <4>1
      <4>3. QED
        BY <1>8, <4>1, <4>2
    <3>2. QED
      BY <1>1, <1>2, <1>13, <2>1, <3>1 DEF FrameFits
  <2>2. CASE k \notin DOMAIN frames
    <3>1. frames' = frames \o reply /\ link = "up"
      BY <1>8, <2>2
    <3>2. Len(said) = Len(heard) + Len(frames) /\ Len(frames) \in Nat /\ Len(heard) \in Nat
      BY <1>1, <1>9, <3>1 DEF FramesKeepUp, ProtocolShape
    <3>3. PICK m \in 1..Len(reply) : /\ k = Len(frames) + m /\ frames'[k] = reply[m]
                                     /\ m > 1 => frames'[k - 1] = reply[m - 1]
      <4>1. k \in 1..(Len(frames) + Len(reply)) /\ k > Len(frames)
        BY <1>7, <1>9, <2>2, <3>1
      <4>2. k - Len(frames) \in 1..Len(reply)
        BY <1>7, <3>2, <4>1
      <4>3. frames'[k] = reply[k - Len(frames)]
        BY <1>7, <1>9, <3>1, <4>1
      <4>4. ASSUME k - Len(frames) > 1 PROVE frames'[k - 1] = reply[(k - Len(frames)) - 1]
        <5>1. k - 1 \in 1..(Len(frames) + Len(reply)) /\ k - 1 > Len(frames)
          BY <1>7, <3>2, <4>1, <4>4
        <5>2. frames'[k - 1] = reply[(k - 1) - Len(frames)]
          BY <1>7, <1>9, <3>1, <5>1
        <5>3. (k - 1) - Len(frames) = (k - Len(frames)) - 1
          BY <3>2, <4>1
        <5>4. QED
          BY <5>2, <5>3
      <4>5. k = Len(frames) + (k - Len(frames))
        BY <3>2, <4>1
      <4>6. QED
        BY <4>2, <4>3, <4>4, <4>5
    <3>4. ~Streams => said = <<>> /\ n = 1
      BY <1>1, <1>2 DEF FramesKeepUp
    <3>5. CASE what \in Given
      <4>1. reply[m].is = "item" /\ reply[m].of = n /\ m = 1
        <5>1. reply = <<Item(n)>> /\ Item(n) \in Frames
          BY <1>2, <1>5, <1>6, <3>5, FrameTypes DEF Given, Event
        <5>2. QED
          BY <1>2, <3>3, <5>1, FrameTypes, ShortReplies
      <4>2. Streams \/ what = "result"
        BY <1>5, <3>5
      <4>3. QED
        BY <1>1, <1>2, <1>3, <3>2, <3>3, <3>4, <4>1, <4>2 DEF FrameFits
    <3>6. CASE what = "complete"
      <4>1. reply[m].is = "end" /\ m = 1 /\ Streams
        <5>1. reply = <<End>> /\ End \in Frames
          BY <1>5, <1>6, <3>6, FrameTypes DEF Given, Event
        <5>2. QED
          BY <3>3, <3>6, <5>1, FrameTypes, ShortReplies
      <4>2. QED
        BY <1>1, <1>2, <1>3, <3>2, <3>3, <3>6, <4>1 DEF FrameFits
    <3>7. CASE /\ what \notin Given \union {"complete"}
               /\ reply = <<Break>> /\ call.transport # "grpc"
               /\ what \in Kind => call.transport = "rest" /\ Streams
      <4>1. reply[m].is = "break"
        BY <3>3, <3>7, FrameTypes, ShortReplies
      <4>2. BreakFits'
        BY <1>1, <1>3, <1>4, <1>5, <3>7 DEF BreakFits
      <4>3. QED
        BY <3>3, <4>1, <4>2 DEF FrameFits
    <3>8. ASSUME NEW why \in Why, what \notin Given \union {"complete"},
                 reply = <<Error(why)>> \/ (reply = <<Error(why), End>> /\ Streams),
                 what \in Kind =>
                   /\ why = IF call.transport = "rest" THEN A2AErrorToHttpStatus[what] ELSE what
                   /\ call.transport = "rest" => ~Streams
          PROVE  FrameFits(k)'
      <4>1. CASE m = 1
        <5>1. reply[m].is = "error" /\ reply[m].why = why
          BY <3>8, <4>1, FrameTypes, ShortReplies
        <5>2. Streams => response' = "sse"
          BY <1>1 DEF FramesKeepUp
        <5>3. frames'[k].is = "error" /\ frames'[k].why = why
          BY <3>3, <5>1
        <5>4. ASSUME NEW kind \in Kind, EndsWith(kind)'
              PROVE  /\ why = IF call.transport = "rest" THEN A2AErrorToHttpStatus[kind] ELSE kind
                     /\ call.transport = "rest" => ~Streams
          BY <1>3, <3>8, <5>4
        <5>5. what \in Last
          BY <1>5, <3>8
        <5>6. QED
          BY <1>1, <1>4, <5>2, <5>3, <5>4, <5>5 DEF FrameFits, ErrorFits
      <4>2. CASE m = 2
        <5>1. reply[m].is = "end" /\ reply[m - 1].is = "error" /\ Streams
          BY <3>3, <3>8, <4>2, FrameTypes, ShortReplies
        <5>2. frames'[k - 1].is = "error" /\ k > 1
          BY <3>2, <3>3, <4>2, <5>1
        <5>3. QED
          BY <1>1, <3>3, <5>1, <5>2 DEF FrameFits
      <4>3. QED
        BY <1>7, <3>3, <4>1, <4>2
    <3>9. QED
      BY <1>6, <3>5, <3>6, <3>7, <3>8
  <2>3. QED
    BY <2>1, <2>2
<1>15. FramesKeepUp'
  <2> SUFFICES ASSUME AtWork' PROVE FramesKeepUp'
    BY DEF FramesKeepUp
  <2>1. what \in Event /\ Streams /\ reply = <<Item(n)>> /\ reply[1].is = "item" /\ Len(reply) = 1
    BY <1>1, <1>2, <1>5, <1>6, FrameTypes DEF AtWork, Given, Last, Event
  <2>2. \A i \in DOMAIN said' : said'[i] \in Event
    <3>1. \A i \in 1..n : i \in DOMAIN said \/ i = n
      BY <1>2
    <3>2. QED
      BY <1>2, <2>1, <3>1
  <2>3. response' = "sse"
    BY <1>1, <2>1 DEF FramesKeepUp
  <2>4. ASSUME client = "waiting", link = "up"
        PROVE  /\ Len(said') = Len(heard) + Len(frames')
               /\ \A k \in DOMAIN frames' : frames'[k].is = "item"
    <3>1. frames' = frames \o reply
      BY <2>4 DEF Says, reply
    <3>2. Len(said) = Len(heard) + Len(frames) /\ \A k \in DOMAIN frames : frames[k].is = "item"
      BY <1>1, <2>4 DEF FramesKeepUp
    <3>3. QED
      <4>1. Len(frames') = Len(frames) + 1 /\ frames'[Len(frames) + 1] = reply[1]
        BY <1>7, <1>9, <2>1, <3>1
      <4>2. \A k \in DOMAIN frames : frames'[k] = frames[k]
        BY <1>7, <1>9, <3>1
      <4>3. \A k \in DOMAIN frames' : k \in DOMAIN frames \/ k = Len(frames) + 1
        BY <1>9, <4>1
      <4>4. Len(heard) \in Nat /\ Len(frames) \in Nat /\ Len(said) \in Nat
        BY DEF ProtocolShape
      <4>5. QED
        BY <1>2, <2>1, <3>2, <4>1, <4>2, <4>3, <4>4
  <2>5. QED
    BY <1>1, <2>1, <2>2, <2>3, <2>4 DEF FramesKeepUp
<1>16. QED
  BY <1>10, <1>11, <1>12, <1>14, <1>15
-----------------------------------------------------------------------------
(* The caller reads a frame.                                               *)

\* The frame is the first of those that fit; the others move up.
LEMMA ReadsFrame ==
  ASSUME ProtocolInv, ClientReads
  PROVE  /\ client = "waiting" /\ 1 \in DOMAIN frames /\ Head(frames) = frames[1] /\ FrameFits(1)
         /\ frames' \in Seq(Frames) /\ Len(frames') = Len(frames) - 1
         /\ \A k \in DOMAIN frames' : /\ k \in Nat \ {0} /\ k + 1 \in DOMAIN frames
                                      /\ frames'[k] = frames[k + 1] /\ FrameFits(k + 1)
                                      /\ k > 1 => frames'[k - 1] = frames[k]
         /\ Streams' = Streams
<1> USE DEF ProtocolInv
<1>1. client = "waiting" /\ frames # <<>> /\ frames \in Seq(Frames) /\ frames' = Tail(frames)
  BY DEF ClientReads, ProtocolShape
<1>2. 1 \in DOMAIN frames /\ Head(frames) = frames[1]
  BY <1>1
<1>3. frames' \in Seq(Frames) /\ Len(frames') = Len(frames) - 1
  BY <1>1
<1>4. \A k \in DOMAIN frames' : /\ k \in Nat \ {0} /\ k + 1 \in DOMAIN frames
                                /\ frames'[k] = frames[k + 1]
                                /\ k > 1 => frames'[k - 1] = frames[k]
  BY <1>1, <1>3
<1>5. \A k \in DOMAIN frames : FrameFits(k)
  BY <1>1 DEF FramesFit
<1>6. Streams' = Streams
  BY DEF ClientReads, Streams
<1>7. QED
  BY <1>1, <1>2, <1>3, <1>4, <1>5, <1>6

\* What a read changes of the call: it goes on with the next thing said, or is
\* over, with or without it.
LEMMA ReadsNext ==
  ASSUME ProtocolInv, ClientReads
  PROVE  LET f == frames[1]
             next == Len(heard) + 1
         IN \/ /\ f.is = "item" /\ Streams /\ UNCHANGED <<client, outcome>>
               /\ next <= Len(said) /\ heard' = Append(heard, next)
            \/ /\ f.is = "item" /\ Over("done", "")
               /\ next <= Len(said) /\ heard' = Append(heard, next)
               /\ \/ ~Streams /\ EndsWith("result") /\ Len(said) = 1
                  \/ call.api = "client" /\ heard = <<>> /\ said[1] = "message"
            \/ Over("invalidState", "") /\ UNCHANGED heard
            \/ f.is = "end" /\ ReadEnd
            \/ f.is = "error" /\ ReadError(f)
            \/ f.is = "break" /\ ReadBreak
<1>1. frames[1].is = "item" =>
              /\ frames[1].of = Len(heard) + 1 /\ frames[1].of <= Len(said)
              /\ Streams \/ (EndsWith("result") /\ Len(said) = 1)
  BY ReadsFrame DEF FrameFits
<1>2. \/ frames[1].is = "item" /\ ~Streams /\ ReadResult(frames[1])
      \/ frames[1].is = "item" /\ Streams /\ ReadEvent(frames[1])
      \/ frames[1].is = "end" /\ ReadEnd
      \/ frames[1].is = "error" /\ ReadError(frames[1])
      \/ frames[1].is = "break" /\ ReadBreak
  BY ReadsFrame DEF ClientReads
<1>3. CASE frames[1].is = "item" /\ ~Streams /\ ReadResult(frames[1])
  BY <1>1, <1>3 DEF ReadResult, Hears
<1>4. CASE frames[1].is = "item" /\ Streams /\ ReadEvent(frames[1])
  <2>1. heard = <<>> => Len(heard) + 1 = 1
    OBVIOUS
  <2>2. QED
    BY <1>1, <1>4, <2>1 DEF ReadEvent, Hears
<1>5. QED
  BY <1>2, <1>3, <1>4

\* An event of a stream is heard, and the stream goes on.
LEMMA HearsOnInv ==
  ASSUME ProtocolInv, ClientReads, frames[1].is = "item", Streams, UNCHANGED <<client, outcome>>,
         Len(heard) + 1 <= Len(said), heard' = Append(heard, Len(heard) + 1)
  PROVE  ProtocolInv'
<1> USE DEF ProtocolInv
<1>1. /\ heard \in Seq(Nat) /\ heard' \in Seq(Nat) /\ Len(heard') = Len(heard) + 1
      /\ Len(heard) \in Nat /\ Len(said) \in Nat /\ Len(frames) \in Nat
      /\ \A j \in DOMAIN heard' : heard'[j] = j
      /\ frames \in Seq(Frames) /\ frames' \in Seq(Frames)
  <2>1. heard \in Seq(Nat) /\ said \in Seq(Event \union Last) /\ frames \in Seq(Frames)
    BY DEF ProtocolShape
  <2>2. \A j \in DOMAIN heard' : heard'[j] = j
    BY <2>1 DEF HeardInOrder
  <2>3. QED
    BY <2>1, <2>2, ReadsFrame
<1>2. UNCHANGED <<call, client, outcome, request, handler, said, response, link>> /\ Streams' = Streams
  BY ReadsFrame DEF ClientReads, serverVars
<1>3. ProtocolShape' /\ HeardInOrder' /\ NothingEarly'
  <2>1. client = "waiting"
    BY ReadsFrame
  <2>2. request \notin {"unsent", "sent"}
    BY <2>1, ReadsFrame DEF NothingEarly
  <2>3. QED
    BY <1>1, <1>2, <2>2 DEF ProtocolShape, HeardInOrder, NothingEarly
<1>4. FramesKeepUp'
  <2>1. \A k \in DOMAIN frames' : k + 1 \in DOMAIN frames /\ frames'[k] = frames[k + 1]
    BY ReadsFrame
  <2>2. Len(frames') = Len(frames) - 1
    BY ReadsFrame
  <2>3. CASE AtWork /\ link = "up"
    <3>1. /\ Len(said) = Len(heard) + Len(frames)
          /\ \A k \in DOMAIN frames : frames[k].is = "item"
          /\ \A i \in DOMAIN said : said[i] \in Event
          /\ response = "sse"
      BY <2>3, ReadsFrame DEF FramesKeepUp
    <3>2. Len(said) = Len(heard') + Len(frames')
      BY <1>1, <2>2, <3>1
    <3>3. \A k \in DOMAIN frames' : frames'[k].is = "item"
      BY <2>1, <3>1
    <3>4. QED
      BY <1>2, <3>1, <3>2, <3>3 DEF FramesKeepUp
  <2>4. CASE ~(AtWork /\ link = "up")
    BY <1>2, <2>4 DEF FramesKeepUp, AtWork
  <2>5. QED
    BY <2>3, <2>4
<1>5. FramesFit'
  <2> SUFFICES ASSUME NEW k \in DOMAIN frames' PROVE FrameFits(k)'
    BY DEF FramesFit
  <2>1. /\ k \in Nat \ {0} /\ frames'[k] = frames[k + 1] /\ FrameFits(k + 1)
        /\ k > 1 => frames'[k - 1] = frames[k]
    BY ReadsFrame
  <2>2. (k + 1) - 1 = k /\ (k = 1 \/ k > 1)
    BY <2>1
  <2>3. frames'[k].is = "item" =>
          /\ frames'[k].of = Len(heard') + k /\ frames'[k].of <= Len(said')
          /\ Streams'
    BY <1>1, <1>2, <2>1 DEF FrameFits
  <2>4. (frames[k].is = "error" => ErrorFits(frames[k]))'
    <3>1. frames'[k].is = "error" => ErrorFits(frames[k + 1])
      BY <2>1 DEF FrameFits
    <3>2. QED
      BY <1>2, <2>1, <3>1 DEF ErrorFits, Settled, AtWork, EndsWith
  <2>5. frames'[k].is = "end" =>
          \/ k > 1 /\ frames'[k - 1].is = "error"
          \/ EndsWith("complete")' /\ Len(said') = Len(heard') + k
    <3>1. frames'[k].is = "end" =>
            \/ frames[k].is = "error"
            \/ EndsWith("complete") /\ Len(said) = Len(heard) + (k + 1)
      BY <2>1, <2>2 DEF FrameFits
    <3>2. k = 1 => frames[k].is # "error"
      OBVIOUS
    <3>3. k > 1 /\ frames[k].is = "error" => frames'[k - 1].is = "error"
      BY <2>1
    <3>4. /\ Len(said) = Len(heard) + (k + 1) => Len(said') = Len(heard') + k
          /\ EndsWith("complete") => EndsWith("complete")'
      BY <1>1, <1>2, <2>1 DEF EndsWith
    <3>5. QED
      BY <2>2, <3>1, <3>2, <3>3, <3>4
  <2>6. frames'[k].is = "break" => link' = "down" \/ BreakFits'
    BY <1>2, <2>1 DEF FrameFits, BreakFits, Settled, AtWork, EndsWith
  <2>7. QED
    BY <1>2, <2>3, <2>4, <2>5, <2>6 DEF FrameFits
<1>6. OutcomeFits' /\ NothingCutShort'
  <2>1. client = "waiting" /\ outcome.how = "none"
    BY ReadsFrame DEF OutcomeFits
  <2>2. OutcomeFits'
    BY <1>2, <2>1 DEF OutcomeFits
  <2>3. NothingCutShort'
    BY <1>2, <2>1 DEF NothingCutShort
  <2>4. QED
    BY <2>2, <2>3
<1>7. QED
  BY <1>3, <1>4, <1>5, <1>6

\* A call that is over keeps the invariant if its outcome fits and is complete.
LEMMA OverInv ==
  ASSUME ProtocolInv, ClientReads, client' = "over", HeardInOrder', heard' \in Seq(Nat),
         OutcomeFits', NothingCutShort'
  PROVE  ProtocolInv'
<1> USE DEF ProtocolInv
<1>1. UNCHANGED <<call, request, handler, said, response, link>> /\ Streams' = Streams
  BY ReadsFrame DEF ClientReads, serverVars
<1>2. ProtocolShape' /\ NothingEarly'
  <2>1. frames' \in Seq(Frames)
    BY ReadsFrame
  <2>2. QED
    BY <1>1, <2>1 DEF ProtocolShape, NothingEarly
<1>3. FramesKeepUp' /\ FramesFit'
  BY <1>1 DEF FramesKeepUp, FramesFit, AtWork
<1>4. QED
  BY <1>2, <1>3

\* Reading keeps the invariant, whatever the frame.
LEMMA ReadsInv ==
  ASSUME ProtocolInv, ClientReads
  PROVE  ProtocolInv'
<1> DEFINE next == Len(heard) + 1
<1>1. UNCHANGED <<call, request, handler, said, response, link>> /\ Streams' = Streams
  BY ReadsFrame DEF ClientReads, serverVars
<1>2. /\ heard \in Seq(Nat) /\ said \in Seq(Event \union Last) /\ HeardInOrder /\ client = "waiting"
      /\ \A j \in DOMAIN heard : heard[j] = j
      /\ FrameFits(1)
  BY ReadsFrame DEF ProtocolInv, ProtocolShape, HeardInOrder
<1>3. ASSUME UNCHANGED heard PROVE HeardInOrder' /\ heard' \in Seq(Nat)
  BY <1>1, <1>2, <1>3 DEF HeardInOrder
<1>4. CASE /\ frames[1].is = "item" /\ Streams /\ UNCHANGED <<client, outcome>>
           /\ next <= Len(said) /\ heard' = Append(heard, next)
  BY <1>4, HearsOnInv
<1>5. CASE /\ frames[1].is = "item" /\ Over("done", "")
           /\ next <= Len(said) /\ heard' = Append(heard, next)
           /\ \/ ~Streams /\ EndsWith("result") /\ Len(said) = 1
              \/ call.api = "client" /\ heard = <<>> /\ said[1] = "message"
  <2>1. /\ heard' \in Seq(Nat) /\ Len(heard') = next /\ next \in Nat
        /\ \A j \in DOMAIN heard' : heard'[j] = j
    <3>1. heard \in Seq(Nat) /\ heard' = Append(heard, next) /\ next \in Nat
      <4>1. heard \in Seq(Nat)
        BY <1>2
      <4>2. heard' = Append(heard, next)
        BY <1>5
      <4>3. next \in Nat
        BY <4>1
      <4>4. QED
        BY <4>1, <4>2, <4>3
    <3>2. heard' \in Seq(Nat) /\ Len(heard') = next /\ heard'[next] = next
      BY <3>1
    <3>3. \A j \in DOMAIN heard' : j \in DOMAIN heard \/ j = next
      BY <3>1, <3>2
    <3>4. \A j \in DOMAIN heard : heard'[j] = heard[j]
      BY <3>1
    <3>5. QED
      BY <1>2, <3>2, <3>3, <3>4, <3>1
  <2>2. HeardInOrder'
    BY <1>1, <1>5, <2>1 DEF HeardInOrder
  <2>3. CASE ~Streams /\ EndsWith("result") /\ Len(said) = 1
    <3>1. DOMAIN said = {1} /\ 1 \in DOMAIN heard' /\ heard'[1] = 1
      BY <1>2, <2>1, <2>3
    <3>2. NothingCutShort'
      BY <1>1, <2>3, <3>1 DEF NothingCutShort, EndsWith
    <3>3. OutcomeFits'
      BY <1>5 DEF OutcomeFits, Over
    <3>4. QED
      BY <1>5, <2>1, <2>2, <3>2, <3>3, OverInv DEF Over
  <2>4. CASE call.api = "client" /\ heard = <<>> /\ said[1] = "message"
    <3>1. heard' = <<1>>
      <4>1. heard' = Append(<<>>, 0 + 1)
        BY <1>5, <2>4
      <4>2. QED
        BY <4>1
    <3>2. NothingCutShort'
      BY <1>1, <2>4, <3>1 DEF NothingCutShort
    <3>3. OutcomeFits'
      BY <1>5 DEF OutcomeFits, Over
    <3>4. QED
      BY <1>5, <2>1, <2>2, <3>2, <3>3, OverInv DEF Over
  <2>5. QED
    BY <1>5, <2>3, <2>4
<1>6. CASE Over("invalidState", "") /\ UNCHANGED heard
  <2>1. OutcomeFits' /\ NothingCutShort'
    BY <1>6 DEF OutcomeFits, NothingCutShort, Over
  <2>2. QED
    BY <1>3, <1>6, <2>1, OverInv DEF Over
<1>7. CASE frames[1].is = "end" /\ ReadEnd
  <2>1. EndsWith("complete") /\ Len(said) = Len(heard) + 1
    BY <1>2, <1>7 DEF FrameFits
  <2>2. UNCHANGED heard /\ (Over("runtimeError", "") \/ Over("done", ""))
    BY <1>7 DEF ReadEnd
  <2>3. ASSUME NEW i \in DOMAIN said, said[i] # "complete"
        PROVE  \E j \in DOMAIN heard : heard[j] = i
    <3>1. i \in DOMAIN heard
      BY <1>2, <2>1, <2>3 DEF EndsWith
    <3>2. QED
      BY <1>2, <3>1
  <2>4. OutcomeFits'
    <3>1. client' = "over" /\ outcome'.how \in {"runtimeError", "done"}
      <4>1. CASE Over("runtimeError", "")
        BY <4>1 DEF Over
      <4>2. CASE Over("done", "")
        BY <4>2 DEF Over
      <4>3. QED
        BY <2>2, <4>1, <4>2
    <3>2. Settled'
      <4>1. ~AtWork
        BY <1>2, <2>1 DEF ProtocolInv, FramesKeepUp, EndsWith, Event
      <4>2. request \in {"taken", "lost"}
        BY <1>2, <2>1 DEF ProtocolInv, ProtocolShape, NothingEarly, EndsWith
      <4>3. QED
        BY <1>1, <4>1, <4>2 DEF Settled, AtWork
    <3>3. \A kind \in Kind : ~EndsWith(kind)'
      BY <1>1, <2>1 DEF EndsWith, Kind
    <3>4. QED
      BY <3>1, <3>2, <3>3 DEF OutcomeFits
  <2>5. NothingCutShort'
    BY <1>1, <2>1, <2>2, <2>3 DEF NothingCutShort, EndsWith
  <2>6. QED
    BY <1>3, <2>2, <2>4, <2>5, OverInv DEF Over
<1>8. CASE frames[1].is = "error" /\ ReadError(frames[1])
  <2>1. ErrorFits(frames[1])
    BY <1>2, <1>8 DEF FrameFits
  <2>2. Settled'
    BY <1>1, <2>1 DEF ErrorFits, Settled, AtWork
  <2>3. call.transport \in {"jsonrpc", "rest", "grpc"}
    BY Transports DEF ProtocolInv, ProtocolShape
  <2>4. PICK how, why : how \in {"jsonrpc", "http", "errorResponse", "grpc"} /\ Over(how, why)
    BY <1>8
       DEF ReadError, JsonRpcStreamError, JsonRpcError, RestStreamError, RestError, GrpcError
  <2>5. UNCHANGED heard
    BY <1>8 DEF ReadError
  <2>6. outcome' = [how |-> how, why |-> why] /\ client' = "over"
    BY <2>4 DEF Over
  <2>7. ASSUME NEW kind \in Kind, EndsWith(kind)' PROVE KindTold(kind)'
    <3>1. EndsWith(kind)
      BY <1>1, <2>7 DEF EndsWith
    <3>2. /\ frames[1].why = IF call.transport = "rest" THEN A2AErrorToHttpStatus[kind] ELSE kind
          /\ call.transport = "rest" => ~Streams
          /\ call.transport = "jsonrpc" /\ Streams => response = "sse"
      BY <2>1, <3>1 DEF ErrorFits
    <3>3. outcome'.why = frames[1].why
          /\ outcome'.how \in IF call.transport = "rest" THEN {"http"}
                              ELSE {"jsonrpc", "grpc", "errorResponse"}
      BY <1>8, <2>3, <3>2
         DEF ReadError, JsonRpcStreamError, JsonRpcError, RestError, GrpcError, Over
    <3>4. QED
      BY <1>1, <3>2, <3>3 DEF KindTold
  <2>8. OutcomeFits' /\ NothingCutShort'
    BY <2>2, <2>4, <2>6, <2>7 DEF OutcomeFits, NothingCutShort
  <2>9. QED
    BY <1>3, <2>4, <2>5, <2>8, OverInv DEF Over
<1>9. CASE frames[1].is = "break" /\ ReadBreak
  <2>1. link = "down" \/ BreakFits
    BY <1>2, <1>9 DEF FrameFits
  <2>2. Over("grpc", "Unavailable") \/ Over("http", "503") \/ Over("httpx", "")
    BY <1>9, LossIsOver DEF ReadBreak
  <2>3. client' = "over" /\ outcome'.how \notin {"none", "done"} /\ UNCHANGED heard
    <3>1. UNCHANGED heard
      BY <1>9 DEF ReadBreak
    <3>2. CASE Over("grpc", "Unavailable")
      BY <3>1, <3>2 DEF Over
    <3>3. CASE Over("http", "503")
      BY <3>1, <3>3 DEF Over
    <3>4. CASE Over("httpx", "")
      BY <3>1, <3>4 DEF Over
    <3>5. QED
      BY <2>2, <3>2, <3>3, <3>4
  <2>4. ASSUME link' = "up" PROVE outcome' = [how |-> "http", why |-> "503"] /\ Settled'
    <3>1. BreakFits /\ link = "up"
      BY <1>1, <2>1, <2>4
    <3>2. Over("http", "503")
      BY <1>9, <3>1 DEF ReadBreak, BreakFits, Lost503
    <3>3. QED
      BY <1>1, <3>1, <3>2 DEF BreakFits, Settled, AtWork, Over
  <2>5. ASSUME NEW kind \in Kind, link' = "up", EndsWith(kind)' PROVE KindTold(kind)'
    <3>1. EndsWith(kind) /\ BreakFits
      BY <1>1, <2>1, <2>5 DEF EndsWith
    <3>2. QED
      BY <1>1, <2>4, <2>5, <3>1 DEF BreakFits, KindTold
  <2>6. OutcomeFits' /\ NothingCutShort'
    BY <2>3, <2>4, <2>5 DEF OutcomeFits, NothingCutShort
  <2>7. HeardInOrder' /\ heard' \in Seq(Nat)
    BY <1>3, <2>3
  <2>8. QED
    BY <2>3, <2>6, <2>7, OverInv
<1>10. QED
  BY <1>4, <1>5, <1>6, <1>7, <1>8, <1>9, ReadsNext

-----------------------------------------------------------------------------
(* The theorems.                                                           *)

\* What the handler says is of the kind that its method says.
LEMMA HandlerSays ==
  ASSUME ProtocolInv, HandlerEmits \/ HandlerReturns \/ HandlerRaises
  PROVE  \E what \in Event \union Last :
           /\ Says(what)
           /\ what \in Event \union {"complete"} => Streams
           /\ what \in {"result", "nothing"} => ~Streams
<1>1. CASE HandlerEmits
  BY <1>1 DEF HandlerEmits, Event
<1>2. CASE HandlerReturns
  <2>1. call.method \in {"get", "cancel"} => ~Streams
    BY DEF Streams
  <2>2. QED
    BY <1>2, <2>1 DEF HandlerReturns, Event, Last
<1>3. CASE HandlerRaises
  BY <1>3 DEF HandlerRaises, Event, Last, Kind
<1>4. QED
  BY <1>1, <1>2, <1>3

\* Every step keeps the invariant.
LEMMA StepInv ==
  ASSUME ProtocolInv, [ProtocolNext]_protocolVars
  PROVE  ProtocolInv'
<1>1. CASE ServerSteps
  BY <1>1, RefusalInv, AcceptInv, HandlerInv DEF ServerSteps
<1>2. CASE HandlerSteps
  <2>1. CASE Activates
    BY <2>1, HandlerInv
  <2>2. CASE HandlerEmits \/ HandlerReturns \/ HandlerRaises
    BY <2>2, HandlerSays, SaysInv
  <2>3. QED
    BY <1>2, <2>1, <2>2 DEF HandlerSteps
<1>3. CASE ClientSteps
  BY <1>3, CallerInv DEF ClientSteps
<1>4. CASE ClientReads
  BY <1>4, ReadsInv
<1>5. CASE LinkBreaks
  BY <1>5, LinkInv
<1>6. CASE UNCHANGED protocolVars
  <2>1. UNCHANGED <<call, client, outcome, heard, request, handler, said, response, frames, link>>
    BY <1>6 DEF protocolVars, clientVars, serverVars
  <2>2. Streams' = Streams
    BY <2>1 DEF Streams
  <2>3. ProtocolShape' /\ HeardInOrder' /\ NothingEarly' /\ FramesKeepUp'
    BY <2>1, <2>2 DEF ProtocolInv, ProtocolShape, HeardInOrder, NothingEarly, FramesKeepUp, AtWork
  <2>4. FramesFit' /\ OutcomeFits' /\ NothingCutShort'
    BY <2>1, <2>2
       DEF ProtocolInv, FramesFit, FrameFits, ErrorFits, BreakFits, Settled, AtWork, EndsWith,
           OutcomeFits, KindTold, NothingCutShort
  <2>5. QED
    BY <2>3, <2>4 DEF ProtocolInv
<1>7. QED
  BY <1>1, <1>2, <1>3, <1>4, <1>5, <1>6 DEF ProtocolNext

\* The invariant holds of every behaviour.
LEMMA InvHolds == ProtocolSpec => []ProtocolInv
BY ProtocolInitInv, StepInv, PTL DEF ProtocolSpec

\* Over each transport, a call that ended without an error had given its caller
\* everything the handler said, and the handler had finished, wherever the
\* connection broke or the handler failed: SSE's end of the body, gRPC's status
\* and the chunks of JSON-RPC cannot be mistaken for each other.
THEOREM NothingIsCutShort == ProtocolSpec => []NothingCutShort
<1>1. ProtocolInv => NothingCutShort
  BY DEF ProtocolInv
<1>2. QED
  BY <1>1, InvHolds, PTL

\* Whatever ServerError the handler raised, and whenever, its caller is told its
\* kind by JSON-RPC and gRPC, and by REST a status that blames the right side,
\* but of a stream of REST only that it broke off.
THEOREM ErrorsAreTold == ProtocolSpec => []ErrorsKeepTheirKind
<1>1. ProtocolInv => ErrorsKeepTheirKind
  <2> SUFFICES ASSUME ProtocolInv, ErrorReached PROVE ErrorsKeepTheirKind
    BY DEF ErrorsKeepTheirKind
  <2> DEFINE last == said[Len(said)]
  <2>1. EndsWith(last) /\ last \in Kind
    BY DEF EndsWith, ErrorReached
  <2>2. KindTold(last)
    BY <2>1 DEF ProtocolInv, OutcomeFits, ErrorReached
  <2>3. /\ A2AErrorToHttpStatus["TaskNotFound"] = "404"
        /\ A2AErrorToHttpStatus["TaskNotCancelable"] = "409"
        /\ A2AErrorToHttpStatus["InvalidParams"] = "422"
        /\ A2AErrorToHttpStatus["UnsupportedOperation"] = "501"
        /\ A2AErrorToHttpStatus["Internal"] = "500"
    BY DEF A2AErrorToHttpStatus
  <2>4. outcome.why = A2AErrorToHttpStatus[last] => Blamed = Fault(last)
    BY <2>1, <2>3 DEF Kind, Blamed, Fault
  <2>5. QED
    BY <2>2, <2>4 DEF KindTold, ErrorsKeepTheirKind
<1>2. QED
  BY <1>1, InvHolds, PTL

-----------------------------------------------------------------------------
(* Every transport implements Rpc.                                         *)

\* What Rpc makes of the state of the client.
Stage == IF client = "idle" THEN "idle" ELSE IF client = "waiting" THEN "asked" ELSE "over"

\* Asking and leaving are steps of Rpc.
LEMMA CallerRefines ==
  ASSUME Ask \/ Declines \/ TimesOut \/ Leaves
  PROVE  Abstract!Next
<1>1. UNCHANGED <<said, heard>>
  BY DEF Ask, Declines, TimesOut, Leaves, serverVars
<1>2. CASE Ask
  <2>1. Stage = "idle" /\ Stage' = "asked"
    BY <1>2 DEF Ask, Stage
  <2>2. Abstract!Ask(1)
    BY <1>1, <2>1 DEF Abstract!Ask, Stage
  <2>3. QED
    BY <2>2 DEF Abstract!Next
<1>3. CASE Declines \/ TimesOut \/ Leaves
  <2>1. Stage # "over" /\ Stage' = "over"
    BY <1>3 DEF Declines, TimesOut, Lost503, LostRaw, Leaves, Over, Stage
  <2>2. Abstract!Leave(1)
    BY <1>1, <2>1 DEF Abstract!Leave, Stage
  <2>3. QED
    BY <2>2 DEF Abstract!Next
<1>4. QED
  BY <1>2, <1>3

\* The handler says one thing after the other while it is at work.
LEMMA SaysRefines ==
  ASSUME ProtocolInv, NEW what \in Event \union Last, Says(what)
  PROVE  Abstract!Next
<1>1. AtWork /\ client # "idle" /\ UNCHANGED <<client, heard>> /\ said' = Append(said, what)
  BY DEF ProtocolInv, Says, AtWork, NothingEarly, clientVars
<1>2. Stage # "idle" /\ Stage' = Stage
  BY <1>1 DEF Stage
<1>3. ~(said # <<>> /\ said[Len(said)] \in Last)
  <2>1. \A i \in DOMAIN said : said[i] \in Event
    BY <1>1 DEF ProtocolInv, FramesKeepUp
  <2>2. said # <<>> => Len(said) \in DOMAIN said
    BY DEF ProtocolInv, ProtocolShape
  <2>3. QED
    BY <2>1, <2>2 DEF Event, Last, Kind
<1>4. ~Abstract!Handled(1)
  BY <1>3 DEF Abstract!Handled
<1>5. Abstract!Say(1, what)
  BY <1>1, <1>2, <1>4 DEF Abstract!Say, Stage
<1>6. QED
  BY <1>5 DEF Abstract!Next

\* What is read is the next thing that was said, or leaves the call.
LEMMA ReadsRefine ==
  ASSUME ProtocolInv, ClientReads
  PROVE  Abstract!Next
<1> DEFINE next == Len(heard) + 1
<1>1. UNCHANGED said /\ Stage = "asked"
  BY ReadsFrame DEF ClientReads, serverVars, Stage
<1>2. CASE /\ next <= Len(said) /\ heard' = Append(heard, next)
           /\ UNCHANGED client \/ client' = "over"
  <2>1. next \in DOMAIN said /\ \A j \in DOMAIN heard : heard[j] < next
    <3>1. heard \in Seq(Nat) /\ said \in Seq(Event \union Last)
      BY DEF ProtocolInv, ProtocolShape
    <3>2. Len(heard) \in Nat /\ Len(said) \in Nat
      BY <3>1
    <3>3. \A j \in DOMAIN heard : heard[j] = j /\ j \in 1..Len(heard)
      BY <3>1 DEF ProtocolInv, HeardInOrder
    <3>4. next \in 1..Len(said) /\ \A j \in DOMAIN heard : heard[j] < next
      BY <1>2, <3>2, <3>3
    <3>5. QED
      BY <3>1, <3>4
  <2>2. next \in Abstract!Unheard(1)
    BY <2>1 DEF Abstract!Unheard
  <2>3. Stage' = IF client' = "over" THEN "over" ELSE "asked"
    BY <1>1, <1>2 DEF Stage
  <2>4. Abstract!Hear(1, next, client' = "over")
    <3> HIDE DEF next
    <3>1. QED
      BY <1>1, <1>2, <2>2, <2>3 DEF Abstract!Hear, Stage
  <2>5. QED
    BY <2>1, <2>4 DEF Abstract!Next
<1>3. CASE client' = "over" /\ UNCHANGED heard
  <2>1. Stage' = "over"
    BY <1>3 DEF Stage
  <2>2. Abstract!Leave(1)
    BY <1>1, <1>3, <2>1 DEF Abstract!Leave, Stage
  <2>3. QED
    BY <2>2 DEF Abstract!Next
<1>4. \/ next <= Len(said) /\ heard' = Append(heard, next) /\ (UNCHANGED client \/ client' = "over")
      \/ client' = "over" /\ UNCHANGED heard
  <2>1. \A how, why : Over(how, why) => client' = "over"
    BY DEF Over
  <2>2. ReadEnd \/ ReadBreak => client' = "over" /\ UNCHANGED heard
    BY DEF ReadEnd, ReadBreak, Lost503, LostRaw, Over
  <2>3. ReadError(frames[1]) => client' = "over" /\ UNCHANGED heard
    BY DEF ReadError, JsonRpcStreamError, JsonRpcError, RestStreamError, RestError, GrpcError, Over
  <2>4. QED
    BY <2>1, <2>2, <2>3, ReadsNext
<1>5. QED
  BY <1>2, <1>3, <1>4

\* Every step is a step of Rpc or a stutter.
LEMMA StepRefines ==
  ProtocolInv /\ [ProtocolNext]_protocolVars => [Abstract!Next]_(Abstract!rpcVars)
<1> SUFFICES ASSUME ProtocolInv, [ProtocolNext]_protocolVars
             PROVE  [Abstract!Next]_(Abstract!rpcVars)
  OBVIOUS
<1>1. ASSUME UNCHANGED <<client, said, heard>> PROVE UNCHANGED Abstract!rpcVars
  <2>1. Stage' = Stage
    BY <1>1 DEF Stage
  <2>2. QED
    BY <1>1, <2>1 DEF Abstract!rpcVars, Stage
<1>2. CASE ServerSteps \/ Activates \/ LinkBreaks \/ UNCHANGED protocolVars
  BY <1>1, <1>2 DEF ServerSteps, TakeBad, Refuse, Accept, Run, ServerNotices, Activates,
                    LinkBreaks, protocolVars, clientVars, serverVars
<1>3. CASE HandlerEmits \/ HandlerReturns \/ HandlerRaises
  BY <1>3, HandlerSays, SaysRefines
<1>4. CASE ClientSteps
  BY <1>4, CallerRefines DEF ClientSteps
<1>5. CASE ClientReads
  BY <1>5, ReadsRefine
<1>6. QED
  BY <1>2, <1>3, <1>4, <1>5 DEF ProtocolNext, HandlerSteps

\* JSON-RPC, REST and gRPC keep the promise that is stated of Kafka too: a
\* request is handled at most once and its caller hears what was said about it
\* in order, each thing once and not after its call is over.
THEOREM ProtocolsAreRpc == ProtocolSpec => IsRpc
<1>1. ProtocolInit => Abstract!Init
  BY DEF ProtocolInit, Abstract!Init
<1>2. QED
  BY <1>1, InvHolds, StepRefines, PTL DEF ProtocolSpec, IsRpc, Abstract!Spec

-----------------------------------------------------------------------------
(* What the variables hold.                                                *)

\* What the server keeps is of its type, and frames are of things said.
ServerTypes ==
  /\ bodyRead \in BOOLEAN /\ activated \in BOOLEAN /\ told \in BOOLEAN
  /\ response \in {"none", "json", "sse", "page"}
  /\ \A k \in DOMAIN frames : frames[k].of <= Len(said)

\* One thing more that is said.
LEMMA SaysTypes ==
  ASSUME ProtocolInv, ServerTypes, NEW what \in Event \union Last, Says(what),
         what \in Event \union {"complete"} => Streams,
         what \in {"result", "nothing"} => ~Streams
  PROVE  ServerTypes'
<1> USE DEF ServerTypes
<1> DEFINE n == Len(said) + 1
           reply == Reply(what, n)
<1>1. call \in Calls /\ said \in Seq(Event \union Last) /\ frames \in Seq(Frames) /\ n \in Nat
  BY DEF ProtocolInv, ProtocolShape
<1>2. /\ bodyRead' = bodyRead /\ activated' = activated /\ told' \in {told, activated}
      /\ response' \in {response, "json"} /\ said' = Append(said, what)
      /\ frames' = frames \/ frames' = frames \o reply
  BY DEF Says
<1>3. Len(said') = n /\ Len(said) <= n /\ Len(said) \in Nat
  BY <1>1, <1>2
<1>4. \E f, g \in Frames : f.of <= n /\ g.of <= n /\ (reply = <<f>> \/ reply = <<f, g>>)
  <2>1. \/ reply = <<Item(n)>> \/ reply = <<End>> \/ reply = <<Break>>
        \/ \E why \in Why : reply = <<Error(why)>> \/ reply = <<Error(why), End>>
    BY <1>1, ReplyFits
  <2>2. Item(n) \in Frames /\ End \in Frames /\ Break \in Frames
        /\ \A why \in Why : Error(why) \in Frames
    BY <1>1, FrameTypes
  <2>3. Item(n).of = n /\ End.of = 0 /\ Break.of = 0 /\ \A why \in Why : Error(why).of = 0
    BY DEF Item, End, Break, Error, Frame
  <2>4. n <= n /\ 0 <= n
    BY <1>1
  <2> HIDE DEF reply, n
  <2>5. QED
    BY <2>1, <2>2, <2>3, <2>4
<1> HIDE DEF reply, n
<1>5. \A k \in DOMAIN frames' : frames'[k].of <= n
  <2>1. \A k \in DOMAIN frames : frames[k].of <= n
    <3>1. ASSUME NEW k \in DOMAIN frames PROVE frames[k].of <= n
      <4>1. frames[k] \in Frames
        BY <1>1
      <4>2. frames[k].of \in Nat /\ frames[k].of <= Len(said)
        BY <4>1 DEF Frames
      <4>3. QED
        BY <1>1, <1>3, <4>2
    <3>2. QED
      BY <3>1
  <2>2. PICK f, g \in Frames : f.of <= n /\ g.of <= n /\ (reply = <<f>> \/ reply = <<f, g>>)
    BY <1>4
  <2>3. /\ <<f>> \in Seq(Frames) /\ Len(<<f>>) = 1 /\ <<f>>[1] = f
        /\ <<f, g>> \in Seq(Frames) /\ Len(<<f, g>>) = 2
        /\ <<f, g>>[1] = f /\ <<f, g>>[2] = g
    BY ShortReplies
  <2>4. reply \in Seq(Frames) /\ \A k \in 1..Len(reply) : reply[k] \in {f, g}
    <3>1. CASE reply = <<f>>
      BY <2>3, <3>1
    <3>2. CASE reply = <<f, g>>
      BY <2>3, <3>2
    <3>3. QED
      BY <2>2, <3>1, <3>2
  <2>5. CASE frames' = frames
    BY <2>1, <2>5
  <2>6. CASE frames' = frames \o reply
    <3>1. ASSUME NEW k \in DOMAIN frames' PROVE frames'[k].of <= n
      <4>1. \/ k \in DOMAIN frames /\ frames'[k] = frames[k]
            \/ \E l \in 1..Len(reply) : frames'[k] = reply[l]
        <5>1. /\ Len(frames) \in Nat /\ Len(reply) \in Nat
              /\ DOMAIN frames = 1..Len(frames)
              /\ DOMAIN frames' = 1..(Len(frames) + Len(reply))
              /\ \A j \in DOMAIN frames' :
                   frames'[j] = IF j <= Len(frames) THEN frames[j] ELSE reply[j - Len(frames)]
          BY <1>1, <2>4, <2>6
        <5>2. CASE k <= Len(frames)
          BY <3>1, <5>1, <5>2
        <5>3. CASE k > Len(frames)
          <6>1. k - Len(frames) \in 1..Len(reply)
            BY <3>1, <5>1, <5>3
          <6>2. frames'[k] = reply[k - Len(frames)]
            BY <3>1, <5>1, <5>3
          <6>3. QED
            BY <6>1, <6>2
        <5>4. QED
          BY <3>1, <5>1, <5>2, <5>3
      <4>2. QED
        BY <2>1, <2>2, <2>4, <4>1
    <3>2. QED
      BY <3>1
  <2>7. QED
    BY <1>2, <2>5, <2>6
<1>6. QED
  BY <1>2, <1>3, <1>5

\* Every step keeps this.
LEMMA ServerTypesStep ==
  ASSUME ProtocolInv, ServerTypes, [ProtocolNext]_protocolVars
  PROVE  ServerTypes'
<1> USE DEF ServerTypes
<1>1. frames \in Seq(Frames) /\ said \in Seq(Event \union Last) /\ Len(said) \in Nat
  BY DEF ProtocolInv, ProtocolShape
<1>2. ASSUME UNCHANGED <<bodyRead, activated, told, response, said>>,
             \/ UNCHANGED frames
             \/ \A k \in DOMAIN frames' :
                  frames'[k] = Break \/ \E l \in DOMAIN frames : frames'[k] = frames[l]
      PROVE  ServerTypes'
  <2>1. Break.of = 0 /\ 0 <= Len(said)
    BY <1>1 DEF Break, Frame
  <2>2. QED
    BY <1>2, <2>1
<1>3. CASE TakeBad \/ Refuse
  <2>1. /\ UNCHANGED <<bodyRead, activated, told, said>> /\ response' \in {"sse", "json", "page"}
        /\ \E why : frames' = <<Error(why)>> \/ frames' = <<Break>>
    BY <1>3 DEF TakeBad, Refuse, DefectShown
  <2>2. \A why : Error(why).of = 0
    BY DEF Error, Frame
  <2>3. Break.of = 0
    BY DEF Break, Frame
  <2>4. PICK f : frames' = <<f>> /\ f.of = 0
    BY <2>1, <2>2, <2>3
  <2>5. DOMAIN frames' = {1} /\ frames'[1] = f
    BY <2>4
  <2>6. 0 <= Len(said)
    BY <1>1
  <2>7. QED
    BY <2>1, <2>4, <2>5, <2>6
<1>4. CASE Accept \/ Run \/ ServerNotices \/ Activates
  <2>1. /\ bodyRead' \in BOOLEAN /\ activated' \in BOOLEAN /\ UNCHANGED <<told, said, frames>>
        /\ response' \in {response, "sse", "none"}
    BY <1>4 DEF Accept, Run, ServerNotices, Activates
  <2>2. QED
    BY <2>1
<1>5. CASE HandlerEmits \/ HandlerReturns \/ HandlerRaises
  BY <1>5, HandlerSays, SaysTypes
<1>6. CASE ClientSteps \/ UNCHANGED protocolVars
  <2>1. UNCHANGED <<bodyRead, activated, told, response, said, frames>>
    BY <1>6 DEF ClientSteps, Ask, Declines, TimesOut, Leaves, serverVars, protocolVars
  <2>2. QED
    BY <1>2, <2>1
<1>7. CASE ClientReads
  <2>1. UNCHANGED <<bodyRead, activated, told, response, said>> /\ frames' = Tail(frames)
        /\ frames # <<>>
    BY <1>7 DEF ClientReads, serverVars
  <2>2. \A k \in DOMAIN frames' : k + 1 \in DOMAIN frames /\ frames'[k] = frames[k + 1]
    BY <1>1, <2>1
  <2>3. QED
    BY <1>2, <2>1, <2>2
<1>8. CASE LinkBreaks
  <2>1. UNCHANGED <<bodyRead, activated, told, response, said>>
    BY <1>8 DEF LinkBreaks
  <2>2. PICK n \in 0..Len(frames) : frames' = SubSeq(frames, 1, n) \o <<Break>>
    BY <1>8 DEF LinkBreaks
  <2>3. SubSeq(frames, 1, n) \in Seq(Frames) /\ Len(SubSeq(frames, 1, n)) = n
        /\ \A k \in 1..n : k \in DOMAIN frames /\ SubSeq(frames, 1, n)[k] = frames[k]
    BY <1>1
  <2>4. \A k \in DOMAIN frames' :
          frames'[k] = Break \/ \E l \in DOMAIN frames : frames'[k] = frames[l]
    BY <1>1, <2>2, <2>3
  <2>5. QED
    BY <1>2, <2>1, <2>4
<1>9. QED
  BY <1>3, <1>4, <1>5, <1>6, <1>7, <1>8 DEF ProtocolNext, ServerSteps, HandlerSteps

\* Every variable keeps its type, through all of the protocol handlers: whatever is
\* sent to a caller, heard or said is of what the handler said.
THEOREM ProtocolTyped == ProtocolSpec => []ProtocolTypeOK
<1>1. ProtocolInit => ServerTypes
  <2> SUFFICES ASSUME ProtocolInit PROVE ServerTypes
    OBVIOUS
  <2>1. frames = <<>>
    BY DEF ProtocolInit
  <2>2. DOMAIN frames = {}
    BY <2>1
  <2>3. bodyRead \in BOOLEAN /\ activated \in BOOLEAN /\ told \in BOOLEAN
        /\ response \in {"none", "json", "sse", "page"}
    BY DEF ProtocolInit
  <2>4. QED
    BY <2>2, <2>3 DEF ServerTypes
<1>2. ProtocolInv /\ ServerTypes => ProtocolTypeOK
  <2> SUFFICES ASSUME ProtocolInv, ServerTypes PROVE ProtocolTypeOK
    OBVIOUS
  <2>1. ProtocolShape /\ HeardInOrder
    BY DEF ProtocolInv
  <2>2. said \in Seq(Event \union Last) /\ heard \in Seq(Nat) /\ frames \in Seq(Frames)
    BY <2>1 DEF ProtocolShape
  <2>3. \A i \in DOMAIN heard : heard[i] \in DOMAIN said
    BY <2>1, <2>2 DEF HeardInOrder
  <2>4. \A i \in DOMAIN said : said[i] \in Event \union Last
    BY <2>2
  <2>5. ASSUME NEW i \in DOMAIN frames
        PROVE  frames[i].is \in {"item", "error", "end", "break"} /\ frames[i].of \in 0..Len(said)
    <3>1. frames[i] \in Frames
      BY <2>2
    <3>2. frames[i].of \in Nat /\ frames[i].is \in {"item", "error", "end", "break"}
      BY <3>1 DEF Frames
    <3>3. frames[i].of <= Len(said) /\ Len(said) \in Nat
      BY <2>2 DEF ServerTypes
    <3>4. QED
      BY <3>2, <3>3
  <2>6. QED
    BY <2>1, <2>3, <2>4, <2>5 DEF ProtocolTypeOK, ServerTypes, ProtocolShape
<1>3. ProtocolSpec => []ServerTypes
  BY <1>1, ServerTypesStep, InvHolds, PTL DEF ProtocolSpec
<1>4. QED
  BY <1>2, <1>3, InvHolds, PTL
=============================================================================
