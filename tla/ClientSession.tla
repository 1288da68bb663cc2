---------------------------- MODULE ClientSession ----------------------------
(***************************************************************************)
(* One client of an agent: ClientFactory chooses the transport from the    *)
(* agent's card, get_card exchanges the card for the one the server has    *)
(* for this client, and the client follows a task whose events, and whose  *)
(* stored copy when it asks for it, come over that transport.              *)
(***************************************************************************)
EXTENDS WireFormat, SequencesExt

CONSTANTS
  Caller,      \* coroutines of the client that ask for the card
  Sessions,    \* what is done with a client, how it starts and with which agent
  Sends,       \* the configurations that users give with a message
  Events,      \* what agents publish
  MaxEvents,   \* bound on how many
  MaxAsked     \* bound on the calls of get_card

ClientConfig ==
  [supported : Seq(String), own : BOOLEAN, extra : SUBSET String, polling : BOOLEAN,
   push : Opt(PushNotificationConfig)]

\* A client starts with the agent's public card, with what minimal_agent_card makes,
\* or with none.  Users who set blocking set it to true or false.
ASSUME SessionAssumption ==
  /\ \A s \in Sessions :
       /\ s.job \in {"connect", "card", "follow"} /\ s.config \in ClientConfig
       /\ s.home \in AgentCard /\ s.home.kind = "public" /\ s.card \in Opt(AgentCard)
       /\ s.card \in {None, s.home} \/ (s.card.kind = "minimal" /\ s.card.extended = TRUE)
  /\ \A c \in Sends : "blocking" \in DOMAIN c => c.blocking \in BOOLEAN
  /\ Events \subseteq Task \union TaskStatusUpdateEvent \union TaskArtifactUpdateEvent
  /\ MaxEvents \in Nat /\ MaxAsked \in Nat

VARIABLES
  job,
  home,      \* the public card of the server
  card,      \* agent_card of the transport, or None
  config,    \* the ClientConfig: supported_transports, use_client_preference, ...
  wire,      \* what the factory chose: transport and url, as a sequence of at most one
  pc,        \* "start", "connected" or "refused"
  wants,     \* _needs_extended_card
  resolving, \* the callers of get_card that wait for the public card, ...
  asking,    \* ... and for the extended one
  got,       \* the kinds of card that get_card returned
  asked,     \* how often it was called
  stored,    \* the task the server has stored, or None
  view,      \* _current_task of the ClientTaskManager, or None
  following, \* whether the client still reads the stream
  begun,     \* the Task that the stream began with, or None; of use to properties only
  count      \* how many events were published

cardVars == <<card, wants, resolving, asking, got, asked>>
taskVars == <<stored, view, following, begun, count>>
sessionVars == <<job, home, config, wire, pc, cardVars, taskVars>>

SessionInit ==
  /\ \E s \in Sessions : job = s.job /\ home = s.home /\ card = s.card /\ config = s.config
  /\ wire = <<>> /\ pc = "start"
  /\ wants = FALSE /\ resolving = {} /\ asking = {} /\ got = {} /\ asked = 0
  /\ stored = None /\ view = None /\ following = TRUE /\ begun = None /\ count = 0

-----------------------------------------------------------------------------
(* ClientFactory.create.                                                   *)

\* The transports the server offers, the preferred one first; of several
\* interfaces of one transport the last gives the url, in the place of the first.
Offered(c) ==
  <<[transport |-> IF c.preferred \in {None, ""} THEN "JSONRPC" ELSE c.preferred,
     url |-> c.url]>> \o Listed(c.ifaces)

IndexOf(s, t) == SelectInSeq(s, LAMBDA x : x.transport = t)
UrlOf(s, t) == s[SelectLastInSeq(s, LAMBDA x : x.transport = t)].url

Supported(cfg) == IF cfg.supported = <<>> THEN <<"JSONRPC">> ELSE cfg.supported

\* What there is an implementation for: register and _register_defaults.
Registered(cfg) ==
  (Range(Supported(cfg)) \intersect {"JSONRPC", "HTTP+JSON", "GRPC", "KAFKA"}) \union cfg.extra

\* Slip: the url is that of the interface the transport was found at.
NegotiatedFirst(c, cfg) ==
  LET server == Offered(c)
      client == Supported(cfg)
      mine == SelectInSeq(client, LAMBDA t : \E k \in DOMAIN server : server[k].transport = t)
      theirs == SelectInSeq(server, LAMBDA x : x.transport \in Range(client))
      t == IF cfg.own THEN client[mine] ELSE server[theirs].transport
      url == server[IndexOf(server, t)].url
  IN IF mine = 0 \/ "" \in {t, url} \/ t \notin Registered(cfg) THEN <<>>
     ELSE <<[transport |-> t, url |-> url]>>

\* The first in the order of whoever is preferred that the other has as well; it is
\* refused, and no other is tried, if its name or its url is empty.
Negotiated(c, cfg) ==
  LET server == Offered(c)
      client == Supported(cfg)
      mine == SelectInSeq(client, LAMBDA t : \E k \in DOMAIN server : server[k].transport = t)
      theirs == SelectInSeq(server, LAMBDA x : x.transport \in Range(client))
      t == IF cfg.own THEN client[mine] ELSE server[theirs].transport
      url == UrlOf(server, t)
  IN IF mine = 0 \/ "" \in {t, url} \/ t \notin Registered(cfg) THEN <<>>
     ELSE <<[transport |-> t, url |-> url]>>

\* A client that is not made by the factory may start without a card: it is a
\* transport of JSON-RPC or REST and a url.
Create ==
  /\ pc = "start"
  /\ wire' = IF card # None THEN Negotiated(card, config)
             ELSE <<[transport |-> config.supported[1], url |-> "given"]>>
  /\ pc' = IF wire' = <<>> THEN "refused" ELSE "connected"
  /\ wants' = (card = None \/ Flag(card.extended))
  /\ UNCHANGED <<job, home, card, config, resolving, asking, got, asked, taskVars>>

\* send_message of the client: what the user sets, and the client's own settings.
Built(cfg, c) ==
  LET own == [push |-> cfg.push, history |-> None, blocking |-> ~cfg.polling]
  IN [f \in DOMAIN own |-> IF f \in DOMAIN c THEN c[f] ELSE own[f]]

-----------------------------------------------------------------------------
(* get_card of the transports, and what the servers answer.                *)

Transport == wire[1].transport
OverProto == Transport \in {"GRPC", "HTTP+JSON"}
Waiting == resolving \union asking

\* The card is returned, or the extended card is asked for first.
ReturnOrAsk(p, c, needs) ==
  IF needs THEN asking' = asking \union {p} /\ UNCHANGED got
  ELSE got' = got \union {c.kind} /\ UNCHANGED asking

\* Slip: the flag is cleared when the extended card is asked for.
GetCardOnce(p) ==
  /\ job = "card" /\ pc = "connected" /\ p \notin Waiting /\ asked < MaxAsked
  /\ asked' = asked + 1
  /\ IF card = None THEN resolving' = resolving \union {p} /\ UNCHANGED <<asking, got, wants>>
     ELSE ReturnOrAsk(p, card, wants) /\ wants' = FALSE /\ UNCHANGED resolving
  /\ UNCHANGED <<job, home, card, config, wire, pc, taskVars>>

GetCard(p) ==
  /\ job = "card" /\ pc = "connected" /\ p \notin Waiting /\ asked < MaxAsked
  /\ asked' = asked + 1
  /\ IF card = None THEN resolving' = resolving \union {p} /\ UNCHANGED <<asking, got>>
     ELSE ReturnOrAsk(p, card, wants) /\ UNCHANGED resolving
  /\ UNCHANGED <<job, home, card, config, wire, pc, wants, taskVars>>

\* The resolver has the public card; what others did meanwhile is overwritten.
Resolved(p) ==
  /\ p \in resolving
  /\ resolving' = resolving \ {p}
  /\ card' = home /\ wants' = Flag(home.extended)
  /\ ReturnOrAsk(p, home, wants')
  /\ UNCHANGED <<job, home, config, wire, pc, asked, taskVars>>

\* A gRPC server has the public card only; the others serve an extended card, and
\* none unless the public card announces it.
Served ==
  IF Transport = "GRPC" THEN TripCard(home) ELSE [home EXCEPT !.kind = "extended"]

CardComes(p) ==
  /\ p \in asking /\ (Transport = "GRPC" \/ Flag(home.extended))
  /\ asking' = asking \ {p}
  /\ card' = Served /\ wants' = FALSE
  /\ got' = got \union {Served.kind}
  /\ UNCHANGED <<job, home, config, wire, pc, resolving, asked, taskVars>>

\* The call fails, or the verifier refuses the card: nothing is installed.
CardFails(p) ==
  /\ p \in Waiting
  /\ resolving' = resolving \ {p} /\ asking' = asking \ {p}
  /\ UNCHANGED <<job, home, card, config, wire, pc, wants, got, asked, taskVars>>

-----------------------------------------------------------------------------
(* The task on the server and in the client.                               *)

NewTask(state, history) ==
  [kind |-> "task", status |-> [state |-> state, msg |-> None, time |-> None],
   artifacts |-> None, history |-> history, meta |-> None]

\* The message that the task was started with.
Request ==
  [id |-> "request", role |-> "user", parts |-> <<>>, context |-> None, task |-> None,
   meta |-> None, exts |-> None, refs |-> None]

\* append_artifact_to_task, on both sides.
WithArtifact(t, e) ==
  LET artifacts == Listed(t.artifacts)
      k == SelectInSeq(artifacts, LAMBDA a : a.id = e.artifact.id)
  IN IF Flag(e.append)
       THEN IF k = 0 THEN [t EXCEPT !.artifacts = artifacts]
            ELSE [t EXCEPT !.artifacts = [artifacts EXCEPT ![k].parts = @ \o e.artifact.parts]]
     ELSE IF k = 0 THEN [t EXCEPT !.artifacts = Append(artifacts, e.artifact)]
     ELSE [t EXCEPT !.artifacts = [artifacts EXCEPT ![k] = e.artifact]]

WithMeta(t, e) == IF Struct(e.meta) = {} THEN t.meta ELSE Struct(t.meta) \union e.meta

\* TaskManager, of an update: the message of the status that is replaced moves to the
\* history.
StoreApplies(t, e) ==
  IF e.kind = "artifact" THEN WithArtifact(t, e)
  ELSE [t EXCEPT !.history = IF t.status.msg = None THEN @ ELSE Append(Listed(@), t.status.msg),
                 !.meta = WithMeta(t, e), !.status = e.status]

\* ClientTaskManager: the message of the new status does.
ClientApplies(t, e) ==
  IF e.kind = "artifact" THEN WithArtifact(t, e)
  ELSE [t EXCEPT !.history = IF e.status.msg = None THEN @ ELSE Append(Listed(@), e.status.msg),
                 !.meta = WithMeta(t, e), !.status = e.status]

\* Either takes a Task as it is, and starts one of its own if an update comes first.
StoreTakes(e) ==
  IF e.kind = "task" THEN e
  ELSE StoreApplies(IF stored = None THEN NewTask("submitted", <<Request>>) ELSE stored, e)
ClientTakes(e) ==
  IF e.kind = "task" THEN e
  ELSE ClientApplies(IF view = None THEN NewTask("unknown", None) ELSE view, e)

\* JSON has what a field has: absent fields are absent again.
Sent(kind, x) == IF OverProto THEN Trip(kind, x) ELSE x

\* A client that has a task raises when it is sent another, and reads no more of the
\* stream.
Publish(e) ==
  /\ job = "follow" /\ pc = "connected" /\ count < MaxEvents
  /\ stored' = StoreTakes(e)
  /\ following' = (following /\ (e.kind = "task" => view = None))
  /\ view' = IF following' THEN ClientTakes(Sent(e.kind, e)) ELSE view
  /\ begun' = IF e.kind = "task" /\ stored = None THEN e ELSE begun
  /\ count' = count + 1
  /\ UNCHANGED <<job, home, config, wire, pc, cardVars>>

SessionNext ==
  \/ Create
  \/ \E p \in Caller : GetCard(p) \/ Resolved(p) \/ CardComes(p) \/ CardFails(p)
  \/ \E e \in Events : Publish(e)

SessionSpec == SessionInit /\ [][SessionNext]_sessionVars

-----------------------------------------------------------------------------
(* Properties.                                                             *)

\* Types, and what goes with each stage of a session: a caller of get_card waits
\* for one card at a time, and the two copies of the task appear together.
SessionTypeOK ==
  /\ pc \in {"start", "connected", "refused"} /\ Len(wire) = (IF pc = "connected" THEN 1 ELSE 0)
  /\ wants \in BOOLEAN /\ resolving \subseteq Caller /\ asking \subseteq Caller
  /\ resolving \intersect asking = {}
  /\ got \subseteq {"minimal", "public", "extended"} /\ asked \in 0..MaxAsked
  /\ (stored = None) = (view = None) /\ (stored = None) = (count = 0) /\ count \in 0..MaxEvents
  /\ following \in BOOLEAN /\ (count = 0 => following /\ begun = None)

\* create: the transport chosen is one that both sides have, none of the other
\* common ones comes before it in the list of the side that decides, and the url
\* is the last one the card declares for it.  A client is refused only if nothing is
\* common, or the first common transport has no name, no url or no implementation.
NegotiationBest ==
  (pc # "start" /\ card # None /\ job = "connect") =>
    LET server == Offered(card)
        common == Range(Supported(config)) \intersect {server[k].transport : k \in DOMAIN server}
        order == IF config.own THEN Supported(config)
                 ELSE [k \in DOMAIN server |-> server[k].transport]
        best(t) == \E k \in DOMAIN order :
                     order[k] = t /\ \A j \in 1..(k - 1) : order[j] \notin common
        last(t, url) == \E k \in DOMAIN server :
                          /\ server[k] = [transport |-> t, url |-> url]
                          /\ \A j \in DOMAIN server : j > k => server[j].transport # t
    IN IF pc = "refused"
         THEN \A t \in common : best(t) => t = "" \/ last(t, "") \/ t \notin Registered(config)
       ELSE /\ Transport \in common \ {""} /\ best(Transport) /\ Transport \in Registered(config)
            /\ wire[1].url # "" /\ last(Transport, wire[1].url)

\* get_card with several callers at a time, failures included: the minimal card a
\* client was started with is never returned for the agent's card, nor is the
\* public card if it announces an extended one and the transport has it.
NeverAnOldCard ==
  /\ "minimal" \notin got
  /\ "public" \in got => Transport = "GRPC" \/ ~Flag(home.extended)

\* What a reader is told.  Absent and empty are one, and what a message refers to is
\* left out: it has no place on the wire.
CleanParts(ps) == [k \in DOMAIN ps |-> [ps[k] EXCEPT !.name = Blank(@), !.meta = Struct(@)]]
CleanMessage(m) ==
  [m EXCEPT !.parts = CleanParts(@), !.context = Blank(@), !.task = Blank(@), !.meta = Struct(@),
            !.exts = Listed(@), !.refs = None]
CleanArtifact(a) ==
  [a EXCEPT !.name = Blank(@), !.desc = Blank(@), !.parts = CleanParts(@), !.meta = Struct(@),
            !.exts = Listed(@)]
CleanArtifacts(as) == [k \in DOMAIN Listed(as) |-> CleanArtifact(as[k])]

\* The messages of a sequence in their order, the ones that FromProto makes of no
\* message left out; ...
Joined(said, m) == IF m = None \/ m.id = "" THEN said ELSE Append(said, CleanMessage(m))
Said(ms) ==
  LET said[n \in 0..Len(ms)] == IF n = 0 THEN <<>> ELSE Joined(said[n - 1], ms[n])
  IN said[Len(ms)]

\* ... of a task in the order they were sent.
Messages(t) == Said(Listed(t.history) \o <<t.status.msg>>)

\* The task a client has put together from what it was sent is the one it gets when it
\* polls, until it refuses a second Task: the artifacts, the metadata, the status once
\* it was told of one, and the messages, although each side moves them to the history at
\* its own time.  One is missing from its history, at the place where the stream began:
\* the request, if that was with an update, or the message of the Task's status.
ViewIsWhatIsPolled ==
  (stored # None /\ following) =>
    LET polled == Sent("task", stored)
        heard == Said(Listed(view.history))
        n == IF begun = None THEN 0 ELSE Len(Said(Listed(begun.history)))
        missing == IF begun = None THEN Said(<<Request>>) ELSE Said(<<begun.status.msg>>)
    IN /\ CleanArtifacts(view.artifacts) = CleanArtifacts(polled.artifacts)
       /\ Struct(view.meta) = Struct(polled.meta)
       /\ \/ view.status.state = polled.status.state /\ view.status.time = polled.status.time
          \/ begun = None /\ view.status.state = "unknown" /\ stored.status.state = "submitted"
       /\ Messages(polled) = SubSeq(heard, 1, n) \o missing \o SubSeq(heard, n + 1, Len(heard))

\* FromProto of ToProto loses nothing of a task but the difference between absent and
\* empty, the time of its status and the references of its messages, if its state is
\* one the wire has, and a second trip changes nothing more.
TaskKept(t) ==
  LET trip == Trip("task", t)
  IN /\ t.status.state # "rejected" =>
          /\ trip.status.state = t.status.state /\ Struct(trip.meta) = Struct(t.meta)
          /\ CleanArtifacts(trip.artifacts) = CleanArtifacts(t.artifacts)
          /\ Messages(trip) = Messages(t)
     /\ Trip("task", trip) = trip

\* The answer to a send has as much of the history as if its configuration had been
\* sent as JSON, and is waited for, or not, as then.
SendKept(c) ==
  /\ \A n \in 0..2 : Limit(TripSend(c), n) = Limit(c, n)
  /\ Blocks(TripSend(c)) = Blocks(c)

\* What create_signature_verifier compares is that of the card the server has, for a
\* card without what the wire has no field for; a second trip changes nothing more.
CardKept(c) ==
  /\ (c.icon = None /\ Listed(c.skillSecurity) = <<>> /\ c.transitions # TRUE
        /\ Cardinality(c.flows) = 1) => Canonical(TripCard(c)) = Canonical(c)
  /\ TripCard(TripCard(c)) = TripCard(c)

\* ToProto and FromProto keep of the task the server has stored what TaskKept says, and
\* the meaning of what the client sends and of the agent's card, also of one that is
\* relayed.
MeaningKept ==
  /\ stored # None => TaskKept(stored)
  /\ pc = "connected" => \A c \in Sends : SendKept(Built(config, c))
  /\ CardKept(home)

\* The signature of every card verifies at a client that got it over gRPC (refuted:
\* ClientWire.cfg).
SignaturesVerify == Canonical(TripCard(home)) = Canonical(home)

\* A task that the agent rejects is rejected for the client (refuted over gRPC and
\* REST: ClientWire.cfg).
RejectionIsSeen ==
  (stored # None /\ following /\ stored.status.state = "rejected") => view.status.state = "rejected"

\* A task that is polled has the time of its status ...
TimesKept == stored # None => Sent("task", stored).status.time = stored.status.time

\* ... and its messages name the tasks they refer to (both refuted over gRPC and REST:
\* ClientWire.cfg).
ReferencesKept ==
  stored # None =>
    \A k \in DOMAIN Listed(stored.history) :
      Sent("task", stored).history[k].refs = stored.history[k].refs

\* A client has every message it was sent: of a Task that a stream begins with, the
\* message of the status is lost at the next status (refuted: ClientWire.cfg).
EveryMessageIsKept ==
  (begun # None /\ following) => Range(Said(<<begun.status.msg>>)) \subseteq Range(Messages(view))

\* A client reads the stream as long as the agent publishes (refuted by a second Task,
\* which the server takes: ClientWire.cfg).
StreamsAreRead == following
=============================================================================
