------------------------------ MODULE WireFormat ------------------------------
(***************************************************************************)
(* Documents on their way over gRPC or REST: ToProto turns the Python      *)
(* object into a protobuf message, FromProto turns that back (over REST it *)
(* is JSON in between).  A protobuf field that is not set reads as its     *)
(* default, so that an absent value and an empty one are one on the wire;  *)
(* FromProto makes some of them absent again and leaves others empty.      *)
(*                                                                         *)
(* An absent value is None.  Metadata are sets of keys.  Text, urls and    *)
(* payloads that no conversion looks at are left out.                      *)
(***************************************************************************)
EXTENDS Integers, Sequences

CONSTANTS
  None,    \* Python's None, and a protobuf field that is not set
  String   \* str: the texts that occur

-----------------------------------------------------------------------------
(* Documents, by the fields that a conversion or a reader looks at.        *)

Opt(S) == {None} \union S
Meta == SUBSET String

Part == [kind : {"text", "file", "data"}, name : Opt(String), meta : Opt(Meta)]

Message ==
  [id : String, role : {"user", "agent"}, parts : Seq(Part), context : Opt(String),
   task : Opt(String), meta : Opt(Meta), exts : Opt(Seq(String)),
   refs : Opt(Seq(String))]                  \* reference_task_ids

Artifact ==
  [id : String, name : Opt(String), desc : Opt(String), parts : Seq(Part), meta : Opt(Meta),
   exts : Opt(Seq(String))]

TaskState ==
  {"submitted", "working", "input-required", "completed", "canceled", "failed", "rejected",
   "auth-required", "unknown"}
TaskStatus == [state : TaskState, msg : Opt(Message), time : Opt(String)]

Task ==
  [kind : {"task"}, status : TaskStatus, artifacts : Opt(Seq(Artifact)),
   history : Opt(Seq(Message)), meta : Opt(Meta)]

TaskStatusUpdateEvent ==
  [kind : {"status"}, status : TaskStatus, meta : Opt(Meta), final : BOOLEAN]
TaskArtifactUpdateEvent ==
  [kind : {"artifact"}, artifact : Artifact, append : Opt(BOOLEAN), last : Opt(BOOLEAN),
   meta : Opt(Meta)]

PushNotificationConfig == [id : Opt(String), token : Opt(String)]

\* A card of an agent is its public one, its extended one, or a minimal one that
\* stands for it.  Of a security requirement only its name is kept.
AgentInterface == [transport : String, url : String]
OAuthFlow == {"authorization_code", "client_credentials", "implicit", "password"}
AgentCard ==
  [kind : {"minimal", "public", "extended"}, url : String, preferred : Opt(String),
   ifaces : Opt(Seq(AgentInterface)), extended : Opt(BOOLEAN), provider : Opt(String),
   docs : Opt(String), icon : Opt(String), streaming : Opt(BOOLEAN),
   transitions : Opt(BOOLEAN), flows : SUBSET OAuthFlow, security : Opt(Seq(String)),
   skillSecurity : Opt(Seq(String)), examples : Opt(Seq(String))]

ASSUME NoneAssumption ==
  /\ {"", "JSONRPC", "request"} \subseteq String
  /\ None \notin String /\ None \notin BOOLEAN /\ None \notin Seq(String)
  /\ None \notin Message /\ None \notin Seq(Message) /\ None \notin Seq(Artifact)
  /\ None \notin Task /\ None \notin AgentCard /\ None \notin Seq(AgentInterface)

\* `x or ''`, `x or []` and `bool(x)`, and what an unset field reads as; ...
Blank(s) == IF s = None THEN "" ELSE s
Listed(s) == IF s = None THEN <<>> ELSE s
Flag(b) == IF b = None THEN FALSE ELSE b
Struct(m) == IF m = None THEN {} ELSE m
\* ... `s or None`.
TextOrNone(s) == IF s = "" THEN None ELSE s
ListOrNone(s) == IF s = <<>> THEN None ELSE s

-----------------------------------------------------------------------------
(* Messages.                                                               *)

\* A part of kind file has an optional name, the others have none.  Empty metadata
\* of a part are absent, those of anything else are empty.
ToPart(p) == [p EXCEPT !.name = Blank(@)]
FromPart(q) == [q EXCEPT !.name = TextOrNone(@), !.meta = IF @ = {} THEN None ELSE @]

ToParts(ps) == [k \in DOMAIN ps |-> ToPart(ps[k])]
FromParts(qs) == [k \in DOMAIN qs |-> FromPart(qs[k])]

ToRole(r) == IF r \in {"user", "agent"} THEN r ELSE "unspecified"
FromRole(r) == IF r = "unspecified" THEN "agent" ELSE r

\* There is no field for the referenced tasks.
ToMessage(m) ==
  IF m = None THEN None
  ELSE [m EXCEPT !.role = ToRole(@), !.parts = ToParts(@), !.context = Blank(@),
                 !.task = Blank(@), !.exts = Listed(@), !.refs = None]

UnsetMessage ==
  [id |-> "", role |-> "unspecified", parts |-> <<>>, context |-> "", task |-> "",
   meta |-> None, exts |-> <<>>, refs |-> None]

FromMessage(q) ==
  LET set == IF q = None THEN UnsetMessage ELSE q
  IN [set EXCEPT !.role = FromRole(@), !.parts = FromParts(@), !.context = TextOrNone(@),
                 !.task = TextOrNone(@), !.meta = Struct(@), !.exts = ListOrNone(@)]

-----------------------------------------------------------------------------
(* Tasks and the events about them.                                        *)

\* There is no case for rejected and unknown.
ToState(s) == IF s \in {"rejected", "unknown"} THEN "unspecified" ELSE s
FromState(s) == IF s = "unspecified" THEN "unknown" ELSE s

\* The timestamp is neither written ...
ToStatus(s) == [state |-> ToState(s.state), msg |-> ToMessage(s.msg), time |-> None]

\* ... nor read; the message is read whether it is set or not.
FromStatus(s) == [state |-> FromState(s.state), msg |-> FromMessage(s.msg), time |-> None]

\* Slip: the description is forgotten.
ToArtifactShort(a) ==
  [a EXCEPT !.name = Blank(@), !.desc = "", !.parts = ToParts(@), !.exts = Listed(@)]

ToArtifact(a) ==
  [a EXCEPT !.name = Blank(@), !.desc = Blank(@), !.parts = ToParts(@), !.exts = Listed(@)]
FromArtifact(a) ==
  [a EXCEPT !.parts = FromParts(@), !.meta = Struct(@), !.exts = ListOrNone(@)]

ToTask(t) ==
  LET artifacts == Listed(t.artifacts) history == Listed(t.history)
  IN [t EXCEPT !.status = ToStatus(@),
               !.artifacts = [k \in DOMAIN artifacts |-> ToArtifact(artifacts[k])],
               !.history = [k \in DOMAIN history |-> ToMessage(history[k])]]

FromTask(t) ==
  [t EXCEPT !.status = FromStatus(@),
            !.artifacts = [k \in DOMAIN @ |-> FromArtifact(@[k])],
            !.history = [k \in DOMAIN @ |-> FromMessage(@[k])],
            !.meta = Struct(@)]

ToStatusEvent(e) == [e EXCEPT !.status = ToStatus(@)]
FromStatusEvent(e) == [e EXCEPT !.status = FromStatus(@), !.meta = Struct(@)]

ToArtifactEvent(e) ==
  [e EXCEPT !.artifact = ToArtifact(@), !.append = Flag(@), !.last = Flag(@)]

\* Slip: every chunk is a first one.
FromArtifactEventFirst(e) ==
  [e EXCEPT !.artifact = FromArtifact(@), !.meta = Struct(@), !.append = FALSE]

FromArtifactEvent(e) == [e EXCEPT !.artifact = FromArtifact(@), !.meta = Struct(@)]

\* stream_response and task_or_message: the document by its kind.
ToProto(kind, x) ==
  CASE kind = "message" -> ToMessage(x)
    [] kind = "task" -> ToTask(x)
    [] kind = "status" -> ToStatusEvent(x)
    [] kind = "artifact" -> ToArtifactEvent(x)

FromProto(kind, y) ==
  CASE kind = "message" -> FromMessage(y)
    [] kind = "task" -> FromTask(y)
    [] kind = "status" -> FromStatusEvent(y)
    [] kind = "artifact" -> FromArtifactEvent(y)

Trip(kind, x) == FromProto(kind, ToProto(kind, x))

-----------------------------------------------------------------------------
(* What a send is asked to do, and the configurations of notifications.    *)

ToPush(c) == IF c = None THEN None ELSE [c EXCEPT !.id = Blank(@), !.token = Blank(@)]

Number(n) == IF n = None THEN 0 ELSE n

ToSend(c) ==
  [push |-> ToPush(c.push), history |-> Number(c.history), blocking |-> Flag(c.blocking)]

\* FromProto copies the fields: nothing becomes None again.
TripSend(c) == ToSend(c)

\* How many messages of the history the answer has, and whether it is waited for.
Limit(c, n) == IF Number(c.history) \in 1..n THEN c.history ELSE n
Blocks(c) == c.blocking # FALSE

-----------------------------------------------------------------------------
(* Agent cards.                                                            *)

\* Of several OAuth flows the first of these goes.
FirstFlow(flows) ==
  CASE "authorization_code" \in flows -> {"authorization_code"}
    [] "client_credentials" \in flows -> {"client_credentials"}
    [] "implicit" \in flows -> {"implicit"}
    [] OTHER -> {"password"}

\* There is no field for the icon, the security of a skill or the state
\* transition history.
ToCard(c) ==
  [c EXCEPT !.docs = Blank(@), !.preferred = Blank(@), !.extended = Flag(@), !.streaming = Flag(@),
            !.flows = FirstFlow(@), !.security = Listed(@), !.ifaces = Listed(@),
            !.examples = Listed(@), !.icon = None, !.skillSecurity = None, !.transitions = None]

\* A provider is read whether it is set or not.
FromCard(d) ==
  [d EXCEPT !.provider = Blank(@), !.security = ListOrNone(@), !.ifaces = ListOrNone(@)]

TripCard(c) == FromCard(ToCard(c))

\* canonicalize_agent_card leaves out defaults and whatever is empty: the name of
\* the default transport, "", [], False and None are all one.
Canonical(c) ==
  [url |-> c.url, provider |-> Blank(c.provider), docs |-> Blank(c.docs), icon |-> Blank(c.icon),
   preferred |-> IF c.preferred = "JSONRPC" THEN "" ELSE Blank(c.preferred),
   extended |-> Flag(c.extended), streaming |-> Flag(c.streaming),
   transitions |-> Flag(c.transitions), flows |-> c.flows, security |-> Listed(c.security),
   ifaces |-> Listed(c.ifaces), examples |-> Listed(c.examples),
   skillSecurity |-> Listed(c.skillSecurity)]
=============================================================================
