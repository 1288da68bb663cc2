--------------------------- MODULE MCClientSession ---------------------------
(* A small instance of ClientSession for TLC.                               *)
EXTENDS ClientSession

MCString ==
  {"", "card", "request", "now", "m1", "m2", "m3", "m4", "a1", "a2", "c", "d", "f", "i", "k", "x",
   "g1", "g2", "o", "r",
   "JSONRPC", "HTTP+JSON", "GRPC", "KAFKA", "OWN"}

APart(kind, name, meta) == [kind |-> kind, name |-> name, meta |-> meta]
Text == APart("text", None, None)

Note(id, context, exts) ==
  [id |-> id, role |-> "agent", parts |-> <<Text, APart("file", "f", {"k"})>>,
   context |-> context, task |-> None, meta |-> None, exts |-> exts, refs |-> exts]

StatusEvent(state, msg, meta) ==
  [kind |-> "status", status |-> [state |-> state, msg |-> msg, time |-> "now"], meta |-> meta,
   final |-> FALSE]

ArtifactEvent(id, desc, append) ==
  [kind |-> "artifact", append |-> append, last |-> None, meta |-> None,
   artifact |-> [id |-> id, name |-> None, desc |-> desc, meta |-> {},
                 parts |-> <<APart("file", None, {})>>, exts |-> None]]

\* A Task as agents make it from a request, and one that is under way.
ATask(state, msg, history, artifacts) ==
  [kind |-> "task", status |-> [state |-> state, msg |-> msg, time |-> None],
   artifacts |-> artifacts, history |-> history, meta |-> None]

MCTasks ==
  {ATask("submitted", None, <<Request>>, None),
   ATask("working", Note("m3", None, None), <<Request, Note("m4", "c", None)>>,
         <<ArtifactEvent("a1", None, None).artifact>>)}

MCEvents ==
  {StatusEvent("working", None, None), StatusEvent("working", Note("m1", None, None), {"k"}),
   StatusEvent("input-required", Note("m2", "c", <<"x">>), {}), StatusEvent("rejected", None, None),
   ArtifactEvent("a1", "d", None), ArtifactEvent("a1", None, TRUE), ArtifactEvent("a2", None, FALSE)}
    \union MCTasks

Card(kind, preferred, ifaces, extended) ==
  [kind |-> kind, url |-> "card", preferred |-> preferred, ifaces |-> ifaces, extended |-> extended,
   provider |-> None, docs |-> "d", icon |-> None, streaming |-> TRUE, transitions |-> FALSE,
   flows |-> {"password"}, security |-> None, skillSecurity |-> None, examples |-> None]

Config(supported, own, extra) ==
  [supported |-> supported, own |-> own, extra |-> extra, polling |-> own, push |-> None]

Interface(transport, url) == [transport |-> transport, url |-> url]

Session(what, agent, start, how) == [job |-> what, home |-> agent, card |-> start, config |-> how]

\* Cards that offer several transports, and one of them at several urls.
MCConnect ==
  {Session("connect", c, c, Config(supported, own, extra)) :
     c \in {Card("public", preferred, ifaces, FALSE) :
              preferred \in {None, "JSONRPC", "GRPC"},
              ifaces \in {None, <<Interface("GRPC", "g1"), Interface("HTTP+JSON", "r")>>,
                          <<Interface("GRPC", "g1"), Interface("OWN", "o"), Interface("GRPC", "g2")>>,
                          <<Interface("GRPC", ""), Interface("HTTP+JSON", "r")>>}},
     supported \in {<<>>, <<"GRPC", "JSONRPC">>, <<"OWN", "HTTP+JSON", "GRPC">>, <<"KAFKA">>},
     own \in BOOLEAN, extra \in {{}, {"OWN"}}}

\* A client starts with the agent's card, with a minimal one, or with none.
MCCard ==
  UNION {{Session("card", c, start, Config(<<c.preferred>>, TRUE, {})) :
            start \in {c, Card("minimal", c.preferred, <<>>, TRUE)}
                        \union IF c.preferred = "GRPC" THEN {} ELSE {None}} :
         c \in {Card("public", t, None, e) :
                  t \in {"JSONRPC", "HTTP+JSON", "GRPC"}, e \in {None, TRUE}}}

MCFollow ==
  {Session("follow", c, c, Config(<<c.preferred>>, TRUE, {})) :
     c \in {[Card("public", t, None, None) EXCEPT !.icon = "i", !.security = <<>>,
                                                  !.flows = {"implicit", "password"}] :
              t \in {"JSONRPC", "HTTP+JSON", "GRPC"}}}

MCSessions == MCConnect \union MCCard \union MCFollow

Hook == [id |-> None, token |-> None]
MCSends ==
  {[x \in {} |-> None], [history |-> 0], [history |-> 1, push |-> Hook]}
    \union {[blocking |-> b, history |-> h] : b \in BOOLEAN, h \in {None, 1, 2}}
=============================================================================
