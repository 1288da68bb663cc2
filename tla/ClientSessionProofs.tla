-------------------------- MODULE ClientSessionProofs --------------------------
(***************************************************************************)
(* What ClientSession guarantees for any agent's card, any configuration   *)
(* of the client, any number of callers of get_card and any events, over   *)
(* every transport.                                                        *)
(***************************************************************************)
EXTENDS ClientSession, FiniteSetTheorems, SequenceTheorems, WellFoundedInduction, TLAPS

-----------------------------------------------------------------------------
(* Numbers and positions.                                                  *)

Below == {ss \in Nat \X Nat : ss[1] < ss[2]}

\* The natural numbers are well-founded.
LEMMA BelowWF == IsWellFoundedOn(Below, Nat)
BY NatLessThanWellFounded, Zenon DEF OpToRel, Below

\* Induction: what does not hold of every number has a least exception.
LEMMA LeastNat ==
  ASSUME NEW T \in SUBSET Nat, T # {}
  PROVE  \E m \in T : \A k \in T : m <= k
<1>1. PICK m \in T : \A k \in T : ~(<<k, m>> \in Below)
  BY BelowWF, WFMin
<1>2. \A k \in T : ~(k < m)
  BY <1>1 DEF Below
<1>3. QED
  BY <1>2

\* The first and the last of some positions are among them.
LEMMA FirstOf ==
  ASSUME NEW n \in Nat, NEW I \in SUBSET (1..n), I # {}
  PROVE  Min(I) \in I /\ \A i \in I : Min(I) <= i
<1>1. I \in SUBSET Nat
  OBVIOUS
<1>2. \E m \in I : \A k \in I : m <= k
  BY <1>1, LeastNat
<1>3. QED
  BY <1>2 DEF Min

\* The last likewise.
LEMMA LastOf ==
  ASSUME NEW n \in Nat, NEW I \in SUBSET (1..n), I # {}
  PROVE  Max(I) \in I /\ \A i \in I : Max(I) >= i
<1> DEFINE T == {n - i : i \in I}
<1>1. T \in SUBSET Nat /\ T # {}
  <2>1. \A i \in I : n - i \in Nat
    OBVIOUS
  <2>2. QED
    BY <2>1
<1>2. PICK m \in T : \A k \in T : m <= k
  BY <1>1, LeastNat
<1>3. PICK last \in I : m = n - last
  BY <1>2
<1>4. \A i \in I : last >= i
  <2>1. TAKE i \in I
  <2>2. n - i \in T
    OBVIOUS
  <2>3. n - last <= n - i
    BY <1>2, <1>3, <2>2
  <2>4. QED
    BY <2>3
<1>5. QED
  BY <1>4 DEF Max

-----------------------------------------------------------------------------
(* The transport.                                                          *)

\* What the two sides have in common, and the list of the side that decides.
Common(c, cfg) ==
  Range(Supported(cfg)) \intersect {Offered(c)[k].transport : k \in DOMAIN Offered(c)}
Order(c, cfg) ==
  IF cfg.own THEN Supported(cfg) ELSE [k \in DOMAIN Offered(c) |-> Offered(c)[k].transport]
Best(c, cfg, t) ==
  \E k \in DOMAIN Order(c, cfg) :
    Order(c, cfg)[k] = t /\ \A j \in 1..(k - 1) : Order(c, cfg)[j] \notin Common(c, cfg)

\* The last interface of a card for a transport.
LastFor(c, t, url) ==
  \E k \in DOMAIN Offered(c) :
    /\ Offered(c)[k] = [transport |-> t, url |-> url]
    /\ \A j \in DOMAIN Offered(c) : j > k => Offered(c)[j].transport # t

\* A card offers at least its preferred transport, and clients support one.
LEMMA OfferedType ==
  ASSUME NEW c \in AgentCard, NEW cfg \in ClientConfig
  PROVE  /\ Offered(c) \in Seq(AgentInterface) /\ Len(Offered(c)) \in Nat
         /\ DOMAIN Offered(c) = 1..Len(Offered(c))
         /\ Supported(cfg) \in Seq(String) /\ Len(Supported(cfg)) \in Nat
         /\ DOMAIN Supported(cfg) = 1..Len(Supported(cfg))
<1> DEFINE one == [transport |-> IF c.preferred \in {None, ""} THEN "JSONRPC" ELSE c.preferred,
                   url |-> c.url]
<1>1. one \in AgentInterface
  <2>1. c.preferred \in {None} \union String
    BY DEF AgentCard, Opt
  <2>2. (IF c.preferred \in {None, ""} THEN "JSONRPC" ELSE c.preferred) \in String
    BY <2>1, NoneAssumption
  <2>3. c.url \in String
    BY DEF AgentCard
  <2>4. QED
    BY <2>2, <2>3 DEF AgentInterface
<1>2. Listed(c.ifaces) \in Seq(AgentInterface)
  BY DEF Listed, AgentCard, Opt
<1>3. <<one>> \o Listed(c.ifaces) \in Seq(AgentInterface)
  <2> HIDE DEF one
  <2> QED
    BY <1>1, <1>2
<1>4. Offered(c) \in Seq(AgentInterface)
  BY <1>3 DEF Offered
<1>5. Supported(cfg) \in Seq(String)
  <2>1. "JSONRPC" \in String
    BY NoneAssumption
  <2>2. cfg.supported \in Seq(String) /\ <<"JSONRPC">> \in Seq(String)
    BY <2>1 DEF ClientConfig
  <2>3. QED
    BY <2>2 DEF Supported
<1>6. QED
  BY <1>4, <1>5

\* The first common transport of either list.
LEMMA FirstCommon ==
  ASSUME NEW c \in AgentCard, NEW cfg \in ClientConfig
  PROVE  LET server == Offered(c)
             client == Supported(cfg)
             mine == SelectInSeq(client, LAMBDA t : \E k \in DOMAIN server : server[k].transport = t)
             theirs == SelectInSeq(server, LAMBDA x : x.transport \in Range(client))
             t == IF cfg.own THEN client[mine] ELSE server[theirs].transport
         IN IF mine = 0 THEN Common(c, cfg) = {}
            ELSE /\ t \in Common(c, cfg) /\ Best(c, cfg, t)
                 /\ \A u \in Common(c, cfg) : Best(c, cfg, u) => u = t
<1> DEFINE server == Offered(c)
           client == Supported(cfg)
           has(t) == \E k \in DOMAIN server : server[k].transport = t
           I == {i \in 1..Len(client) : has(client[i])}
           J == {j \in 1..Len(server) : server[j].transport \in Range(client)}
           mine == SelectInSeq(client, LAMBDA t : \E k \in DOMAIN server : server[k].transport = t)
           theirs == SelectInSeq(server, LAMBDA x : x.transport \in Range(client))
           order == Order(c, cfg)
           both == Common(c, cfg)
<1>1. mine = (IF I # {} THEN Min(I) ELSE 0) /\ theirs = (IF J # {} THEN Min(J) ELSE 0)
  BY DEF SelectInSeq
<1>2. \A t : t \in both <=> t \in Range(client) /\ has(t)
  BY DEF Common
<1>3. \A t : t \in Range(client) <=> \E i \in 1..Len(client) : client[i] = t
  BY OfferedType DEF Range
<1>4. Len(client) \in Nat /\ Len(server) \in Nat /\ DOMAIN server = 1..Len(server)
      /\ DOMAIN client = 1..Len(client)
  BY OfferedType
<1>5. (I = {} <=> both = {}) /\ (J = {} <=> both = {})
  <2>1. ASSUME NEW t \in both PROVE I # {} /\ J # {}
    <3>1. PICK i \in 1..Len(client), k \in 1..Len(server) : client[i] = t /\ server[k].transport = t
      BY <1>2, <1>3, <1>4, <2>1
    <3>2. i \in I /\ k \in J
      BY <1>2, <1>4, <2>1, <3>1
    <3>3. QED
      BY <3>2
  <2>2. ASSUME NEW i \in I PROVE client[i] \in both
    BY <1>2, <1>3
  <2>3. ASSUME NEW j \in J PROVE server[j].transport \in both
    BY <1>2, <1>4
  <2>4. QED
    BY <2>1, <2>2, <2>3
<1>6. CASE I = {}
  BY <1>1, <1>5, <1>6
<1>7. CASE I # {}
  <2>1. J # {}
    BY <1>5, <1>7
  <2>2. /\ mine \in 1..Len(client) /\ has(client[mine])
        /\ \A i \in 1..Len(client) : has(client[i]) => mine <= i
    BY <1>1, <1>4, <1>7, FirstOf
  <2>3. /\ theirs \in 1..Len(server) /\ server[theirs].transport \in Range(client)
        /\ \A j \in 1..Len(server) : server[j].transport \in Range(client) => theirs <= j
    BY <1>1, <1>4, <2>1, FirstOf
  <2> DEFINE m == IF cfg.own THEN mine ELSE theirs
  <2>4. DOMAIN order = 1..Len(IF cfg.own THEN client ELSE server)
    BY <1>4 DEF Order
  <2>5. \A k \in DOMAIN order :
          order[k] \in both <=> IF cfg.own THEN has(client[k]) ELSE server[k].transport \in Range(client)
    BY <1>2, <1>3, <1>4, <2>4 DEF Order
  <2>6. m \in DOMAIN order /\ order[m] \in both /\ \A k \in DOMAIN order : order[k] \in both => m <= k
    BY <2>2, <2>3, <2>4, <2>5
  <2>7. order[m] = IF cfg.own THEN client[mine] ELSE server[theirs].transport
    BY <1>4, <2>2, <2>3 DEF Order
  <2>8. \A k \in DOMAIN order : k \in Nat \ {0} /\ 1..(k - 1) \subseteq DOMAIN order
    BY <1>4, <2>4
  <2> HIDE DEF m, order, both, mine, theirs, server, client
  <2>9. \A j \in 1..(m - 1) : order[j] \notin both
    BY <2>6, <2>8
  <2>10. ASSUME NEW k \in DOMAIN order, order[k] \in both,
                \A j \in 1..(k - 1) : order[j] \notin both
         PROVE  k = m
    <3>1. ~(m < k)
      BY <2>6, <2>8, <2>10
    <3>2. QED
      BY <2>6, <2>8, <2>10, <3>1
  <2>11. Best(c, cfg, order[m]) /\ \A u \in both : Best(c, cfg, u) => u = order[m]
    BY <2>6, <2>9, <2>10 DEF Best, order, both
  <2>12. mine # 0
    BY <2>2
  <2>13. QED
    BY <2>6, <2>7, <2>11, <2>12 DEF both, mine, theirs, server, client
<1>8. QED
  BY <1>6, <1>7

\* create chooses the best of what is common, at its last url, or nothing, also if that
\* one is empty.
LEMMA NegotiatedIsBest ==
  ASSUME NEW c \in AgentCard, NEW cfg \in ClientConfig
  PROVE  IF Negotiated(c, cfg) = <<>>
           THEN \A t \in Common(c, cfg) :
                  Best(c, cfg, t) => t = "" \/ LastFor(c, t, "") \/ t \notin Registered(cfg)
         ELSE \E w : /\ Negotiated(c, cfg) = <<w>> /\ w.transport \in Common(c, cfg) \ {""}
                     /\ Best(c, cfg, w.transport) /\ w.transport \in Registered(cfg)
                     /\ w.url # "" /\ LastFor(c, w.transport, w.url)
<1> DEFINE server == Offered(c)
           client == Supported(cfg)
           mine == SelectInSeq(client, LAMBDA t : \E k \in DOMAIN server : server[k].transport = t)
           theirs == SelectInSeq(server, LAMBDA x : x.transport \in Range(client))
           first == IF cfg.own THEN client[mine] ELSE server[theirs].transport
           url == UrlOf(server, first)
           chosen == [transport |-> first, url |-> url]
<1>1. Negotiated(c, cfg) =
        IF mine = 0 \/ "" \in {first, url} \/ first \notin Registered(cfg) THEN <<>> ELSE <<chosen>>
  BY DEF Negotiated
<1>2. IF mine = 0 THEN Common(c, cfg) = {}
      ELSE /\ first \in Common(c, cfg) /\ Best(c, cfg, first)
           /\ \A u \in Common(c, cfg) : Best(c, cfg, u) => u = first
  BY FirstCommon
<1>3. ASSUME first \in Common(c, cfg) PROVE LastFor(c, first, url)
  <2> DEFINE L == {k \in 1..Len(server) : server[k].transport = first}
  <2>1. UrlOf(server, first) = server[IF L # {} THEN Max(L) ELSE 0].url
    BY DEF UrlOf, SelectLastInSeq
  <2>2. /\ server \in Seq(AgentInterface) /\ Len(server) \in Nat /\ DOMAIN server = 1..Len(server)
    BY OfferedType
  <2>3. L # {}
    BY <1>3, <2>2 DEF Common
  <2>4. Max(L) \in L /\ \A k \in L : Max(L) >= k
    BY <2>2, <2>3, LastOf
  <2> DEFINE last == Max(L)
  <2> HIDE DEF server, first
  <2>5. server[last] \in AgentInterface /\ server[last].transport = first
    BY <2>2, <2>4
  <2>6. server[last].url = UrlOf(server, first)
    BY <2>1, <2>3
  <2>7. server[last] = chosen
    BY <2>5, <2>6 DEF AgentInterface
  <2>8. \A j \in DOMAIN server : j > last => server[j].transport # first
    BY <2>2, <2>4
  <2>9. last \in DOMAIN server
    BY <2>2, <2>4
  <2>10. QED
    BY <2>7, <2>8, <2>9 DEF LastFor, server
<1> HIDE DEF server, client, mine, theirs, first, url
<1>4. chosen.transport = first /\ chosen.url = url /\ <<chosen>> # <<>>
  OBVIOUS
<1>5. CASE mine = 0 \/ "" \in {first, url} \/ first \notin Registered(cfg)
  <2>1. Negotiated(c, cfg) = <<>>
    BY <1>1, <1>5
  <2>2. ASSUME NEW t \in Common(c, cfg), Best(c, cfg, t)
        PROVE  t = "" \/ LastFor(c, t, "") \/ t \notin Registered(cfg)
    <3>1. mine # 0 /\ t = first
      BY <1>2, <2>2
    <3>2. QED
      BY <1>3, <1>5, <2>2, <3>1
  <2>3. QED
    BY <2>1, <2>2
<1>6. CASE mine # 0 /\ first # "" /\ url # "" /\ first \in Registered(cfg)
  <2>1. Negotiated(c, cfg) = <<chosen>>
    BY <1>1, <1>6
  <2>2. first \in Common(c, cfg) \ {""} /\ Best(c, cfg, first)
    BY <1>2, <1>6
  <2> HIDE DEF chosen
  <2>3. QED
    BY <1>3, <1>4, <1>6, <2>1, <2>2
<1>7. QED
  BY <1>5, <1>6

\* A client that connects keeps the card it is made for.
NegotiationInv ==
  /\ job # "card" => Waiting = {}
  /\ job = "connect" /\ card # None =>
       /\ card \in AgentCard /\ config \in ClientConfig
       /\ pc # "start" =>
            /\ wire = Negotiated(card, config)
            /\ pc = IF wire = <<>> THEN "refused" ELSE "connected"

\* Nothing is chosen at the start.
LEMMA NegotiationInitInv == SessionInit => NegotiationInv
<1> SUFFICES ASSUME SessionInit PROVE NegotiationInv
  OBVIOUS
<1>1. PICK s \in Sessions : job = s.job /\ home = s.home /\ card = s.card /\ config = s.config
  BY DEF SessionInit
<1>2. QED
  BY <1>1, SessionAssumption DEF SessionInit, NegotiationInv, Waiting, Opt

\* Only create chooses, and only get_card exchanges the card.
LEMMA NegotiationStepInv ==
  ASSUME NegotiationInv, [SessionNext]_sessionVars
  PROVE  NegotiationInv'
<1> USE DEF NegotiationInv
<1>1. CASE Create
  BY <1>1 DEF Create, Waiting
<1>2. ASSUME NEW p \in Caller, GetCard(p) \/ Resolved(p) \/ CardComes(p) PROVE NegotiationInv'
  <2>1. job = "card" /\ job' = job
    BY <1>2 DEF GetCard, Resolved, CardComes, Waiting
  <2>2. QED
    BY <2>1
<1>3. ASSUME NEW p \in Caller, CardFails(p) PROVE NegotiationInv'
  BY <1>3 DEF CardFails, Waiting
<1>4. CASE UNCHANGED <<job, home, card, config, wire, pc, cardVars>>
  BY <1>4 DEF cardVars, Waiting
<1>5. (\E e \in Events : Publish(e)) \/ UNCHANGED sessionVars =>
         UNCHANGED <<job, home, card, config, wire, pc, cardVars>>
  BY DEF Publish, sessionVars, cardVars
<1>6. QED
  BY <1>1, <1>2, <1>3, <1>4, <1>5 DEF SessionNext

\* For any card and configuration: the client connects over the first common
\* transport of the side that decides, at the last url the card has for it.
THEOREM FactoryChoosesBest == SessionSpec => []NegotiationBest
<1>1. NegotiationInv => NegotiationBest
  <2> SUFFICES ASSUME NegotiationInv, pc # "start", card # None, job = "connect"
               PROVE  IF pc = "refused"
                        THEN \A t \in Common(card, config) :
                               Best(card, config, t) =>
                                 t = "" \/ LastFor(card, t, "") \/ t \notin Registered(config)
                      ELSE /\ Transport \in Common(card, config) \ {""}
                           /\ Best(card, config, Transport) /\ Transport \in Registered(config)
                           /\ wire[1].url # "" /\ LastFor(card, Transport, wire[1].url)
    BY DEF NegotiationBest, Common, Best, Order, LastFor
  <2>1. wire = Negotiated(card, config) /\ (pc = "refused" <=> wire = <<>>)
    BY DEF NegotiationInv
  <2>2. card \in AgentCard /\ config \in ClientConfig
    BY DEF NegotiationInv
  <2>3. CASE wire = <<>>
    BY <2>1, <2>2, <2>3, NegotiatedIsBest
  <2>4. CASE wire # <<>>
    <3>1. PICK w : /\ wire = <<w>> /\ w.transport \in Common(card, config) \ {""}
                   /\ Best(card, config, w.transport) /\ w.transport \in Registered(config)
                   /\ w.url # "" /\ LastFor(card, w.transport, w.url)
      BY <2>1, <2>2, <2>4, NegotiatedIsBest
    <3>2. wire[1] = w /\ Transport = w.transport
      BY <3>1 DEF Transport
    <3>3. QED
      BY <2>1, <2>4, <3>1, <3>2
  <2>5. QED
    BY <2>3, <2>4
<1>2. QED
  BY NegotiationInitInv, NegotiationStepInv, <1>1, PTL DEF SessionSpec

-----------------------------------------------------------------------------
(* The card.                                                               *)

\* What get_card may return.
Current(kind) ==
  kind # "minimal" /\ (kind = "public" => Transport = "GRPC" \/ ~Flag(home.extended))

\* Who waits for a card, waits for a client that is connected; a card that the
\* client does not want to exchange is current.
CardInv ==
  /\ home \in AgentCard /\ home.kind = "public"
  /\ wants \in BOOLEAN
  /\ (pc # "connected" \/ job # "card") => Waiting = {}
  /\ pc = "start" =>
       /\ card \in Opt(AgentCard) /\ got = {}
       /\ card \in {None, home} \/ (card.kind = "minimal" /\ card.extended = TRUE)
  /\ (pc = "connected" /\ card # None /\ ~wants) => Current(card.kind)
  /\ \A kind \in got : Current(kind)

\* The session starts with a card that will be exchanged, or with the agent's own.
LEMMA CardInitInv == SessionInit => CardInv
<1> SUFFICES ASSUME SessionInit PROVE CardInv
  OBVIOUS
<1>1. PICK s \in Sessions : job = s.job /\ home = s.home /\ card = s.card /\ config = s.config
  BY DEF SessionInit
<1>2. QED
  BY <1>1, SessionAssumption DEF SessionInit, CardInv, Waiting

\* The server's extended card is current, and so is the public one over gRPC.
LEMMA ServedIsCurrent ==
  ASSUME home \in AgentCard, home.kind = "public"
  PROVE  Current(Served.kind)
<1>1. TripCard(home).kind = "public"
  BY DEF TripCard, ToCard, FromCard, AgentCard
<1>2. [home EXCEPT !.kind = "extended"].kind = "extended"
  BY DEF AgentCard
<1>3. QED
  BY <1>1, <1>2 DEF Served, Current

\* Every step keeps the invariant.
LEMMA CardStepInv ==
  ASSUME CardInv, [SessionNext]_sessionVars
  PROVE  CardInv'
<1> USE DEF CardInv
<1>1. CASE Create
  <2>1. /\ pc = "start" /\ pc' \in {"refused", "connected"}
        /\ wants' = (card = None \/ Flag(card.extended))
        /\ UNCHANGED <<job, home, card, resolving, asking, got>>
    BY <1>1 DEF Create, taskVars
  <2>2. wants' \in BOOLEAN
    BY <2>1 DEF Flag, Opt, AgentCard
  <2>3. card # None /\ ~wants' => card = home /\ ~Flag(home.extended)
    BY <2>1, NoneAssumption DEF Flag, Opt
  <2>4. (pc' = "connected" /\ card' # None /\ ~wants') => Current(card.kind)'
    BY <2>1, <2>3 DEF Current
  <2>5. QED
    BY <2>1, <2>2, <2>4 DEF Waiting
<1>2. ASSUME NEW p \in Caller, GetCard(p) PROVE CardInv'
  <2>1. /\ job = "card" /\ pc = "connected"
        /\ UNCHANGED <<job, home, card, wire, pc, wants>>
    BY <1>2 DEF GetCard
  <2>2. got' = got \/ (card # None /\ ~wants /\ got' = got \union {card.kind})
    BY <1>2 DEF GetCard, ReturnOrAsk
  <2>3. \A kind : Current(kind) => Current(kind)'
    BY <2>1 DEF Current, Transport
  <2>4. \A kind \in got' : Current(kind)
    BY <2>1, <2>2
  <2>5. QED
    BY <2>1, <2>3, <2>4
<1>3. ASSUME NEW p \in Caller, Resolved(p) PROVE CardInv'
  <2>1. /\ job = "card" /\ pc = "connected" /\ UNCHANGED <<job, home, wire, pc>>
        /\ card' = home /\ wants' = Flag(home.extended)
    BY <1>3 DEF Resolved, Waiting
  <2>2. got' = got \/ (~wants' /\ got' = got \union {"public"})
    BY <1>3 DEF Resolved, ReturnOrAsk
  <2>3. \A kind : Current(kind) => Current(kind)'
    BY <2>1 DEF Current, Transport
  <2>4. wants' \in BOOLEAN
    BY <2>1 DEF Flag, AgentCard, Opt
  <2>5. ~wants' => Current("public")
    BY <2>1 DEF Current
  <2>6. QED
    BY <2>1, <2>2, <2>3, <2>4, <2>5
<1>4. ASSUME NEW p \in Caller, CardComes(p) PROVE CardInv'
  <2>1. /\ job = "card" /\ pc = "connected" /\ UNCHANGED <<job, home, wire, pc>>
        /\ card' = Served /\ wants' = FALSE /\ got' = got \union {Served.kind}
    BY <1>4 DEF CardComes, Waiting
  <2>2. \A kind : Current(kind) => Current(kind)'
    BY <2>1 DEF Current, Transport
  <2>3. QED
    BY <2>1, <2>2, ServedIsCurrent
<1>5. ASSUME NEW p \in Caller, CardFails(p) PROVE CardInv'
  BY <1>5 DEF CardFails, Waiting, Current, Transport
<1>6. CASE UNCHANGED <<job, home, card, config, wire, pc, cardVars>>
  BY <1>6 DEF cardVars, Waiting, Current, Transport
<1>7. (\E e \in Events : Publish(e)) \/ UNCHANGED sessionVars =>
         UNCHANGED <<job, home, card, config, wire, pc, cardVars>>
  BY DEF Publish, sessionVars, cardVars
<1>8. QED
  BY <1>1, <1>2, <1>3, <1>4, <1>5, <1>6, <1>7 DEF SessionNext

\* However many callers ask for the card at a time, whatever fails: the card that
\* get_card returns is not a minimal one, nor the public one if there is a better.
THEOREM CardIsCurrent == SessionSpec => []NeverAnOldCard
<1>1. CardInv => NeverAnOldCard
  BY DEF CardInv, NeverAnOldCard, Current
<1>2. QED
  BY CardInitInv, CardStepInv, <1>1, PTL DEF SessionSpec
-----------------------------------------------------------------------------
(* The messages of a sequence.                                             *)

\* What is said up to each position.
SaidBy(ms, n, f) == f = [i \in 0..n |-> IF i = 0 THEN <<>> ELSE Joined(f[i - 1], ms[i])]

\* The function that Said defines by recursion exists.
LEMMA SaidExists ==
  ASSUME NEW ms, NEW n \in Nat
  PROVE  \E f : SaidBy(ms, n, f)
<1> DEFINE T == {k \in Nat : ~\E f : SaidBy(ms, k, f)}
<1>1. SUFFICES ASSUME T # {} PROVE FALSE
  OBVIOUS
<1>2. PICK k \in T : \A j \in T : k <= j
  BY <1>1, LeastNat
<1>3. CASE k = 0
  <2>1. SaidBy(ms, 0, [i \in 0..0 |-> <<>>])
    BY DEF SaidBy
  <2>2. QED
    BY <1>2, <1>3, <2>1
<1>4. CASE k # 0
  <2>1. k \in Nat /\ k - 1 \in Nat /\ ~(k <= k - 1)
    BY <1>4
  <2>2. PICK g : SaidBy(ms, k - 1, g)
    BY <1>2, <2>1
  <2> DEFINE f == [i \in 0..k |-> IF i = k THEN Joined(g[k - 1], ms[k]) ELSE g[i]]
  <2>3. \A i \in 0..(k - 1) : g[i] = IF i = 0 THEN <<>> ELSE Joined(g[i - 1], ms[i])
    BY <2>2 DEF SaidBy
  <2>4. \A i \in 0..k : f[i] = IF i = 0 THEN <<>> ELSE Joined(f[i - 1], ms[i])
    <3>1. f[k] = Joined(f[k - 1], ms[k])
      BY <1>4, <2>1
    <3>2. ASSUME NEW i \in 0..(k - 1)
          PROVE  f[i] = IF i = 0 THEN <<>> ELSE Joined(f[i - 1], ms[i])
      BY <2>1, <2>3
    <3> HIDE DEF f
    <3>3. QED
      BY <1>4, <2>1, <3>1, <3>2
  <2>5. f = [i \in 0..k |-> f[i]]
    OBVIOUS
  <2> HIDE DEF f
  <2>6. SaidBy(ms, k, f)
    BY <2>4, <2>5 DEF SaidBy
  <2>7. QED
    BY <1>2, <2>6
<1>5. QED
  BY <1>3, <1>4

Steps(f, ms, n) == f[0] = <<>> /\ \A i \in 1..n : f[i] = Joined(f[i - 1], ms[i])

\* Said takes one step for each message.
LEMMA SaidIs ==
  ASSUME NEW ms, Len(ms) \in Nat
  PROVE  \E f : Said(ms) = f[Len(ms)] /\ Steps(f, ms, Len(ms))
<1> DEFINE F == CHOOSE f : SaidBy(ms, Len(ms), f)
<1>1. SaidBy(ms, Len(ms), F)
  BY SaidExists
<1>2. Said(ms) = F[Len(ms)]
  BY DEF Said, SaidBy
<1> HIDE DEF F
<1>3. Steps(F, ms, Len(ms))
  BY <1>1 DEF SaidBy, Steps
<1>4. QED
  BY <1>2, <1>3

\* Sequences that are alike for a reader, position by position, say the same.
Alike(m, o) == \A said : Joined(said, m) = Joined(said, o)
AllAlike(ms, ns, n) == \A i \in 1..n : Alike(ms[i], ns[i])

\* By induction on the length.
LEMMA SaidAlike ==
  ASSUME NEW ms, NEW ns, NEW n \in Nat, NEW f, NEW g,
         Steps(f, ms, n), Steps(g, ns, n), AllAlike(ms, ns, n)
  PROVE  f[n] = g[n]
<1> DEFINE T == {k \in Nat : k <= n /\ f[k] # g[k]}
<1>1. SUFFICES ASSUME T # {} PROVE FALSE
  OBVIOUS
<1>2. PICK k \in T : \A j \in T : k <= j
  BY <1>1, LeastNat
<1>3. k # 0 /\ k \in 1..n
  BY <1>2 DEF Steps
<1>4. k - 1 \in Nat /\ k - 1 <= n /\ ~(k <= k - 1)
  BY <1>3
<1>5. f[k - 1] = g[k - 1]
  BY <1>2, <1>4
<1>6. f[k] = g[k]
  BY <1>3, <1>5 DEF Steps, AllAlike, Alike
<1>7. QED
  BY <1>2, <1>6

\* So what is said of them is the same.
LEMMA SaidCong ==
  ASSUME NEW ms, NEW ns, NEW n \in Nat, Len(ms) = n, Len(ns) = n, AllAlike(ms, ns, n)
  PROVE  Said(ms) = Said(ns)
<1>1. PICK f : Said(ms) = f[n] /\ Steps(f, ms, n)
  BY SaidIs
<1>2. PICK g : Said(ns) = g[n] /\ Steps(g, ns, n)
  BY SaidIs
<1>3. f[n] = g[n]
  BY <1>1, <1>2, SaidAlike
<1>4. QED
  BY <1>1, <1>2, <1>3

\* One message more.
LEMMA SaidAppend ==
  ASSUME NEW S, NEW ms \in Seq(S), NEW m
  PROVE  Said(ms \o <<m>>) = Joined(Said(ms), m)
<1> DEFINE ns == ms \o <<m>>
           n == Len(ms)
<1>1. n \in Nat /\ Len(ns) = n + 1 /\ ns[n + 1] = m /\ \A i \in 1..n : ns[i] = ms[i]
  OBVIOUS
<1> HIDE DEF ns, n
<1>2. PICK f : Said(ms) = f[n] /\ Steps(f, ms, n)
  BY <1>1, SaidIs DEF n
<1>3. PICK g : Said(ns) = g[n + 1] /\ Steps(g, ns, n + 1)
  <2>1. Len(ns) \in Nat
    BY <1>1
  <2>2. PICK g : Said(ns) = g[Len(ns)] /\ Steps(g, ns, Len(ns))
    BY <2>1, SaidIs
  <2>3. QED
    BY <1>1, <2>2
<1>4. Steps(g, ms, n) /\ AllAlike(ms, ms, n)
  BY <1>1, <1>3 DEF Steps, AllAlike, Alike
<1>5. f[n] = g[n]
  BY <1>1, <1>2, <1>4, SaidAlike
<1>6. g[n + 1] = Joined(g[n], m)
  <2>1. n + 1 \in 1..(n + 1) /\ (n + 1) - 1 = n
    BY <1>1
  <2>2. g[n + 1] = Joined(g[(n + 1) - 1], ns[n + 1])
    BY <1>3, <2>1 DEF Steps
  <2>3. QED
    BY <1>1, <2>1, <2>2
<1>7. QED
  BY <1>2, <1>3, <1>5, <1>6 DEF ns

\* Nothing is said without messages.
LEMMA SaidNothing == Said(<<>>) = <<>>
<1>1. Len(<<>>) = 0
  OBVIOUS
<1>2. QED
  BY <1>1, SaidIs DEF Steps

-----------------------------------------------------------------------------
(* Trips over the wire.                                                    *)

TripPart(p) == FromPart(ToPart(p))
TripParts(ps) == FromParts(ToParts(ps))
TripMessage(m) == FromMessage(ToMessage(m))
TripArtifact(a) == FromArtifact(ToArtifact(a))
CleanPart(p) == [p EXCEPT !.name = Blank(@), !.meta = Struct(@)]

\* Fields that may be absent.
LEMMA FieldTrip ==
  /\ "" \in String
  /\ \A x \in Opt(String) :
       /\ Blank(x) \in String /\ TextOrNone(Blank(x)) \in Opt(String)
       /\ Blank(TextOrNone(Blank(x))) = Blank(x) /\ Blank(Blank(x)) = Blank(x)
  /\ \A x \in Opt(Meta) :
       /\ Struct(x) \in Meta /\ Struct(Struct(x)) = Struct(x)
       /\ (IF x = {} THEN None ELSE x) \in Opt(Meta)
       /\ Struct(IF x = {} THEN None ELSE x) = Struct(x)
  /\ \A x \in Opt(Seq(String)) :
       /\ ListOrNone(Listed(x)) \in Opt(Seq(String))
       /\ Listed(ListOrNone(Listed(x))) = Listed(x)
<1>1. "" \in String
  BY NoneAssumption
<1>2. ASSUME NEW x \in Opt(String)
      PROVE  /\ Blank(x) \in String /\ TextOrNone(Blank(x)) \in Opt(String)
             /\ Blank(TextOrNone(Blank(x))) = Blank(x) /\ Blank(Blank(x)) = Blank(x)
  BY <1>1, NoneAssumption DEF Opt, Blank, TextOrNone
<1>3. ASSUME NEW x \in Opt(Meta)
      PROVE  /\ Struct(x) \in Meta /\ Struct(Struct(x)) = Struct(x)
             /\ (IF x = {} THEN None ELSE x) \in Opt(Meta)
             /\ Struct(IF x = {} THEN None ELSE x) = Struct(x)
  <2>1. x = None \/ x \in Meta
    BY DEF Opt
  <2>2. {} \in Meta
    BY DEF Meta
  <2>3. QED
    BY <2>1, <2>2 DEF Opt, Struct
<1>4. ASSUME NEW x \in Opt(Seq(String))
      PROVE  /\ ListOrNone(Listed(x)) \in Opt(Seq(String))
             /\ Listed(ListOrNone(Listed(x))) = Listed(x)
  BY NoneAssumption DEF Opt, Listed, ListOrNone
<1>5. QED
  BY <1>1, <1>2, <1>3, <1>4

\* A part keeps its kind, its name and its metadata.
LEMMA PartTrip ==
  ASSUME NEW p \in Part
  PROVE  /\ ToPart(p) \in Part /\ TripPart(p) \in Part
         /\ CleanPart(TripPart(p)) = CleanPart(p)
         /\ TripPart(TripPart(p)) = TripPart(p)
<1>1. /\ p = [kind |-> p.kind, name |-> p.name, meta |-> p.meta]
      /\ p.kind \in {"text", "file", "data"} /\ p.name \in Opt(String) /\ p.meta \in Opt(Meta)
  BY DEF Part
<1>2. \A q \in Part :
        TripPart(q) = [kind |-> q.kind, name |-> TextOrNone(Blank(q.name)),
                       meta |-> IF q.meta = {} THEN None ELSE q.meta]
  <2>1. TAKE q \in Part
  <2>2. ToPart(q) \in [kind : {q.kind}, name : {Blank(q.name)}, meta : {q.meta}]
    BY DEF ToPart, Part
  <2>3. FromPart(ToPart(q)) \in [kind : {q.kind}, name : {TextOrNone(Blank(q.name))},
                                meta : {IF q.meta = {} THEN None ELSE q.meta}]
    BY <2>2 DEF FromPart
  <2>4. QED
    BY <2>3 DEF TripPart
<1>3. \A q \in Part :
        CleanPart(q) = [kind |-> q.kind, name |-> Blank(q.name), meta |-> Struct(q.meta)]
  <2>1. TAKE q \in Part
  <2>2. CleanPart(q) \in [kind : {q.kind}, name : {Blank(q.name)}, meta : {Struct(q.meta)}]
    BY DEF CleanPart, Part
  <2>3. QED
    BY <2>2
<1>4. TripPart(p) \in Part
  <2>1. /\ TextOrNone(Blank(p.name)) \in Opt(String)
        /\ (IF p.meta = {} THEN None ELSE p.meta) \in Opt(Meta)
    BY <1>1, FieldTrip
  <2>2. QED
    BY <1>1, <1>2, <2>1 DEF Part
<1>5. CleanPart(TripPart(p)) = CleanPart(p)
  BY <1>1, <1>2, <1>3, <1>4, FieldTrip
<1>6. TripPart(TripPart(p)) = TripPart(p)
  BY <1>1, <1>2, <1>4, FieldTrip
<1>7. ToPart(p) \in Part
  <2>1. Blank(p.name) \in Opt(String)
    BY <1>1, FieldTrip DEF Opt
  <2>2. QED
    BY <1>1, <2>1 DEF ToPart, Part
<1>8. QED
  BY <1>4, <1>5, <1>6, <1>7

\* Sequences of the same length with the same elements are the same.
LEMMA PartsTrip ==
  ASSUME NEW ps \in Seq(Part)
  PROVE  /\ ToParts(ps) \in Seq(Part) /\ TripParts(ps) \in Seq(Part)
         /\ CleanParts(TripParts(ps)) = CleanParts(ps)
         /\ TripParts(TripParts(ps)) = TripParts(ps)
<1>1. \A qs : TripParts(qs) = [k \in DOMAIN qs |-> TripPart(qs[k])]
  BY DEF TripParts, ToParts, FromParts, TripPart
<1>2. \A qs : CleanParts(qs) = [k \in DOMAIN qs |-> CleanPart(qs[k])]
  BY DEF CleanParts, CleanPart
<1>3. DOMAIN ps = 1..Len(ps) /\ Len(ps) \in Nat /\ \A k \in DOMAIN ps : ps[k] \in Part
  OBVIOUS
<1>4. TripParts(ps) \in Seq(Part)
  <2>1. TripParts(ps) \in [1..Len(ps) -> Part]
    BY <1>1, <1>3, PartTrip
  <2>2. QED
    BY <1>3, <2>1
<1>5. ToParts(ps) \in Seq(Part)
  <2>1. ToParts(ps) \in [1..Len(ps) -> Part]
    BY <1>3, PartTrip DEF ToParts
  <2>2. QED
    BY <1>3, <2>1
<1>6. QED
  BY <1>1, <1>2, <1>3, <1>4, <1>5, PartTrip

\* A message keeps what it says; no message becomes an empty one.
LEMMA MessageTrip ==
  ASSUME NEW m \in Opt(Message)
  PROVE  /\ TripMessage(m) \in Message /\ Alike(TripMessage(m), m)
         /\ TripMessage(TripMessage(m)) = TripMessage(m)
<1> DEFINE Goes(x) ==
             [id |-> x.id, role |-> FromRole(ToRole(x.role)), parts |-> TripParts(x.parts),
              context |-> TextOrNone(Blank(x.context)), task |-> TextOrNone(Blank(x.task)),
              meta |-> Struct(x.meta), exts |-> ListOrNone(Listed(x.exts)), refs |-> None]
           Cleaned(x) ==
             [id |-> x.id, role |-> x.role, parts |-> CleanParts(x.parts),
              context |-> Blank(x.context), task |-> Blank(x.task), meta |-> Struct(x.meta),
              exts |-> Listed(x.exts), refs |-> None]
<1>1. \A x \in Message : x # None
  BY NoneAssumption
<1>2. \A x \in Message : TripMessage(x) = Goes(x)
  <2>1. TAKE x \in Message
  <2> DEFINE Wire ==
               [id : {x.id}, role : {ToRole(x.role)}, parts : {ToParts(x.parts)},
                context : {Blank(x.context)}, task : {Blank(x.task)}, meta : {x.meta},
                exts : {Listed(x.exts)}, refs : {None}]
  <2>2. ToMessage(x) \in Wire
    BY <1>1 DEF ToMessage, Message
  <2>3. ToMessage(x) # None
    <3>1. /\ x.id \in String /\ ToRole(x.role) \in {"user", "agent"} /\ ToParts(x.parts) \in Seq(Part)
          /\ Blank(x.context) \in Opt(String) /\ Blank(x.task) \in Opt(String)
          /\ x.meta \in Opt(Meta) /\ Listed(x.exts) \in Opt(Seq(String))
          /\ None \in Opt(Seq(String))
      <4>1. /\ x.id \in String /\ x.role \in {"user", "agent"} /\ x.parts \in Seq(Part)
            /\ x.context \in Opt(String) /\ x.task \in Opt(String) /\ x.meta \in Opt(Meta)
            /\ x.exts \in Opt(Seq(String))
        BY DEF Message
      <4>2. ToRole(x.role) \in {"user", "agent"} /\ ToParts(x.parts) \in Seq(Part)
        BY <4>1, PartsTrip DEF ToRole
      <4>3. Blank(x.context) \in Opt(String) /\ Blank(x.task) \in Opt(String)
        BY <4>1, FieldTrip DEF Opt
      <4>4. Listed(x.exts) \in Opt(Seq(String))
        BY <4>1 DEF Listed, Opt
      <4>5. QED
        BY <4>1, <4>2, <4>3, <4>4 DEF Opt
    <3>2. ToMessage(x) \in Message
      BY <2>2, <3>1 DEF Message
    <3>3. QED
      BY <1>1, <3>2
  <2>4. ASSUME NEW q \in Wire, q # None
        PROVE  FromMessage(q) \in
                 [id : {q.id}, role : {FromRole(q.role)}, parts : {FromParts(q.parts)},
                  context : {TextOrNone(q.context)}, task : {TextOrNone(q.task)},
                  meta : {Struct(q.meta)}, exts : {ListOrNone(q.exts)}, refs : {None}]
    BY <2>4 DEF FromMessage
  <2>5. QED
    BY <2>2, <2>3, <2>4 DEF TripParts, TripMessage
<1>3. \A x \in Message : CleanMessage(x) = Cleaned(x)
  <2>1. TAKE x \in Message
  <2>2. CleanMessage(x) \in
          [id : {x.id}, role : {x.role}, parts : {CleanParts(x.parts)}, context : {Blank(x.context)},
           task : {Blank(x.task)}, meta : {Struct(x.meta)}, exts : {Listed(x.exts)},
           refs : {None}]
    BY DEF CleanMessage, Message
  <2>3. QED
    BY <2>2
<1>4. \A x \in Message :
        /\ Goes(x) \in Message /\ Cleaned(Goes(x)) = Cleaned(x) /\ Goes(Goes(x)) = Goes(x)
  <2>1. TAKE x \in Message
  <2>2. /\ x.id \in String /\ x.role \in {"user", "agent"} /\ x.parts \in Seq(Part)
        /\ x.context \in Opt(String) /\ x.task \in Opt(String) /\ x.meta \in Opt(Meta)
        /\ x.exts \in Opt(Seq(String))
    BY DEF Message
  <2>3. FromRole(ToRole(x.role)) = x.role
    BY <2>2 DEF FromRole, ToRole
  <2>4. Struct(x.meta) \in Opt(Meta) /\ None \in Opt(Seq(String))
    BY <2>2, FieldTrip DEF Opt
  <2>5. Goes(x) \in Message
    BY <2>2, <2>3, <2>4, FieldTrip, PartsTrip DEF Message
  <2>6. Cleaned(Goes(x)) = Cleaned(x) /\ Goes(Goes(x)) = Goes(x)
    BY <2>2, <2>3, FieldTrip, PartsTrip
  <2>7. QED
    BY <2>5, <2>6
<1>5. CASE m = None
  <2> DEFINE empty == [id |-> "", role |-> "agent", parts |-> <<>>, context |-> None,
                       task |-> None, meta |-> {}, exts |-> None, refs |-> None]
  <2> DEFINE Unset ==
               [id : {""}, role : {"unspecified"}, parts : {<<>>}, context : {""}, task : {""},
                meta : {None}, exts : {<<>>}, refs : {None}]
  <2>1. TripMessage(None) \in
          [id : {""}, role : {FromRole("unspecified")}, parts : {FromParts(<<>>)},
           context : {TextOrNone("")}, task : {TextOrNone("")}, meta : {Struct(None)},
           exts : {ListOrNone(<<>>)}, refs : {None}]
    <3>1. UnsetMessage \in Unset
      BY DEF UnsetMessage
    <3>2. ASSUME NEW q \in Unset
          PROVE  [q EXCEPT !.role = FromRole(@), !.parts = FromParts(@), !.context = TextOrNone(@),
                           !.task = TextOrNone(@), !.meta = Struct(@), !.exts = ListOrNone(@)] \in
                   [id : {""}, role : {FromRole("unspecified")}, parts : {FromParts(<<>>)},
                    context : {TextOrNone("")}, task : {TextOrNone("")}, meta : {Struct(None)},
                    exts : {ListOrNone(<<>>)}, refs : {None}]
      OBVIOUS
    <3> HIDE DEF Unset
    <3>3. QED
      BY <3>1, <3>2 DEF TripMessage, ToMessage, FromMessage
  <2>2. FromParts(<<>>) = <<>> /\ ToParts(<<>>) = <<>>
    BY DEF FromParts, ToParts
  <2>3. TripMessage(None) = empty
    BY <2>1, <2>2 DEF FromRole, TextOrNone, Struct, ListOrNone
  <2>4. empty \in Message
    <3>1. "" \in String
      BY FieldTrip
    <3>2. {} \in Meta
      BY DEF Meta
    <3>3. <<>> \in Seq(Part)
      OBVIOUS
    <3>4. QED
      BY <3>1, <3>2, <3>3 DEF Message, Opt
  <2>5. Goes(empty) = empty
    BY <2>2 DEF TripParts, FromRole, ToRole, TextOrNone, Blank, Struct, ListOrNone, Listed
  <2>6. TripMessage(empty) = empty
    BY <1>2, <2>4, <2>5
  <2>7. Alike(empty, None)
    BY <2>4 DEF Alike, Joined
  <2>8. QED
    BY <1>5, <2>3, <2>4, <2>6, <2>7
<1>6. CASE m \in Message
  <2>1. TripMessage(m).id = m.id
    BY <1>2, <1>6
  <2> HIDE DEF Goes, Cleaned
  <2>2. CleanMessage(TripMessage(m)) = CleanMessage(m)
    BY <1>2, <1>3, <1>4, <1>6
  <2>3. TripMessage(m) \in Message
    BY <1>2, <1>4, <1>6
  <2>4. Alike(TripMessage(m), m)
    BY <1>1, <1>6, <2>1, <2>2, <2>3 DEF Alike, Joined
  <2>5. TripMessage(TripMessage(m)) = TripMessage(m)
    BY <1>2, <1>4, <1>6
  <2>6. QED
    BY <2>3, <2>4, <2>5
<1>7. QED
  BY <1>5, <1>6 DEF Opt

\* An artifact keeps everything.
LEMMA ArtifactTrip ==
  ASSUME NEW a \in Artifact
  PROVE  /\ TripArtifact(a) \in Artifact /\ TripArtifact(a).id = a.id
         /\ CleanArtifact(TripArtifact(a)) = CleanArtifact(a)
         /\ TripArtifact(TripArtifact(a)) = TripArtifact(a)
<1> DEFINE Goes(x) ==
             [id |-> x.id, name |-> Blank(x.name), desc |-> Blank(x.desc),
              parts |-> TripParts(x.parts), meta |-> Struct(x.meta),
              exts |-> ListOrNone(Listed(x.exts))]
           Cleaned(x) ==
             [id |-> x.id, name |-> Blank(x.name), desc |-> Blank(x.desc),
              parts |-> CleanParts(x.parts), meta |-> Struct(x.meta), exts |-> Listed(x.exts)]
<1>1. \A x \in Artifact : TripArtifact(x) = Goes(x)
  <2>1. TAKE x \in Artifact
  <2>2. ToArtifact(x) \in
          [id : {x.id}, name : {Blank(x.name)}, desc : {Blank(x.desc)}, parts : {ToParts(x.parts)},
           meta : {x.meta}, exts : {Listed(x.exts)}]
    BY DEF ToArtifact, Artifact
  <2>3. FromArtifact(ToArtifact(x)) \in
          [id : {x.id}, name : {Blank(x.name)}, desc : {Blank(x.desc)}, parts : {TripParts(x.parts)},
           meta : {Struct(x.meta)}, exts : {ListOrNone(Listed(x.exts))}]
    BY <2>2 DEF FromArtifact, TripParts
  <2>4. QED
    BY <2>3 DEF TripArtifact
<1>2. \A x \in Artifact : CleanArtifact(x) = Cleaned(x)
  <2>1. TAKE x \in Artifact
  <2>2. CleanArtifact(x) \in
          [id : {x.id}, name : {Blank(x.name)}, desc : {Blank(x.desc)}, parts : {CleanParts(x.parts)},
           meta : {Struct(x.meta)}, exts : {Listed(x.exts)}]
    BY DEF CleanArtifact, Artifact
  <2>3. QED
    BY <2>2
<1>3. /\ a.id \in String /\ a.name \in Opt(String) /\ a.desc \in Opt(String)
      /\ a.parts \in Seq(Part) /\ a.meta \in Opt(Meta) /\ a.exts \in Opt(Seq(String))
  BY DEF Artifact
<1>4. Struct(a.meta) \in Opt(Meta) /\ Blank(a.name) \in Opt(String) /\ Blank(a.desc) \in Opt(String)
  BY <1>3, FieldTrip DEF Opt
<1>5. Goes(a) \in Artifact
  BY <1>3, <1>4, FieldTrip, PartsTrip DEF Artifact
<1>6. Cleaned(Goes(a)) = Cleaned(a) /\ Goes(Goes(a)) = Goes(a)
  BY <1>3, FieldTrip, PartsTrip
<1>7. QED
  BY <1>1, <1>2, <1>5, <1>6

\* Sequences of messages, and of artifacts, go element by element.
TripHistory(h) == [k \in DOMAIN Listed(h) |-> TripMessage(Listed(h)[k])]
TripArtifacts(as) == [k \in DOMAIN Listed(as) |-> TripArtifact(Listed(as)[k])]

\* A history on its way: as long as before, and typed.
LEMMA HistoryTrip ==
  ASSUME NEW h \in Opt(Seq(Message))
  PROVE  /\ Listed(h) \in Seq(Message) /\ TripHistory(h) \in Seq(Message)
         /\ Listed(TripHistory(h)) = TripHistory(h) /\ Len(TripHistory(h)) = Len(Listed(h))
         /\ TripHistory(TripHistory(h)) = TripHistory(h)
<1> DEFINE s == Listed(h)
<1>1. s \in Seq(Message) /\ \A x \in Seq(Message) : Listed(x) = x
  <2>1. <<>> \in Seq(Message)
    OBVIOUS
  <2>2. \A x \in Seq(Message) : x # None
    BY NoneAssumption
  <2>3. QED
    BY <2>1, <2>2 DEF Listed, Opt
<1> HIDE DEF s
<1>2. DOMAIN s = 1..Len(s) /\ Len(s) \in Nat /\ \A k \in DOMAIN s : s[k] \in Opt(Message)
  BY <1>1 DEF Opt
<1>3. TripHistory(h) = [k \in 1..Len(s) |-> TripMessage(s[k])]
  BY <1>2 DEF TripHistory, s
<1>4. TripHistory(h) \in Seq(Message) /\ Len(TripHistory(h)) = Len(s)
  <2>1. \A k \in 1..Len(s) : TripMessage(s[k]) \in Message
    BY <1>2, MessageTrip
  <2>2. QED
    BY <1>2, <1>3, <2>1
<1>5. TripHistory(TripHistory(h)) = [k \in 1..Len(s) |-> TripMessage(TripHistory(h)[k])]
  BY <1>1, <1>3, <1>4 DEF TripHistory
<1>6. \A k \in 1..Len(s) : TripMessage(TripHistory(h)[k]) = TripHistory(h)[k]
  BY <1>2, <1>3, MessageTrip
<1>7. QED
  BY <1>1, <1>3, <1>4, <1>5, <1>6 DEF s

\* Artifacts on their way look as before.
LEMMA ArtifactsTrip ==
  ASSUME NEW as \in Opt(Seq(Artifact))
  PROVE  /\ Listed(as) \in Seq(Artifact) /\ TripArtifacts(as) \in Seq(Artifact)
         /\ CleanArtifacts(TripArtifacts(as)) = CleanArtifacts(as)
         /\ TripArtifacts(TripArtifacts(as)) = TripArtifacts(as)
<1> DEFINE s == Listed(as)
<1>1. s \in Seq(Artifact) /\ \A x \in Seq(Artifact) : Listed(x) = x
  <2>1. <<>> \in Seq(Artifact)
    OBVIOUS
  <2>2. \A x \in Seq(Artifact) : x # None
    BY NoneAssumption
  <2>3. QED
    BY <2>1, <2>2 DEF Listed, Opt
<1>2. CleanArtifacts(as) = [k \in DOMAIN s |-> CleanArtifact(s[k])]
  <2>1. CASE as = None
    BY <2>1 DEF CleanArtifacts, Listed
  <2>2. CASE as # None
    BY <2>2 DEF CleanArtifacts, Listed
  <2>3. QED
    BY <2>1, <2>2
<1> HIDE DEF s
<1>3. DOMAIN s = 1..Len(s) /\ Len(s) \in Nat /\ \A k \in DOMAIN s : s[k] \in Artifact
  BY <1>1
<1>4. TripArtifacts(as) = [k \in 1..Len(s) |-> TripArtifact(s[k])]
  BY <1>3 DEF TripArtifacts, s
<1>5. TripArtifacts(as) \in Seq(Artifact)
  <2>1. \A k \in 1..Len(s) : TripArtifact(s[k]) \in Artifact
    BY <1>3, ArtifactTrip
  <2>2. QED
    BY <1>3, <1>4, <2>1
<1>6. /\ TripArtifacts(TripArtifacts(as)) = [k \in 1..Len(s) |-> TripArtifact(TripArtifacts(as)[k])]
      /\ CleanArtifacts(TripArtifacts(as)) = [k \in 1..Len(s) |-> CleanArtifact(TripArtifacts(as)[k])]
  BY <1>1, <1>4, <1>5 DEF TripArtifacts, CleanArtifacts
<1>7. \A k \in 1..Len(s) :
        /\ TripArtifact(TripArtifacts(as)[k]) = TripArtifacts(as)[k]
        /\ CleanArtifact(TripArtifacts(as)[k]) = CleanArtifact(s[k])
  BY <1>3, <1>4, ArtifactTrip
<1>8. QED
  BY <1>1, <1>2, <1>3, <1>4, <1>5, <1>6, <1>7 DEF s

\* A task, field by field.
LEMMA TaskTrip ==
  ASSUME NEW t \in Task
  PROVE  /\ Trip("task", t) =
              [kind |-> "task",
               status |-> [state |-> FromState(ToState(t.status.state)),
                           msg |-> TripMessage(t.status.msg), time |-> None],
               artifacts |-> TripArtifacts(t.artifacts), history |-> TripHistory(t.history),
               meta |-> Struct(t.meta)]
         /\ Trip("task", t) \in Task
<1>1. /\ t.status \in TaskStatus /\ t.status.state \in TaskState /\ t.status.msg \in Opt(Message)
      /\ t.artifacts \in Opt(Seq(Artifact)) /\ t.history \in Opt(Seq(Message)) /\ t.meta \in Opt(Meta)
  BY DEF Task, TaskStatus
<1> DEFINE as == [k \in DOMAIN Listed(t.artifacts) |-> ToArtifact(Listed(t.artifacts)[k])]
           h == [k \in DOMAIN Listed(t.history) |-> ToMessage(Listed(t.history)[k])]
<1>2. ToTask(t) \in [kind : {"task"}, status : {ToStatus(t.status)}, artifacts : {as},
                    history : {h}, meta : {t.meta}]
  BY DEF ToTask, Task
<1> HIDE DEF as, h
<1>3. FromTask(ToTask(t)) \in
        [kind : {"task"}, status : {FromStatus(ToStatus(t.status))},
         artifacts : {[k \in DOMAIN as |-> FromArtifact(as[k])]},
         history : {[k \in DOMAIN h |-> FromMessage(h[k])]}, meta : {Struct(t.meta)}]
  BY <1>2 DEF FromTask
<1>4. [k \in DOMAIN as |-> FromArtifact(as[k])] = TripArtifacts(t.artifacts)
  BY DEF as, TripArtifacts, TripArtifact
<1>5. [k \in DOMAIN h |-> FromMessage(h[k])] = TripHistory(t.history)
  BY DEF h, TripHistory, TripMessage
<1>6. FromStatus(ToStatus(t.status)) = [state |-> FromState(ToState(t.status.state)),
                                        msg |-> TripMessage(t.status.msg), time |-> None]
  BY DEF FromStatus, ToStatus, TripMessage
<1>7. Trip("task", t) = FromTask(ToTask(t))
  BY DEF Trip, ToProto, FromProto
<1>8. FromState(ToState(t.status.state)) \in TaskState
  BY <1>1 DEF FromState, ToState, TaskState
<1>9. TripMessage(t.status.msg) \in Opt(Message)
  BY <1>1, MessageTrip DEF Opt
<1>10. FromStatus(ToStatus(t.status)) \in TaskStatus
  BY <1>6, <1>8, <1>9 DEF TaskStatus, Opt
<1>11. /\ TripArtifacts(t.artifacts) \in Opt(Seq(Artifact))
       /\ TripHistory(t.history) \in Opt(Seq(Message)) /\ Struct(t.meta) \in Opt(Meta)
  BY <1>1, ArtifactsTrip, HistoryTrip, FieldTrip DEF Opt
<1>12. Trip("task", t) \in Task
  BY <1>3, <1>4, <1>5, <1>7, <1>10, <1>11 DEF Task
<1>13. QED
  BY <1>3, <1>4, <1>5, <1>6, <1>7, <1>12

\* What is said in a history survives the trip.
LEMMA HistorySaid ==
  ASSUME NEW h \in Opt(Seq(Message))
  PROVE  Said(TripHistory(h)) = Said(Listed(h))
<1> DEFINE s == Listed(h)
           g == TripHistory(h)
<1>1. s \in Seq(Message) /\ g \in Seq(Message) /\ Len(g) = Len(s)
  BY HistoryTrip
<1>2. \A k \in DOMAIN s : g[k] = TripMessage(s[k])
  BY DEF TripHistory
<1> HIDE DEF s, g
<1>3. Len(s) \in Nat /\ DOMAIN s = 1..Len(s) /\ \A k \in 1..Len(s) : s[k] \in Opt(Message)
  BY <1>1 DEF Opt
<1>4. AllAlike(g, s, Len(s))
  BY <1>2, <1>3, MessageTrip DEF AllAlike
<1>5. QED
  BY <1>1, <1>3, <1>4, SaidCong DEF s, g

\* The messages of a task survive the trip.
LEMMA MessagesTrip ==
  ASSUME NEW t \in Task
  PROVE  Messages(Trip("task", t)) = Messages(t)
<1>1. t.status.msg \in Opt(Message) /\ t.history \in Opt(Seq(Message))
  BY DEF Task, TaskStatus
<1> DEFINE h == Listed(t.history)
           g == TripHistory(t.history)
           m == t.status.msg
           n == Len(h) + 1
           hs == h \o <<m>>
           gs == g \o <<TripMessage(m)>>
<1>2. Messages(t) = Said(hs)
  BY DEF Messages
<1>3. Trip("task", t).history = g /\ Trip("task", t).status.msg = TripMessage(m)
  BY TaskTrip
<1>4. Messages(Trip("task", t)) = Said(gs)
  BY <1>1, <1>3, HistoryTrip DEF Messages
<1>5. h \in Seq(Message) /\ g \in Seq(Message) /\ Len(g) = Len(h)
  BY <1>1, HistoryTrip
<1>6. \A k \in 1..Len(h) : g[k] = TripMessage(h[k]) /\ h[k] \in Opt(Message)
  <2>1. \A k \in DOMAIN h : g[k] = TripMessage(h[k])
    BY DEF TripHistory
  <2>2. QED
    BY <1>5, <2>1 DEF Opt
<1>7. m \in Opt(Message)
  BY <1>1
<1> HIDE DEF h, g, m
<1>8. /\ n \in Nat /\ Len(hs) = n /\ Len(gs) = n /\ hs[n] = m /\ gs[n] = TripMessage(m)
      /\ \A k \in 1..Len(h) : hs[k] = h[k] /\ gs[k] = g[k]
      /\ \A k \in 1..n : k = n \/ k \in 1..Len(h)
  <2>1. Len(h) \in Nat
    BY <1>5
  <2>2. /\ Len(hs) = n /\ hs[n] = m /\ \A k \in 1..Len(h) : hs[k] = h[k]
    BY <1>5
  <2>3. /\ Len(gs) = n /\ gs[n] = TripMessage(m) /\ \A k \in 1..Len(h) : gs[k] = g[k]
    BY <1>5
  <2>4. QED
    BY <2>1, <2>2, <2>3
<1> HIDE DEF hs, gs, n
<1>9. \A k \in 1..n : Alike(hs[k], gs[k])
  <2>1. \A x \in Opt(Message) : Alike(x, TripMessage(x))
    BY MessageTrip DEF Alike
  <2>2. QED
    BY <1>6, <1>7, <1>8, <2>1
<1>10. QED
  BY <1>2, <1>4, <1>8, <1>9, SaidCong DEF AllAlike

\* What the wire keeps of a task.
LEMMA TaskIsKept ==
  ASSUME NEW t \in Task
  PROVE  TaskKept(t)
<1> DEFINE trip == Trip("task", t)
<1>1. /\ t.status.state \in TaskState /\ t.status.msg \in Opt(Message) /\ t.meta \in Opt(Meta)
      /\ t.artifacts \in Opt(Seq(Artifact)) /\ t.history \in Opt(Seq(Message))
  BY DEF Task, TaskStatus
<1>2. /\ trip.status.state = FromState(ToState(t.status.state))
      /\ trip.status.msg = TripMessage(t.status.msg) /\ trip.meta = Struct(t.meta)
      /\ trip.artifacts = TripArtifacts(t.artifacts) /\ trip.history = TripHistory(t.history)
  BY TaskTrip
<1>3. /\ t.status.state # "rejected" => FromState(ToState(t.status.state)) = t.status.state
      /\ FromState(ToState(FromState(ToState(t.status.state)))) = FromState(ToState(t.status.state))
  BY <1>1 DEF FromState, ToState, TaskState
<1>4. Struct(Struct(t.meta)) = Struct(t.meta)
  BY <1>1, FieldTrip
<1>5. CleanArtifacts(trip.artifacts) = CleanArtifacts(t.artifacts)
  BY <1>1, <1>2, ArtifactsTrip
<1>6. Trip("task", trip) = trip
  <2>1. trip \in Task /\ trip = [kind |-> "task",
                                 status |-> [state |-> FromState(ToState(t.status.state)),
                                             msg |-> TripMessage(t.status.msg), time |-> None],
                                 artifacts |-> TripArtifacts(t.artifacts),
                                 history |-> TripHistory(t.history), meta |-> Struct(t.meta)]
    BY TaskTrip
  <2> HIDE DEF trip
  <2>2. Trip("task", trip) =
          [kind |-> "task",
           status |-> [state |-> FromState(ToState(trip.status.state)),
                       msg |-> TripMessage(trip.status.msg), time |-> None],
           artifacts |-> TripArtifacts(trip.artifacts), history |-> TripHistory(trip.history),
           meta |-> Struct(trip.meta)]
    BY <2>1, TaskTrip
  <2>3. /\ TripMessage(trip.status.msg) = trip.status.msg
        /\ TripArtifacts(trip.artifacts) = trip.artifacts
        /\ TripHistory(trip.history) = trip.history
    BY <1>1, <1>2, MessageTrip, ArtifactsTrip, HistoryTrip
  <2>4. QED
    BY <1>2, <1>3, <1>4, <2>1, <2>2, <2>3
<1> HIDE DEF trip
<1>7. QED
  BY <1>2, <1>3, <1>4, <1>5, <1>6, MessagesTrip DEF TaskKept, trip

\* A send is answered as its sender means it.
LEMMA SendIsKept ==
  ASSUME NEW cfg \in ClientConfig, NEW c,
         "blocking" \in DOMAIN c => c.blocking \in BOOLEAN
  PROVE  SendKept(Built(cfg, c))
<1> DEFINE b == Built(cfg, c)
<1>1. b.blocking \in BOOLEAN
  BY DEF Built, ClientConfig
<1> HIDE DEF b
<1>2. TripSend(b).blocking = Flag(b.blocking) /\ TripSend(b).history = Number(b.history)
  BY DEF TripSend, ToSend
<1>3. Flag(b.blocking) = b.blocking
  BY <1>1, NoneAssumption DEF Flag
<1>4. Number(Number(b.history)) = Number(b.history)
  BY DEF Number
<1>5. ASSUME NEW n \in 0..2 PROVE Limit(TripSend(b), n) = Limit(b, n)
  <2>1. Number(b.history) \in 1..n => Number(b.history) = b.history
    BY DEF Number
  <2>2. QED
    BY <1>2, <1>4, <2>1 DEF Limit
<1>6. Blocks(TripSend(b)) = Blocks(b)
  BY <1>2, <1>3 DEF Blocks
<1>7. QED
  BY <1>5, <1>6 DEF SendKept, b

\* Of one flow, it is the one that goes.
LEMMA FlowTrip ==
  ASSUME NEW flows \in SUBSET OAuthFlow
  PROVE  /\ FirstFlow(flows) \in SUBSET OAuthFlow
         /\ FirstFlow(FirstFlow(flows)) = FirstFlow(flows)
         /\ Cardinality(flows) = 1 => FirstFlow(flows) = flows
<1>1. FirstFlow(flows) \in SUBSET OAuthFlow /\ FirstFlow(FirstFlow(flows)) = FirstFlow(flows)
  BY DEF FirstFlow, OAuthFlow
<1>2. ASSUME NEW x \in OAuthFlow PROVE FirstFlow({x}) = {x}
  BY DEF FirstFlow, OAuthFlow
<1>3. ASSUME Cardinality(flows) = 1 PROVE \E x \in OAuthFlow : flows = {x}
  <2>1. IsFiniteSet(OAuthFlow)
    <3>1. IsFiniteSet({}) /\ \A S, x : IsFiniteSet(S) => IsFiniteSet(S \union {x})
      BY FS_EmptySet, FS_AddElement
    <3>2. OAuthFlow = ((({} \union {"authorization_code"}) \union {"client_credentials"})
                         \union {"implicit"}) \union {"password"}
      BY DEF OAuthFlow
    <3>3. QED
      BY <3>1, <3>2, Zenon
  <2>2. IsFiniteSet(flows)
    BY <2>1, FS_Subset
  <2>3. PICK x : flows = {x}
    BY <1>3, <2>2, FS_Singleton
  <2>4. QED
    BY <2>3
<1>4. QED
  BY <1>1, <1>2, <1>3

\* What a signature is made over survives for cards the wire has all fields of.
LEMMA CardIsKept ==
  ASSUME NEW c \in AgentCard
  PROVE  CardKept(c)
<1> DEFINE Wire ==
             [kind : {c.kind}, url : {c.url}, preferred : {Blank(c.preferred)},
              ifaces : {ListOrNone(Listed(c.ifaces))}, extended : {Flag(c.extended)},
              provider : {Blank(c.provider)}, docs : {Blank(c.docs)},
              icon : {None}, streaming : {Flag(c.streaming)}, transitions : {None},
              flows : {FirstFlow(c.flows)}, security : {ListOrNone(Listed(c.security))},
              skillSecurity : {None}, examples : {Listed(c.examples)}]
<1>1. \A d \in AgentCard : TripCard(d) \in
        [kind : {d.kind}, url : {d.url}, preferred : {Blank(d.preferred)},
         ifaces : {ListOrNone(Listed(d.ifaces))}, extended : {Flag(d.extended)}, provider : {Blank(d.provider)}, docs : {Blank(d.docs)},
         icon : {None}, streaming : {Flag(d.streaming)}, transitions : {None},
         flows : {FirstFlow(d.flows)}, security : {ListOrNone(Listed(d.security))},
         skillSecurity : {None}, examples : {Listed(d.examples)}]
  <2>1. TAKE d \in AgentCard
  <2>2. ToCard(d) \in
          [kind : {d.kind}, url : {d.url}, preferred : {Blank(d.preferred)},
           ifaces : {Listed(d.ifaces)}, extended : {Flag(d.extended)}, provider : {d.provider}, docs : {Blank(d.docs)},
           icon : {None}, streaming : {Flag(d.streaming)}, transitions : {None},
           flows : {FirstFlow(d.flows)}, security : {Listed(d.security)}, skillSecurity : {None},
           examples : {Listed(d.examples)}]
    BY DEF ToCard, AgentCard
  <2>3. QED
    BY <2>2 DEF TripCard, FromCard
<1>2. /\ c.kind \in {"minimal", "public", "extended"} /\ c.url \in String
      /\ c.preferred \in Opt(String)
      /\ c.ifaces \in Opt(Seq(AgentInterface)) /\ c.extended \in Opt(BOOLEAN)
      /\ c.provider \in Opt(String) /\ c.docs \in Opt(String) /\ c.streaming \in Opt(BOOLEAN)
      /\ c.flows \in SUBSET OAuthFlow /\ c.security \in Opt(Seq(String))
      /\ c.examples \in Opt(Seq(String)) /\ c.transitions \in Opt(BOOLEAN)
  BY DEF AgentCard
<1>3. \A x \in Opt(BOOLEAN) : Flag(x) \in BOOLEAN /\ Flag(Flag(x)) = Flag(x)
  BY NoneAssumption DEF Flag, Opt
<1>4. \A x : /\ ListOrNone(Listed(ListOrNone(Listed(x)))) = ListOrNone(Listed(x))
             /\ Listed(ListOrNone(Listed(x))) = Listed(x) /\ Listed(Listed(x)) = Listed(x)
  BY DEF ListOrNone, Listed
<1>5. TripCard(c) \in AgentCard
  <2>1. /\ Blank(c.preferred) \in Opt(String) /\ Blank(c.provider) \in Opt(String)
        /\ Blank(c.docs) \in Opt(String)
    BY <1>2, FieldTrip DEF Opt
  <2>2. /\ Flag(c.extended) \in Opt(BOOLEAN) /\ Flag(c.streaming) \in Opt(BOOLEAN)
    BY <1>2, <1>3 DEF Opt
  <2>3. /\ ListOrNone(Listed(c.ifaces)) \in Opt(Seq(AgentInterface))
        /\ ListOrNone(Listed(c.security)) \in Opt(Seq(String))
        /\ Listed(c.examples) \in Opt(Seq(String))
    <3>1. ASSUME NEW S, NEW x \in Opt(Seq(S))
          PROVE  Listed(x) \in Opt(Seq(S)) /\ ListOrNone(Listed(x)) \in Opt(Seq(S))
      BY DEF Listed, ListOrNone, Opt
    <3>2. QED
      BY <1>2, <3>1
  <2>4. FirstFlow(c.flows) \in SUBSET OAuthFlow /\ None \in Opt(String)
        /\ None \in Opt(BOOLEAN) /\ None \in Opt(Seq(String))
    BY <1>2, FlowTrip DEF Opt
  <2>5. TripCard(c) \in Wire
    BY <1>1
  <2>6. QED
    BY <1>2, <2>1, <2>2, <2>3, <2>4, <2>5 DEF AgentCard
<1>6. TripCard(TripCard(c)) = TripCard(c)
  <2> DEFINE d == TripCard(c)
  <2>1. d \in Wire
    BY <1>1
  <2>2. TripCard(d) \in
          [kind : {d.kind}, url : {d.url}, preferred : {Blank(d.preferred)},
           ifaces : {ListOrNone(Listed(d.ifaces))}, extended : {Flag(d.extended)}, provider : {Blank(d.provider)}, docs : {Blank(d.docs)},
           icon : {None}, streaming : {Flag(d.streaming)}, transitions : {None},
           flows : {FirstFlow(d.flows)}, security : {ListOrNone(Listed(d.security))},
           skillSecurity : {None}, examples : {Listed(d.examples)}]
    BY <1>1, <1>5
  <2> HIDE DEF d
  <2>3. /\ Blank(d.preferred) = d.preferred /\ Blank(d.provider) = d.provider
        /\ Blank(d.docs) = d.docs
    BY <1>2, <2>1, FieldTrip
  <2>4. Flag(d.extended) = d.extended /\ Flag(d.streaming) = d.streaming
    BY <1>2, <1>3, <2>1
  <2>5. /\ ListOrNone(Listed(d.ifaces)) = d.ifaces /\ ListOrNone(Listed(d.security)) = d.security
        /\ Listed(d.examples) = d.examples
    BY <1>4, <2>1
  <2>6. FirstFlow(d.flows) = d.flows
    BY <1>2, <2>1, FlowTrip
  <2>7. TripCard(d) \in Wire
    BY <2>1, <2>2, <2>3, <2>4, <2>5, <2>6
  <2>8. \A x, y \in Wire : x = y
    OBVIOUS
  <2>9. QED
    BY <2>1, <2>7, <2>8 DEF d
<1>7. ASSUME c.icon = None, Listed(c.skillSecurity) = <<>>, c.transitions # TRUE,
             Cardinality(c.flows) = 1
      PROVE  Canonical(TripCard(c)) = Canonical(c)
  <2> DEFINE d == TripCard(c)
  <2>1. d \in Wire
    BY <1>1
  <2> HIDE DEF d
  <2>2. /\ Blank(d.provider) = Blank(c.provider) /\ Blank(d.docs) = Blank(c.docs)
        /\ Blank(d.preferred) = Blank(c.preferred)
    BY <1>2, <2>1, FieldTrip
  <2>3. (IF d.preferred = "JSONRPC" THEN "" ELSE Blank(d.preferred))
          = IF c.preferred = "JSONRPC" THEN "" ELSE Blank(c.preferred)
    BY <1>2, <2>1, <2>2, NoneAssumption DEF Blank, Opt
  <2>4. Flag(d.extended) = Flag(c.extended) /\ Flag(d.streaming) = Flag(c.streaming)
    BY <1>2, <1>3, <2>1
  <2>5. Flag(d.transitions) = Flag(c.transitions)
    BY <1>2, <1>7, <2>1 DEF Flag, Opt
  <2>6. /\ Listed(d.security) = Listed(c.security) /\ Listed(d.ifaces) = Listed(c.ifaces)
        /\ Listed(d.examples) = Listed(c.examples)
        /\ Listed(d.skillSecurity) = Listed(c.skillSecurity)
    BY <1>4, <1>7, <2>1 DEF Listed
  <2>7. d.flows = c.flows /\ d.url = c.url /\ Blank(d.icon) = Blank(c.icon)
    BY <1>2, <1>7, <2>1, FlowTrip
  <2>8. Canonical(d) = Canonical(c)
    BY <2>2, <2>3, <2>4, <2>5, <2>6, <2>7 DEF Canonical
  <2>9. QED
    BY <2>8 DEF d
<1>8. QED
  BY <1>6, <1>7 DEF CardKept

-----------------------------------------------------------------------------
(* The task.                                                               *)

\* The artifacts that an event makes of some.
Found(as, e) == SelectInSeq(as, LAMBDA a : a.id = e.artifact.id)
Longer(a, ps) == [a EXCEPT !.parts = @ \o ps]
Updated(as, e) ==
  IF Flag(e.append)
    THEN IF Found(as, e) = 0 THEN as
         ELSE [as EXCEPT ![Found(as, e)] = Longer(@, e.artifact.parts)]
  ELSE IF Found(as, e) = 0 THEN Append(as, e.artifact)
  ELSE [as EXCEPT ![Found(as, e)] = e.artifact]

\* The artifact of an event is among them, or it is not.
LEMMA FoundIs ==
  ASSUME NEW as \in Seq(Artifact), NEW e
  PROVE  Found(as, e) = 0 \/ Found(as, e) \in 1..Len(as)
<1> DEFINE I == {i \in 1..Len(as) : as[i].id = e.artifact.id}
<1>1. Found(as, e) = IF I # {} THEN Min(I) ELSE 0
  BY DEF Found, SelectInSeq
<1>2. Len(as) \in Nat
  BY LenProperties
<1>3. I # {} => Min(I) \in I
  BY <1>2, FirstOf
<1>4. QED
  BY <1>1, <1>3

\* An artifact with a chunk more is an artifact, and looks like it.
LEMMA LongerType ==
  ASSUME NEW a \in Artifact, NEW ps \in Seq(Part)
  PROVE  /\ Longer(a, ps) \in Artifact
         /\ CleanArtifact(Longer(a, ps)) =
              [CleanArtifact(a) EXCEPT !.parts = @ \o CleanParts(ps)]
<1>1. \A qs : CleanParts(qs) = [k \in DOMAIN qs |-> CleanPart(qs[k])]
  BY DEF CleanParts, CleanPart
<1> DEFINE qs == a.parts
           rs == qs \o ps
<1>2. /\ a.id \in String /\ a.name \in Opt(String) /\ a.desc \in Opt(String)
      /\ qs \in Seq(Part) /\ a.meta \in Opt(Meta) /\ a.exts \in Opt(Seq(String))
  BY DEF Artifact
<1> HIDE DEF qs
<1>3. rs \in Seq(Part) /\ Len(rs) = Len(qs) + Len(ps) /\ Len(qs) \in Nat /\ Len(ps) \in Nat
  BY <1>2
<1>4. \A k \in 1..Len(rs) : rs[k] = IF k <= Len(qs) THEN qs[k] ELSE ps[k - Len(qs)]
  BY <1>2
<1>5. /\ DOMAIN rs = 1..Len(rs) /\ DOMAIN qs = 1..Len(qs) /\ DOMAIN ps = 1..Len(ps)
  BY <1>2, <1>3
<1> HIDE DEF rs
<1>6. CleanParts(rs) = CleanParts(qs) \o CleanParts(ps)
  <2> DEFINE c == CleanParts(qs)
             d == CleanParts(ps)
  <2>1. \A p \in Part : CleanPart(p) \in Part
    <3>1. TAKE p \in Part
    <3>2. Blank(p.name) \in Opt(String) /\ Struct(p.meta) \in Opt(Meta)
      BY FieldTrip DEF Part, Opt
    <3>3. QED
      BY <3>2 DEF CleanPart, Part
  <2>2. c \in [1..Len(qs) -> Part] /\ d \in [1..Len(ps) -> Part]
    BY <1>1, <1>2, <1>5, <2>1
  <2>3. /\ c \in Seq(Part) /\ d \in Seq(Part) /\ Len(c) = Len(qs) /\ Len(d) = Len(ps)
    <3>1. ASSUME NEW S, NEW n \in Nat, NEW x \in [1..n -> S] PROVE x \in Seq(S) /\ Len(x) = n
      OBVIOUS
    <3> HIDE DEF c, d
    <3>2. QED
      BY <1>3, <2>2, <3>1
  <2>4. /\ \A k \in 1..Len(qs) : c[k] = CleanPart(qs[k])
        /\ \A k \in 1..Len(ps) : d[k] = CleanPart(ps[k])
        /\ CleanParts(rs) = [k \in 1..Len(rs) |-> CleanPart(rs[k])]
    BY <1>1, <1>5
  <2> HIDE DEF c, d
  <2>5. /\ c \o d \in Seq(Part) /\ Len(c \o d) = Len(rs)
        /\ \A k \in 1..Len(rs) : (c \o d)[k] = IF k <= Len(qs) THEN c[k] ELSE d[k - Len(qs)]
    <3>1. /\ c \o d \in Seq(Part) /\ Len(c \o d) = Len(c) + Len(d)
          /\ \A k \in 1..(Len(c) + Len(d)) : (c \o d)[k] = IF k <= Len(c) THEN c[k] ELSE d[k - Len(c)]
      BY <2>3, ConcatProperties
    <3>2. Len(c) = Len(qs) /\ Len(d) = Len(ps) /\ Len(rs) = Len(qs) + Len(ps)
      BY <1>3, <2>3
    <3>3. QED
      BY <3>1, <3>2
  <2>6. \A k \in 1..Len(rs) : (c \o d)[k] = CleanPart(rs[k])
    <3>1. TAKE k \in 1..Len(rs)
    <3>2. CASE k <= Len(qs)
      <4>1. k \in 1..Len(qs)
        BY <1>3, <3>2
      <4>2. QED
        BY <1>4, <2>4, <2>5, <3>2, <4>1
    <3>3. CASE ~(k <= Len(qs))
      <4>1. k - Len(qs) \in 1..Len(ps)
        BY <1>3, <3>3
      <4>2. QED
        BY <1>4, <2>4, <2>5, <3>3, <4>1
    <3>4. QED
      BY <3>2, <3>3
  <2>7. c \o d = [k \in 1..Len(rs) |-> (c \o d)[k]]
    <3>1. DOMAIN (c \o d) = 1..Len(rs) /\ c \o d \in [1..Len(rs) -> Part]
      BY <2>5, LenProperties
    <3>2. QED
      BY <3>1
  <2>8. QED
    BY <2>4, <2>6, <2>7 DEF c, d
<1>7. Longer(a, ps) \in
        [id : {a.id}, name : {a.name}, desc : {a.desc}, parts : {rs}, meta : {a.meta}, exts : {a.exts}]
  BY DEF Longer, Artifact, rs, qs
<1>8. Longer(a, ps) \in Artifact
  BY <1>2, <1>3, <1>7 DEF Artifact
<1>9. \A x \in Artifact : CleanArtifact(x) \in
        [id : {x.id}, name : {Blank(x.name)}, desc : {Blank(x.desc)}, parts : {CleanParts(x.parts)},
         meta : {Struct(x.meta)}, exts : {Listed(x.exts)}]
  BY DEF CleanArtifact, Artifact
<1> DEFINE Set ==
             [id : {a.id}, name : {Blank(a.name)}, desc : {Blank(a.desc)}, parts : {CleanParts(rs)},
              meta : {Struct(a.meta)}, exts : {Listed(a.exts)}]
<1>10. CleanArtifact(Longer(a, ps)) \in Set
  BY <1>7, <1>8, <1>9
<1>11. [CleanArtifact(a) EXCEPT !.parts = @ \o CleanParts(ps)] \in Set
  BY <1>6, <1>9 DEF qs
<1>12. \A x, y \in Set : x = y
  OBVIOUS
<1>13. QED
  BY <1>8, <1>10, <1>11, <1>12

\* Artifacts stay artifacts.
LEMMA UpdatedType ==
  ASSUME NEW as \in Seq(Artifact), NEW e \in TaskArtifactUpdateEvent
  PROVE  Updated(as, e) \in Seq(Artifact)
<1>1. e.artifact \in Artifact /\ e.artifact.parts \in Seq(Part)
  BY DEF TaskArtifactUpdateEvent, Artifact
<1> DEFINE k == Found(as, e)
<1>2. k = 0 \/ k \in 1..Len(as)
  BY FoundIs
<1> HIDE DEF k
<1>3. ASSUME NEW a \in Artifact, k \in 1..Len(as) PROVE [as EXCEPT ![k] = a] \in Seq(Artifact)
  BY <1>3, ExceptSeq
<1>4. k \in 1..Len(as) => Longer(as[k], e.artifact.parts) \in Artifact
  <2>1. as \in [1..Len(as) -> Artifact]
    BY LenProperties
  <2>2. QED
    BY <1>1, <2>1, LongerType
<1>5. Append(as, e.artifact) \in Seq(Artifact)
  BY <1>1, AppendProperties
<1>6. QED
  BY <1>1, <1>2, <1>3, <1>4, <1>5 DEF Updated, k

\* What a reader sees of them.
LEMMA CleanListed ==
  ASSUME NEW as
  PROVE  CleanArtifacts(as) = [k \in DOMAIN Listed(as) |-> CleanArtifact(Listed(as)[k])]
<1>1. CASE as = None
  BY <1>1 DEF CleanArtifacts, Listed
<1>2. CASE as # None
  BY <1>2 DEF CleanArtifacts, Listed
<1>3. QED
  BY <1>1, <1>2

\* A sequence with one element replaced, and with one more.
Replaced(s, k, x) == [s EXCEPT ![k] = x]

ButFor(r, s, k, x) ==
  Len(r) = Len(s) /\ r[k] = x /\ \A j \in 1..Len(s) : j # k => r[j] = s[j]

\* Replacing changes one element; ...
LEMMA OneReplaced ==
  ASSUME NEW S, NEW s \in Seq(S), NEW k \in 1..Len(s), NEW x \in S
  PROVE  Replaced(s, k, x) \in Seq(S) /\ ButFor(Replaced(s, k, x), s, k, x)
BY ExceptSeq DEF Replaced, ButFor

\* ... appending adds one.
OneLonger(r, s, x) ==
  Len(r) = Len(s) + 1 /\ r[Len(s) + 1] = x /\ \A j \in 1..Len(s) : r[j] = s[j]

LEMMA OneMore ==
  ASSUME NEW S, NEW s \in Seq(S), NEW x \in S
  PROVE  Append(s, x) \in Seq(S) /\ OneLonger(Append(s, x), s, x)
BY AppendProperties DEF OneLonger

\* Artifacts that look the same, one by one.
LookAlike(bs, as) ==
  Len(bs) = Len(as) /\ \A k \in 1..Len(as) : CleanArtifact(bs[k]) = CleanArtifact(as[k])

\* They look the same when one of each is replaced at the same place, ...
LEMMA LookAlikeReplaced ==
  ASSUME NEW as \in Seq(Artifact), NEW bs \in Seq(Artifact), LookAlike(bs, as),
         NEW k \in 1..Len(as), NEW x \in Artifact, NEW y \in Artifact,
         CleanArtifact(y) = CleanArtifact(x)
  PROVE  LookAlike(Replaced(bs, k, y), Replaced(as, k, x))
<1>1. Len(bs) = Len(as) /\ k \in 1..Len(bs)
  BY DEF LookAlike
<1>2. ButFor(Replaced(as, k, x), as, k, x) /\ ButFor(Replaced(bs, k, y), bs, k, y)
  BY <1>1, OneReplaced
<1>3. QED
  BY <1>1, <1>2 DEF LookAlike, ButFor

\* ... and when each gets one more.
LEMMA LookAlikeAppend ==
  ASSUME NEW as \in Seq(Artifact), NEW bs \in Seq(Artifact), LookAlike(bs, as),
         NEW x \in Artifact, NEW y \in Artifact, CleanArtifact(y) = CleanArtifact(x)
  PROVE  LookAlike(Append(bs, y), Append(as, x))
<1>1. OneLonger(Append(as, x), as, x) /\ OneLonger(Append(bs, y), bs, y)
  BY OneMore
<1>2. Len(as) \in Nat /\ \A j \in 1..(Len(as) + 1) : j = Len(as) + 1 \/ j \in 1..Len(as)
  <2>1. Len(as) \in Nat
    BY LenProperties
  <2>2. \A n \in Nat : \A j \in 1..(n + 1) : j = n + 1 \/ j \in 1..n
    OBVIOUS
  <2>3. QED
    BY <2>1, <2>2
<1>3. QED
  BY <1>1, <1>2 DEF LookAlike, OneLonger

\* Artifacts that look the same look the same after the same event.
LEMMA UpdatedAlike ==
  ASSUME NEW as \in Seq(Artifact), NEW bs \in Seq(Artifact), LookAlike(bs, as),
         NEW e \in TaskArtifactUpdateEvent, NEW f \in TaskArtifactUpdateEvent,
         CleanArtifact(f.artifact) = CleanArtifact(e.artifact),
         Flag(f.append) = Flag(e.append)
  PROVE  LookAlike(Updated(bs, f), Updated(as, e))
<1>1. /\ e.artifact \in Artifact /\ e.artifact.parts \in Seq(Part)
      /\ f.artifact \in Artifact /\ f.artifact.parts \in Seq(Part)
  BY DEF TaskArtifactUpdateEvent, Artifact
<1>2. \A a \in Artifact : CleanArtifact(a).id = a.id /\ CleanArtifact(a).parts = CleanParts(a.parts)
  BY DEF CleanArtifact, Artifact
<1>3. /\ f.artifact.id = e.artifact.id
      /\ CleanParts(f.artifact.parts) = CleanParts(e.artifact.parts)
  BY <1>1, <1>2
<1>4. \A k \in 1..Len(as) :
        /\ as[k] \in Artifact /\ bs[k] \in Artifact /\ bs[k].id = as[k].id
        /\ CleanArtifact(bs[k]) = CleanArtifact(as[k])
  <2>1. as \in [1..Len(as) -> Artifact] /\ bs \in [1..Len(as) -> Artifact]
    BY LenProperties DEF LookAlike
  <2>2. \A k \in 1..Len(as) : as[k] \in Artifact /\ bs[k] \in Artifact
    BY <2>1
  <2>3. QED
    BY <1>2, <2>2 DEF LookAlike
<1>5. Found(bs, f) = Found(as, e)
  <2>1. {i \in 1..Len(bs) : bs[i].id = f.artifact.id} = {i \in 1..Len(as) : as[i].id = e.artifact.id}
    BY <1>3, <1>4 DEF LookAlike
  <2>2. QED
    BY <2>1 DEF Found, SelectInSeq
<1> DEFINE k == Found(as, e)
<1>6. k = 0 \/ k \in 1..Len(as)
  BY FoundIs
<1>7. Found(bs, f) = k
  BY <1>5
<1> HIDE DEF k
<1>8. Updated(as, e) =
        IF Flag(e.append)
          THEN IF k = 0 THEN as ELSE [as EXCEPT ![k] = Longer(as[k], e.artifact.parts)]
        ELSE IF k = 0 THEN Append(as, e.artifact) ELSE [as EXCEPT ![k] = e.artifact]
  BY DEF Updated, k
<1>9. Updated(bs, f) =
        IF Flag(e.append)
          THEN IF k = 0 THEN bs ELSE [bs EXCEPT ![k] = Longer(bs[k], f.artifact.parts)]
        ELSE IF k = 0 THEN Append(bs, f.artifact) ELSE [bs EXCEPT ![k] = f.artifact]
  BY <1>7 DEF Updated
<1>10. CASE k = 0
  BY <1>1, <1>8, <1>9, <1>10, LookAlikeAppend
<1>11. CASE k \in 1..Len(as)
  <2>1. k # 0
    BY <1>11
  <2>2. CASE Flag(e.append)
    <3> DEFINE x == Longer(as[k], e.artifact.parts)
               y == Longer(bs[k], f.artifact.parts)
    <3>1. /\ x \in Artifact /\ y \in Artifact
          /\ CleanArtifact(y) = [CleanArtifact(bs[k]) EXCEPT !.parts = @ \o CleanParts(f.artifact.parts)]
          /\ CleanArtifact(x) = [CleanArtifact(as[k]) EXCEPT !.parts = @ \o CleanParts(e.artifact.parts)]
      BY <1>1, <1>4, <1>11, LongerType
    <3> HIDE DEF x, y
    <3>2. CleanArtifact(y) = CleanArtifact(x)
      BY <1>3, <1>4, <1>11, <3>1
    <3>3. Updated(as, e) = [as EXCEPT ![k] = x] /\ Updated(bs, f) = [bs EXCEPT ![k] = y]
      BY <1>8, <1>9, <2>1, <2>2 DEF x, y
    <3>4. bs \in Seq(Artifact) /\ as \in Seq(Artifact) /\ LookAlike(bs, as)
      OBVIOUS
    <3>5. LookAlike(Replaced(bs, k, y), Replaced(as, k, x))
      BY <1>11, <3>1, <3>2, <3>4, LookAlikeReplaced
    <3>6. QED
      BY <3>3, <3>5 DEF Replaced
  <2>3. CASE ~Flag(e.append)
    <3>1. /\ Updated(as, e) = [as EXCEPT ![k] = e.artifact]
          /\ Updated(bs, f) = [bs EXCEPT ![k] = f.artifact]
      BY <1>8, <1>9, <2>1, <2>3
    <3>2. LookAlike(Replaced(bs, k, f.artifact), Replaced(as, k, e.artifact))
      BY <1>1, <1>11, LookAlikeReplaced
    <3>3. QED
      BY <3>1, <3>2 DEF Replaced
  <2>4. QED
    BY <2>2, <2>3
<1>12. QED
  BY <1>6, <1>10, <1>11

-----------------------------------------------------------------------------
(* The view of the client.                                                 *)

\* What append_artifact_to_task does to a task.
LEMMA WithArtifactIs ==
  ASSUME NEW t \in Task, NEW e \in TaskArtifactUpdateEvent
  PROVE  /\ WithArtifact(t, e) \in Task
         /\ WithArtifact(t, e).artifacts = Updated(Listed(t.artifacts), e)
         /\ WithArtifact(t, e).status = t.status /\ WithArtifact(t, e).history = t.history
         /\ WithArtifact(t, e).meta = t.meta
<1>1. /\ t.status \in TaskStatus /\ t.artifacts \in Opt(Seq(Artifact))
      /\ t.history \in Opt(Seq(Message)) /\ t.meta \in Opt(Meta)
  BY DEF Task
<1> DEFINE as == Listed(t.artifacts)
           k == Found(as, e)
<1>2. as \in Seq(Artifact)
  BY <1>1, ArtifactsTrip
<1>3. Updated(as, e) \in Seq(Artifact)
  BY <1>2, UpdatedType
<1>4. k = 0 \/ k \in 1..Len(as)
  BY <1>2, FoundIs
<1>5. WithArtifact(t, e) = [t EXCEPT !.artifacts = Updated(as, e)]
  BY DEF WithArtifact, Updated, Found, Longer
<1> HIDE DEF as, k
<1>6. QED
  BY <1>1, <1>3, <1>5 DEF Task, Opt, as

\* What is said is what a reader sees of messages.
CleanMessages == {CleanMessage(m) : m \in Message}

\* By induction on the length.
LEMMA SaidType ==
  ASSUME NEW ms \in Seq(Message)
  PROVE  Said(ms) \in Seq(CleanMessages)
<1> DEFINE n == Len(ms)
<1>1. n \in Nat
  BY LenProperties
<1>2. PICK f : Said(ms) = f[n] /\ Steps(f, ms, n)
  BY <1>1, SaidIs
<1>3. \A i \in 1..n : ms[i] \in Message
  BY LenProperties
<1> HIDE DEF n
<1> DEFINE Bad == {i \in 0..n : f[i] \notin Seq(CleanMessages)}
<1>4. Bad = {}
  <2>1. SUFFICES ASSUME Bad # {} PROVE FALSE
    OBVIOUS
  <2>2. PICK i \in Bad : \A j \in Bad : i <= j
    <3>1. Bad \in SUBSET Nat
      BY <1>1
    <3> HIDE DEF Bad
    <3>2. QED
      BY <2>1, <3>1, LeastNat
  <2>3. i # 0
    <3>1. <<>> \in Seq(CleanMessages)
      OBVIOUS
    <3>2. QED
      BY <1>2, <2>2, <3>1 DEF Steps
  <2>4. i \in 1..n /\ i - 1 \in 0..n /\ i - 1 \notin Bad
    BY <1>1, <2>2, <2>3
  <2>5. f[i - 1] \in Seq(CleanMessages)
    BY <2>4
  <2>6. f[i] = Joined(f[i - 1], ms[i])
    BY <1>2, <2>4 DEF Steps
  <2>7. CleanMessage(ms[i]) \in CleanMessages
    BY <1>3, <2>4 DEF CleanMessages
  <2>8. Append(f[i - 1], CleanMessage(ms[i])) \in Seq(CleanMessages)
    BY <2>5, <2>7, AppendProperties
  <2>9. f[i] \in Seq(CleanMessages)
    BY <2>5, <2>6, <2>8 DEF Joined
  <2>10. QED
    BY <2>2, <2>9
<1>5. QED
  BY <1>1, <1>2, <1>4

\* What is said after something else.
Then(before, said) == before \o said

LEMMA JoinedAfter ==
  ASSUME NEW pre \in Seq(CleanMessages), NEW said \in Seq(CleanMessages),
         NEW m \in Opt(Message), NEW o, Alike(o, m)
  PROVE  /\ Joined(said, o) \in Seq(CleanMessages)
         /\ Joined(Then(pre, said), m) = Then(pre, Joined(said, o))
<1>1. Joined(said, o) = Joined(said, m)
  BY DEF Alike
<1>2. CASE m = None \/ m.id = ""
  BY <1>1, <1>2 DEF Joined, Then
<1>3. CASE ~(m = None \/ m.id = "")
  <2> DEFINE x == CleanMessage(m)
  <2>1. x \in CleanMessages
    BY <1>3 DEF CleanMessages, Opt
  <2>2. Joined(said, m) = Append(said, x) /\ Joined(pre \o said, m) = Append(pre \o said, x)
    BY <1>3 DEF Joined
  <2> HIDE DEF x
  <2>3. Append(said, x) \in Seq(CleanMessages)
    BY <2>1, AppendProperties
  <2>4. Append(pre \o said, x) = pre \o Append(said, x)
    BY <2>1
  <2>5. QED
    BY <1>1, <2>2, <2>3, <2>4 DEF Then
<1>4. QED
  BY <1>2, <1>3

\* What one message says.
LEMMA SaidOne ==
  ASSUME NEW m \in Opt(Message)
  PROVE  Said(<<m>>) = Joined(<<>>, m) /\ Said(<<m>>) \in Seq(CleanMessages)
<1>1. <<>> \in Seq(Message) /\ <<>> \in Seq(CleanMessages) /\ <<>> \o <<m>> = <<m>>
  OBVIOUS
<1>2. Said(<<m>>) = Joined(<<>>, m)
  BY <1>1, SaidAppend, SaidNothing
<1>3. Alike(m, m)
  BY DEF Alike
<1>4. Joined(<<>>, m) \in Seq(CleanMessages)
  BY <1>1, <1>3, JoinedAfter
<1>5. QED
  BY <1>2, <1>4

\* What one says and another, in two parts.
LEMMA JoinedTo ==
  ASSUME NEW said \in Seq(CleanMessages), NEW m \in Opt(Message)
  PROVE  Joined(said, m) = Then(said, Said(<<m>>))
<1>1. <<>> \in Seq(CleanMessages) /\ Then(said, <<>>) = said /\ Alike(m, m)
  BY DEF Alike, Then
<1>2. Joined(Then(said, <<>>), m) = Then(said, Joined(<<>>, m))
  BY <1>1, JoinedAfter
<1>3. QED
  BY <1>1, <1>2, SaidOne

\* Each side says one message more, and neither forgets one.
LEMMA SaysMore ==
  ASSUME NEW told \in Seq(CleanMessages), NEW missing \in Seq(CleanMessages),
         NEW rest \in Seq(CleanMessages),
         NEW x \in Opt(Message), NEW y \in Opt(Message), Alike(y, x)
  PROVE  \E more \in Seq(CleanMessages) :
           /\ Joined(Then(told, rest), y) = Then(told, more)
           /\ Joined(Then(Then(told, missing), rest), x) = Then(Then(told, missing), more)
<1>1. Then(told, missing) \in Seq(CleanMessages) /\ Alike(y, y)
  BY DEF Alike, Then
<1>2. Joined(Then(told, rest), y) = Then(told, Joined(rest, y))
  BY <1>1, JoinedAfter
<1>3. /\ Joined(rest, y) \in Seq(CleanMessages)
      /\ Joined(Then(Then(told, missing), rest), x) = Then(Then(told, missing), Joined(rest, y))
  BY <1>1, JoinedAfter
<1>4. QED
  BY <1>2, <1>3

\* A history that a message is moved to, or none.
LEMMA HistoryGrows ==
  ASSUME NEW h \in Opt(Seq(Message)), NEW m \in Opt(Message)
  PROVE  /\ (IF m = None THEN h ELSE Append(Listed(h), m)) \in Opt(Seq(Message))
         /\ Said(Listed(IF m = None THEN h ELSE Append(Listed(h), m))) = Joined(Said(Listed(h)), m)
<1>1. Listed(h) \in Seq(Message)
  BY HistoryTrip
<1>2. CASE m = None
  BY <1>2 DEF Joined
<1>3. CASE m # None
  <2>1. m \in Message
    BY <1>3 DEF Opt
  <2>2. Append(Listed(h), m) \in Seq(Message)
    BY <1>1, <2>1, AppendProperties
  <2>3. Append(Listed(h), m) = Listed(h) \o <<m>>
    BY <1>1, <2>1
  <2>4. Listed(Append(Listed(h), m)) = Append(Listed(h), m)
    BY <2>2, NoneAssumption DEF Listed
  <2>5. Said(Listed(h) \o <<m>>) = Joined(Said(Listed(h)), m)
    BY <1>1, SaidAppend
  <2>6. QED
    BY <1>3, <2>2, <2>3, <2>4, <2>5 DEF Opt
<1>4. QED
  BY <1>2, <1>3

\* What has been said in a task when its status message is the last.
LEMMA MessagesAre ==
  ASSUME NEW t \in Task
  PROVE  Messages(t) = Joined(Said(Listed(t.history)), t.status.msg)
<1>1. Listed(t.history) \in Seq(Message)
  BY HistoryTrip DEF Task
<1>2. QED
  BY <1>1, SaidAppend DEF Messages

\* The state and the time that a client is told of.
Shown(x) == IF OverProto THEN FromState(ToState(x)) ELSE x
ShownTime(x) == IF OverProto THEN None ELSE x

\* What had been said when a stream began, and what the client's history lacks.
Told(b) == IF b = None THEN <<>> ELSE Said(Listed(b.history))
Missing(b) == IF b = None THEN Said(<<Request>>) ELSE Said(<<b.status.msg>>)

\* The client's history and the messages of the server's task.
SaysSame(b, t, v) ==
  \E rest \in Seq(CleanMessages) :
    /\ Said(Listed(v.history)) = Then(Told(b), rest)
    /\ Messages(t) = Then(Then(Told(b), Missing(b)), rest)

\* The client's task looks like the server's.
Agrees(b, t, v) ==
  /\ CleanArtifacts(v.artifacts) = CleanArtifacts(t.artifacts)
  /\ Struct(v.meta) = Struct(t.meta)
  /\ \/ v.status.state = Shown(t.status.state) /\ v.status.time = ShownTime(t.status.time)
     \/ b = None /\ v.status.state = "unknown" /\ t.status.state = "submitted"
  /\ SaysSame(b, t, v)

\* The message that a task is started with.
LEMMA RequestType == Request \in Message
<1>1. <<>> \in Seq(Part)
  OBVIOUS
<1>2. QED
  BY <1>1, NoneAssumption DEF Request, Message, Opt

\* Both are what a reader sees of messages.
LEMMA ToldType ==
  ASSUME NEW b \in Opt(Task)
  PROVE  Told(b) \in Seq(CleanMessages) /\ Missing(b) \in Seq(CleanMessages)
<1>1. CASE b = None
  <2>1. Request \in Opt(Message) /\ <<>> \in Seq(CleanMessages)
    BY RequestType DEF Opt
  <2>2. QED
    BY <1>1, <2>1, SaidOne DEF Told, Missing
<1>2. CASE b # None
  <2>1. b.history \in Opt(Seq(Message)) /\ b.status.msg \in Opt(Message)
    BY <1>2 DEF Opt, Task, TaskStatus
  <2>2. Listed(b.history) \in Seq(Message)
    BY <2>1, HistoryTrip
  <2>3. QED
    BY <1>2, <2>1, <2>2, SaidOne, SaidType DEF Told, Missing
<1>3. QED
  BY <1>1, <1>2

\* Tasks look alike when they begin with an update, ...
LEMMA NewAgrees ==
  LET t == NewTask("submitted", <<Request>>)
      v == NewTask("unknown", None)
  IN t \in Task /\ v \in Task /\ Agrees(None, t, v)
<1> DEFINE t == NewTask("submitted", <<Request>>)
           v == NewTask("unknown", None)
<1>1. Request \in Message /\ Request \in Opt(Message)
  BY RequestType DEF Opt
<1>2. <<Request>> \in Seq(Message)
  BY <1>1
<1>3. t \in Task /\ v \in Task
  BY <1>2 DEF NewTask, Task, TaskStatus, TaskState, Opt
<1>4. /\ t.artifacts = None /\ v.artifacts = None /\ t.meta = None /\ v.meta = None
      /\ t.status.state = "submitted" /\ t.status.msg = None /\ v.status.state = "unknown"
      /\ t.history = <<Request>> /\ v.history = None
  BY DEF NewTask
<1> HIDE DEF t, v
<1>5. Listed(<<Request>>) = <<Request>> /\ Listed(None) = <<>>
  BY <1>2, NoneAssumption DEF Listed
<1>6. Messages(t) = Said(<<Request>>)
  BY <1>3, <1>4, <1>5, MessagesAre DEF Joined
<1>7. /\ <<>> \in Seq(CleanMessages) /\ Said(<<>>) = Then(<<>>, <<>>)
      /\ Said(<<Request>>) = Then(Then(<<>>, Said(<<Request>>)), <<>>)
  BY <1>1, SaidNothing, SaidOne DEF Then
<1>8. SaysSame(None, t, v)
  BY <1>4, <1>5, <1>6, <1>7 DEF SaysSame, Told, Missing
<1>9. Agrees(None, t, v)
  BY <1>4, <1>8 DEF Agrees
<1>10. QED
  BY <1>3, <1>9 DEF t, v

\* What the client is told of a task.
LEMMA TaskTells ==
  ASSUME NEW t \in Task
  PROVE  LET v == Sent("task", t)
         IN /\ v \in Task /\ CleanArtifacts(v.artifacts) = CleanArtifacts(t.artifacts)
            /\ Struct(v.meta) = Struct(t.meta) /\ v.status.state = Shown(t.status.state)
            /\ v.status.time = ShownTime(t.status.time)
            /\ Said(Listed(v.history)) = Said(Listed(t.history))
<1> DEFINE v == Sent("task", t)
<1>1. /\ t.history \in Opt(Seq(Message)) /\ t.meta \in Opt(Meta)
      /\ t.artifacts \in Opt(Seq(Artifact))
  BY DEF Task
<1>2. CASE OverProto
  <2>1. v = Trip("task", t)
    BY <1>2 DEF Sent
  <2> HIDE DEF v
  <2>2. /\ v \in Task /\ v.status.state = FromState(ToState(t.status.state))
        /\ v.status.time = None /\ v.artifacts = TripArtifacts(t.artifacts)
        /\ v.history = TripHistory(t.history) /\ v.meta = Struct(t.meta)
    BY <2>1, TaskTrip
  <2>3. Said(TripHistory(t.history)) = Said(Listed(t.history))
    BY <1>1, HistorySaid
  <2>4. Listed(TripHistory(t.history)) = TripHistory(t.history)
    BY <1>1, HistoryTrip, NoneAssumption DEF Listed
  <2>5. CleanArtifacts(TripArtifacts(t.artifacts)) = CleanArtifacts(t.artifacts)
    BY <1>1, ArtifactsTrip
  <2>6. Struct(Struct(t.meta)) = Struct(t.meta)
    BY <1>1, FieldTrip
  <2>7. QED
    BY <1>2, <2>2, <2>3, <2>4, <2>5, <2>6 DEF Shown, ShownTime, v
<1>3. CASE ~OverProto
  BY <1>3 DEF Sent, Shown, ShownTime
<1>4. QED
  BY <1>2, <1>3

\* ... and when they begin with a Task.
LEMMA TaskAgrees ==
  ASSUME NEW t \in Task
  PROVE  Sent("task", t) \in Task /\ Agrees(t, t, Sent("task", t))
<1> DEFINE v == Sent("task", t)
<1>1. /\ t.history \in Opt(Seq(Message)) /\ t.status.msg \in Opt(Message) /\ t # None
  BY NoneAssumption DEF Task, TaskStatus
<1>2. /\ v \in Task /\ CleanArtifacts(v.artifacts) = CleanArtifacts(t.artifacts)
      /\ Struct(v.meta) = Struct(t.meta) /\ v.status.state = Shown(t.status.state)
      /\ v.status.time = ShownTime(t.status.time)
      /\ Said(Listed(v.history)) = Said(Listed(t.history))
  BY TaskTells
<1> HIDE DEF v
<1>3. SaysSame(t, t, v)
  <2>1. t \in Opt(Task)
    BY DEF Opt
  <2>2. Told(t) = Said(Listed(t.history)) /\ Missing(t) = Said(<<t.status.msg>>)
    BY <1>1 DEF Told, Missing
  <2>3. Told(t) \in Seq(CleanMessages) /\ Missing(t) \in Seq(CleanMessages)
    BY <2>1, ToldType
  <2>4. Messages(t) = Then(Told(t), Missing(t))
    BY <1>1, <2>2, <2>3, MessagesAre, JoinedTo
  <2>5. /\ <<>> \in Seq(CleanMessages) /\ Then(Told(t), <<>>) = Told(t)
        /\ Then(Then(Told(t), Missing(t)), <<>>) = Then(Told(t), Missing(t))
    BY <2>3 DEF Then
  <2>6. QED
    BY <1>2, <2>2, <2>4, <2>5 DEF SaysSame
<1>4. QED
  BY <1>2, <1>3 DEF Agrees, v

\* An update and what the client gets of it.
Update == TaskStatusUpdateEvent \union TaskArtifactUpdateEvent

SameEvent(e, f) ==
  /\ e \in Update /\ f \in Update /\ f.kind = e.kind /\ Struct(f.meta) = Struct(e.meta)
  /\ e.kind = "status" => /\ f.status.state = Shown(e.status.state)
                          /\ f.status.time = ShownTime(e.status.time)
                          /\ Alike(f.status.msg, e.status.msg)
  /\ e.kind = "artifact" => /\ CleanArtifact(f.artifact) = CleanArtifact(e.artifact)
                            /\ Flag(f.append) = Flag(e.append)

\* An update is of one kind or the other.
LEMMA EventIs ==
  ASSUME NEW e \in Update
  PROVE  /\ e.meta \in Opt(Meta)
         /\ \/ e.kind = "status" /\ e \in TaskStatusUpdateEvent
            \/ e.kind = "artifact" /\ e \in TaskArtifactUpdateEvent
BY DEF Update, TaskStatusUpdateEvent, TaskArtifactUpdateEvent

\* The wire keeps what an event says.
LEMMA StatusEventTrip ==
  ASSUME NEW e \in TaskStatusUpdateEvent, OverProto
  PROVE  SameEvent(e, Trip("status", e))
<1>1. /\ e.kind = "status" /\ e.status.state \in TaskState /\ e.status.msg \in Opt(Message)
      /\ e.meta \in Opt(Meta) /\ e.final \in BOOLEAN
  BY DEF TaskStatusUpdateEvent, TaskStatus
<1>2. Trip("status", e) \in
        [kind : {"status"}, meta : {Struct(e.meta)}, final : {e.final},
         status : {[state |-> FromState(ToState(e.status.state)),
                    msg |-> TripMessage(e.status.msg), time |-> None]}]
  BY DEF Trip, FromProto, ToProto, FromStatusEvent, ToStatusEvent, FromStatus, ToStatus,
         TripMessage, TaskStatusUpdateEvent
<1> DEFINE f == Trip("status", e)
<1>3. /\ f.kind = "status" /\ f.meta = Struct(e.meta)
      /\ f.status.state = FromState(ToState(e.status.state)) /\ f.status.time = None
      /\ f.status.msg = TripMessage(e.status.msg)
  BY <1>2
<1>4. TripMessage(e.status.msg) \in Message /\ Alike(TripMessage(e.status.msg), e.status.msg)
  BY <1>1, MessageTrip
<1>5. FromState(ToState(e.status.state)) \in TaskState
  BY <1>1 DEF FromState, ToState, TaskState
<1>6. Struct(e.meta) \in Opt(Meta) /\ Struct(Struct(e.meta)) = Struct(e.meta)
  BY <1>1, FieldTrip DEF Opt
<1>7. f \in TaskStatusUpdateEvent
  BY <1>1, <1>2, <1>4, <1>5, <1>6 DEF TaskStatusUpdateEvent, TaskStatus, Opt
<1> HIDE DEF f
<1>8. SameEvent(e, f)
  BY <1>1, <1>3, <1>4, <1>6, <1>7 DEF SameEvent, Update, Shown, ShownTime
<1>9. QED
  BY <1>8 DEF f

\* The same for an event with an artifact, ...
LEMMA ArtifactEventTrip ==
  ASSUME NEW e \in TaskArtifactUpdateEvent, OverProto
  PROVE  SameEvent(e, Trip("artifact", e))
<1>1. /\ e.kind = "artifact" /\ e.artifact \in Artifact /\ e.meta \in Opt(Meta)
      /\ e.append \in Opt(BOOLEAN) /\ e.last \in Opt(BOOLEAN)
  BY DEF TaskArtifactUpdateEvent
<1>2. Trip("artifact", e) \in
        [kind : {"artifact"}, meta : {Struct(e.meta)}, append : {Flag(e.append)},
         last : {Flag(e.last)}, artifact : {TripArtifact(e.artifact)}]
  BY DEF Trip, FromProto, ToProto, FromArtifactEvent, ToArtifactEvent, TripArtifact,
         TaskArtifactUpdateEvent
<1> DEFINE f == Trip("artifact", e)
<1>3. /\ f.kind = "artifact" /\ f.meta = Struct(e.meta) /\ f.append = Flag(e.append)
      /\ f.artifact = TripArtifact(e.artifact)
  BY <1>2
<1>4. /\ TripArtifact(e.artifact) \in Artifact
      /\ CleanArtifact(TripArtifact(e.artifact)) = CleanArtifact(e.artifact)
  BY <1>1, ArtifactTrip
<1>5. /\ Flag(e.append) \in BOOLEAN /\ Flag(e.last) \in BOOLEAN
      /\ Flag(Flag(e.append)) = Flag(e.append)
  BY <1>1, NoneAssumption DEF Flag, Opt
<1>6. Struct(e.meta) \in Opt(Meta) /\ Struct(Struct(e.meta)) = Struct(e.meta)
  BY <1>1, FieldTrip DEF Opt
<1>7. f \in TaskArtifactUpdateEvent
  BY <1>1, <1>2, <1>4, <1>5, <1>6 DEF TaskArtifactUpdateEvent, Opt
<1> HIDE DEF f
<1>8. SameEvent(e, f)
  BY <1>1, <1>3, <1>4, <1>5, <1>6, <1>7 DEF SameEvent, Update
<1>9. QED
  BY <1>8 DEF f

\* ... and over any transport.
LEMMA SentSays ==
  ASSUME NEW e \in Update
  PROVE  SameEvent(e, Sent(e.kind, e))
<1>1. CASE OverProto
  BY <1>1, EventIs, StatusEventTrip, ArtifactEventTrip DEF Sent
<1>2. CASE ~OverProto
  <2>1. Alike(e.status.msg, e.status.msg)
    BY DEF Alike
  <2>2. QED
    BY <1>2, <2>1 DEF Sent, SameEvent, Shown, ShownTime
<1>3. QED
  BY <1>1, <1>2

\* Each side has moved a message to its history, at its own time.
LEMMA StatusAgrees ==
  ASSUME NEW b \in Opt(Task), NEW t \in Task, NEW v \in Task, Agrees(b, t, v),
         NEW e, NEW f, SameEvent(e, f),
         e.kind = "status"
  PROVE  /\ StoreApplies(t, e) \in Task /\ ClientApplies(v, f) \in Task
         /\ Agrees(b, StoreApplies(t, e), ClientApplies(v, f))
<1>1. /\ e \in TaskStatusUpdateEvent /\ f \in TaskStatusUpdateEvent /\ f.kind = "status"
      /\ Struct(f.meta) = Struct(e.meta)
      /\ f.status.state = Shown(e.status.state) /\ Alike(f.status.msg, e.status.msg)
      /\ f.status.time = ShownTime(e.status.time)
  BY EventIs DEF SameEvent
<1>2. /\ e.status \in TaskStatus /\ f.status \in TaskStatus
      /\ e.meta \in Opt(Meta) /\ f.meta \in Opt(Meta)
      /\ e.status.msg \in Opt(Message) /\ f.status.msg \in Opt(Message)
  BY <1>1 DEF TaskStatusUpdateEvent, TaskStatus
<1>3. \A x \in {t, v} :
        /\ x.artifacts \in Opt(Seq(Artifact)) /\ x.history \in Opt(Seq(Message))
        /\ x.meta \in Opt(Meta) /\ x.status.msg \in Opt(Message)
  BY DEF Task, TaskStatus
<1> DEFINE h == IF t.status.msg = None THEN t.history ELSE Append(Listed(t.history), t.status.msg)
           g == IF f.status.msg = None THEN v.history ELSE Append(Listed(v.history), f.status.msg)
           u == StoreApplies(t, e)
           w == ClientApplies(v, f)
<1>4. h \in Opt(Seq(Message)) /\ Said(Listed(h)) = Messages(t)
  <2>1. h \in Opt(Seq(Message)) /\ Said(Listed(h)) = Joined(Said(Listed(t.history)), t.status.msg)
    BY <1>3, HistoryGrows
  <2>2. QED
    BY <2>1, MessagesAre
<1>5. g \in Opt(Seq(Message)) /\ Said(Listed(g)) = Joined(Said(Listed(v.history)), f.status.msg)
  BY <1>2, <1>3, HistoryGrows
<1>6. u \in [kind : {"task"}, status : {e.status}, artifacts : {t.artifacts}, history : {h}, meta : {WithMeta(t, e)}]
  BY <1>1 DEF StoreApplies, Task, TaskStatusUpdateEvent
<1>7. w \in [kind : {"task"}, status : {f.status}, artifacts : {v.artifacts}, history : {g}, meta : {WithMeta(v, f)}]
  BY <1>1 DEF ClientApplies, Task, TaskStatusUpdateEvent
<1> HIDE DEF h, g, u, w
<1>8. \A x \in Task : \A y : y.meta \in Opt(Meta) => WithMeta(x, y) \in Opt(Meta)
  BY DEF WithMeta, Struct, Opt, Meta, Task
<1>9. u \in Task /\ w \in Task
  BY <1>2, <1>3, <1>4, <1>5, <1>6, <1>7, <1>8 DEF Task
<1>10. Struct(w.meta) = Struct(u.meta)
  <2>1. Struct(v.meta) = Struct(t.meta)
    BY DEF Agrees
  <2>2. CASE Struct(e.meta) = {}
    BY <1>1, <1>6, <1>7, <2>1, <2>2 DEF WithMeta
  <2>3. CASE Struct(e.meta) # {}
    <3>1. f.meta = e.meta
      BY <1>1, <2>3 DEF Struct
    <3>2. QED
      BY <1>1, <1>6, <1>7, <2>1, <2>3, <3>1 DEF WithMeta
  <2>4. QED
    BY <2>2, <2>3
<1>11. SaysSame(b, u, w)
  <2> DEFINE told == Told(b)
             all == Then(Told(b), Missing(b))
  <2>1. PICK rest \in Seq(CleanMessages) :
          Said(Listed(v.history)) = Then(told, rest) /\ Messages(t) = Then(all, rest)
    BY DEF Agrees, SaysSame
  <2>2. Told(b) \in Seq(CleanMessages) /\ Missing(b) \in Seq(CleanMessages)
    BY ToldType
  <2>3. Messages(u) = Joined(Messages(t), e.status.msg)
    BY <1>4, <1>6, <1>9, MessagesAre
  <2>4. Said(Listed(w.history)) = Joined(Then(told, rest), f.status.msg)
    BY <1>5, <1>7, <2>1
  <2>5. PICK more \in Seq(CleanMessages) :
          /\ Joined(Then(told, rest), f.status.msg) = Then(told, more)
          /\ Joined(Then(all, rest), e.status.msg) = Then(all, more)
    BY <1>1, <1>2, <2>1, <2>2, SaysMore
  <2>6. QED
    BY <2>1, <2>3, <2>4, <2>5 DEF SaysSame
<1>12. Agrees(b, u, w)
  BY <1>1, <1>6, <1>7, <1>10, <1>11 DEF Agrees
<1>13. QED
  BY <1>9, <1>12 DEF u, w

\* Both have the same chunks in the same artifacts.
LEMMA ArtifactAgrees ==
  ASSUME NEW b \in Opt(Task), NEW t \in Task, NEW v \in Task, Agrees(b, t, v),
         NEW e, NEW f, SameEvent(e, f),
         e.kind = "artifact"
  PROVE  /\ StoreApplies(t, e) \in Task /\ ClientApplies(v, f) \in Task
         /\ Agrees(b, StoreApplies(t, e), ClientApplies(v, f))
<1>1. /\ e \in TaskArtifactUpdateEvent /\ f \in TaskArtifactUpdateEvent /\ f.kind = "artifact"
      /\ CleanArtifact(f.artifact) = CleanArtifact(e.artifact) /\ Flag(f.append) = Flag(e.append)
  BY EventIs DEF SameEvent
<1> DEFINE u == WithArtifact(t, e)
           w == WithArtifact(v, f)
           as == Listed(t.artifacts)
           bs == Listed(v.artifacts)
<1>2. /\ u \in Task /\ w \in Task
      /\ u.artifacts = Updated(as, e) /\ w.artifacts = Updated(bs, f)
      /\ u.status = t.status /\ u.history = t.history /\ u.meta = t.meta
      /\ w.status = v.status /\ w.history = v.history /\ w.meta = v.meta
  BY <1>1, WithArtifactIs
<1>3. StoreApplies(t, e) = u /\ ClientApplies(v, f) = w
  BY <1>1 DEF StoreApplies, ClientApplies
<1>4. as \in Seq(Artifact) /\ bs \in Seq(Artifact)
  BY ArtifactsTrip DEF Task
<1> DEFINE ca == [k \in DOMAIN as |-> CleanArtifact(as[k])]
           cb == [k \in DOMAIN bs |-> CleanArtifact(bs[k])]
<1>5. ca = cb
  BY CleanListed DEF Agrees
<1> HIDE DEF u, w, as, bs
<1>6. LookAlike(bs, as)
  <2>1. /\ DOMAIN as = 1..Len(as) /\ DOMAIN bs = 1..Len(bs)
        /\ Len(as) \in Nat /\ Len(bs) \in Nat
    BY <1>4, LenProperties
  <2>2. DOMAIN as = DOMAIN bs
    <3>1. DOMAIN ca = DOMAIN as /\ DOMAIN cb = DOMAIN bs
      OBVIOUS
    <3> HIDE DEF ca, cb
    <3>2. QED
      BY <1>5, <3>1
  <2>3. Len(bs) = Len(as)
    <3>1. \A m, n \in Nat : 1..m = 1..n => m = n
      OBVIOUS
    <3>2. 1..Len(as) = 1..Len(bs)
      BY <2>1, <2>2
    <3>3. QED
      BY <2>1, <3>1, <3>2
  <2>4. ASSUME NEW k \in 1..Len(as) PROVE CleanArtifact(bs[k]) = CleanArtifact(as[k])
    <3>1. ca[k] = CleanArtifact(as[k]) /\ cb[k] = CleanArtifact(bs[k])
      BY <2>1, <2>3, <2>4
    <3>2. QED
      BY <1>5, <3>1
  <2>5. QED
    BY <2>3, <2>4 DEF LookAlike
<1> HIDE DEF ca, cb
<1>7. LookAlike(Updated(bs, f), Updated(as, e))
  BY <1>1, <1>4, <1>6, UpdatedAlike
<1>8. CleanArtifacts(Updated(bs, f)) = CleanArtifacts(Updated(as, e))
  <2>1. Updated(as, e) \in Seq(Artifact) /\ Updated(bs, f) \in Seq(Artifact)
    BY <1>1, <1>4, UpdatedType
  <2>2. Listed(Updated(as, e)) = Updated(as, e) /\ Listed(Updated(bs, f)) = Updated(bs, f)
    BY <2>1, NoneAssumption DEF Listed
  <2>3. /\ DOMAIN Updated(as, e) = 1..Len(Updated(as, e))
        /\ DOMAIN Updated(bs, f) = 1..Len(Updated(as, e))
    BY <1>7, <2>1, LenProperties DEF LookAlike
  <2>4. QED
    BY <1>7, <2>2, <2>3, CleanListed DEF LookAlike
<1>9. Messages(u) = Messages(t)
  BY <1>2, MessagesAre
<1>10. Agrees(b, u, w)
  BY <1>2, <1>8, <1>9 DEF Agrees, SaysSame
<1>11. QED
  BY <1>2, <1>3, <1>10

\* The store applies any update to any task.
LEMMA StoreType ==
  ASSUME NEW t \in Task, NEW e \in Update
  PROVE  StoreApplies(t, e) \in Task
<1>1. CASE e.kind = "artifact"
  <2>1. e \in TaskArtifactUpdateEvent
    BY <1>1, EventIs
  <2>2. QED
    BY <1>1, <2>1, WithArtifactIs DEF StoreApplies
<1>2. CASE e.kind = "status"
  <2>1. e \in TaskStatusUpdateEvent /\ e.meta \in Opt(Meta) /\ e.status \in TaskStatus
    BY <1>2, EventIs DEF TaskStatusUpdateEvent
  <2>2. /\ t.artifacts \in Opt(Seq(Artifact)) /\ t.history \in Opt(Seq(Message))
        /\ t.meta \in Opt(Meta) /\ t.status.msg \in Opt(Message)
    BY DEF Task, TaskStatus
  <2> DEFINE h == IF t.status.msg = None THEN t.history ELSE Append(Listed(t.history), t.status.msg)
  <2>3. h \in Opt(Seq(Message))
    BY <2>2, HistoryGrows
  <2>4. StoreApplies(t, e) \in [kind : {"task"}, status : {e.status}, artifacts : {t.artifacts},
                                history : {h}, meta : {WithMeta(t, e)}]
    BY <1>2 DEF StoreApplies, Task
  <2>5. WithMeta(t, e) \in Opt(Meta)
    BY <2>1, <2>2 DEF WithMeta, Struct, Opt, Meta
  <2> HIDE DEF h
  <2>6. QED
    BY <2>1, <2>2, <2>3, <2>4, <2>5 DEF Task
<1>3. QED
  BY <1>1, <1>2, EventIs

\* The server takes anything that is published.
LEMMA TakenType ==
  ASSUME stored \in Opt(Task), NEW e \in Events
  PROVE  StoreTakes(e) \in Task
<1>1. CASE e \in Task
  BY <1>1 DEF StoreTakes, Task
<1>2. CASE e \in Update
  <2> DEFINE t == IF stored = None THEN NewTask("submitted", <<Request>>) ELSE stored
  <2>1. t \in Task
    BY NewAgrees DEF Opt
  <2>2. e.kind # "task"
    BY <1>2, EventIs
  <2> HIDE DEF t
  <2>3. StoreApplies(t, e) \in Task
    BY <1>2, <2>1, StoreType
  <2>4. QED
    BY <2>2, <2>3 DEF StoreTakes, t
<1>3. QED
  BY <1>1, <1>2, SessionAssumption DEF Update

\* The client has put together what the server has stored, for as long as it follows.
ViewInv ==
  /\ home \in AgentCard /\ config \in ClientConfig
  /\ stored \in Opt(Task) /\ view \in Opt(Task) /\ begun \in Opt(Task)
  /\ (stored = None) = (view = None) /\ following \in BOOLEAN
  /\ stored = None => following /\ begun = None
  /\ pc = "start" => stored = None
  /\ (stored # None /\ following) => Agrees(begun, stored, view)

\* There is no task at the start.
LEMMA ViewInitInv == SessionInit => ViewInv
BY SessionAssumption DEF SessionInit, ViewInv, Opt

\* Only events change the two copies, and change both.
LEMMA ViewStepInv ==
  ASSUME ViewInv, [SessionNext]_sessionVars
  PROVE  ViewInv'
<1>1. ASSUME UNCHANGED <<home, config, wire, stored, view, following, begun>>,
             pc = "start" \/ pc' # "start"
      PROVE  ViewInv'
  <2>1. Agrees(begun, stored, view)' = Agrees(begun, stored, view)
    BY <1>1 DEF Agrees, Shown, ShownTime, OverProto, Transport
  <2>2. QED
    BY <1>1, <2>1 DEF ViewInv
<1>2. CASE Create
  <2>1. stored = None /\ view = None /\ UNCHANGED <<home, config, stored, view, following, begun>>
    BY <1>2 DEF Create, ViewInv, taskVars
  <2>2. QED
    BY <2>1 DEF ViewInv
<1>3. ASSUME NEW p \in Caller, GetCard(p) \/ Resolved(p) \/ CardComes(p) \/ CardFails(p)
      PROVE  ViewInv'
  <2>1. UNCHANGED <<home, config, wire, pc, stored, view, following, begun>>
    BY <1>3 DEF GetCard, Resolved, CardComes, CardFails, taskVars
  <2>2. QED
    BY <1>1, <2>1
<1>4. ASSUME NEW e \in Events, Publish(e) PROVE ViewInv'
  <2> DEFINE f == Sent(e.kind, e)
  <2>1. /\ pc = "connected" /\ UNCHANGED <<home, config, wire, pc>>
        /\ stored' = StoreTakes(e)
        /\ following' = (following /\ (e.kind = "task" => view = None))
        /\ view' = IF following' THEN ClientTakes(f) ELSE view
        /\ begun' = IF e.kind = "task" /\ stored = None THEN e ELSE begun
    BY <1>4 DEF Publish
  <2> HIDE DEF f
  <2>2. stored' \in Task /\ stored' # None
    BY <2>1, TakenType, NoneAssumption DEF ViewInv
  <2>3. SUFFICES /\ view' \in Task /\ begun' \in Opt(Task)
                 /\ following' => Agrees(begun', stored', view')
    <3>1. Agrees(begun, stored, view)' = Agrees(begun', stored', view')
      BY <2>1 DEF Agrees, Shown, ShownTime, OverProto, Transport
    <3>2. view' \in Task => view' # None
      BY NoneAssumption
    <3>3. following' \in BOOLEAN
      BY <2>1 DEF ViewInv
    <3>4. QED
      BY <2>1, <2>2, <2>3, <3>1, <3>2, <3>3 DEF ViewInv, Opt
  <2>4. CASE ~following'
    <3>1. view # None
      BY <2>1, <2>4 DEF ViewInv
    <3>2. view' = view /\ begun' = begun
      BY <2>1, <2>4, <3>1 DEF ViewInv
    <3>3. QED
      BY <2>4, <3>1, <3>2 DEF ViewInv, Opt
  <2>5. CASE following' /\ e \in Task
    <3>1. e.kind = "task" /\ stored = None
      BY <2>1, <2>5 DEF ViewInv, Task
    <3>2. stored' = e /\ begun' = e
      BY <2>1, <3>1 DEF StoreTakes
    <3>3. f \in Task /\ Agrees(e, e, f)
      BY <2>5, <3>1, TaskAgrees DEF f
    <3>4. view' = f
      BY <2>1, <2>5, <3>3 DEF ClientTakes, Task
    <3>5. QED
      BY <2>5, <3>2, <3>3, <3>4 DEF Opt
  <2>6. CASE following' /\ e \in Update
    <3> DEFINE t == IF stored = None THEN NewTask("submitted", <<Request>>) ELSE stored
               v == IF view = None THEN NewTask("unknown", None) ELSE view
    <3>1. e.kind = "status" \/ e.kind = "artifact"
      BY <2>6, EventIs
    <3>2. SameEvent(e, f)
      BY <2>6, SentSays DEF f
    <3>3. f.kind = e.kind
      BY <3>2 DEF SameEvent
    <3>4. stored' = StoreApplies(t, e) /\ view' = ClientApplies(v, f) /\ begun' = begun
      BY <2>1, <2>6, <3>1, <3>3 DEF StoreTakes, ClientTakes
    <3>5. following
      BY <2>1, <2>6 DEF ViewInv
    <3>6. t \in Task /\ v \in Task /\ begun \in Opt(Task) /\ Agrees(begun, t, v)
      BY <3>5, NewAgrees DEF ViewInv, Opt
    <3> HIDE DEF t, v
    <3>7. /\ ClientApplies(v, f) \in Task
          /\ Agrees(begun, StoreApplies(t, e), ClientApplies(v, f))
      BY <3>1, <3>2, <3>6, StatusAgrees, ArtifactAgrees
    <3>8. QED
      BY <3>4, <3>6, <3>7
  <2>7. QED
    BY <2>4, <2>5, <2>6, SessionAssumption DEF Update
<1>5. CASE UNCHANGED sessionVars
  BY <1>1, <1>5 DEF sessionVars, taskVars
<1>6. QED
  BY <1>2, <1>3, <1>4, <1>5 DEF SessionNext

\* The invariant holds in every state.
LEMMA ViewAlways == SessionSpec => []ViewInv
<1>1. QED
  BY ViewInitInv, ViewStepInv, PTL DEF SessionSpec

\* What comes before a place and what comes after it.
LEMMA SplitAt ==
  ASSUME NEW S, NEW xs \in Seq(S), NEW ys \in Seq(S)
  PROVE  LET s == xs \o ys
         IN SubSeq(s, 1, Len(xs)) = xs /\ SubSeq(s, Len(xs) + 1, Len(s)) = ys
<1> DEFINE s == xs \o ys
<1>1. Len(xs) \in Nat /\ Len(ys) \in Nat /\ Len(s) = Len(xs) + Len(ys)
  BY LenProperties, ConcatProperties
<1>2. SubSeq(s, 1, Len(xs)) = xs
  <2>1. CASE Len(xs) = 0
    BY <2>1, SubSeqEmpty, EmptySeq
  <2>2. CASE Len(xs) # 0
    <3>1. 1 \in 1..Len(xs) /\ Len(xs) \in 1..Len(xs)
      BY <1>1, <2>2
    <3>2. QED
      BY <3>1, SubSeqOfConcat1, SubSeqFull
  <2>3. QED
    BY <2>1, <2>2
<1>3. SubSeq(s, Len(xs) + 1, Len(s)) = ys
  <2>1. CASE Len(ys) = 0
    <3>1. Len(s) < Len(xs) + 1 /\ Len(s) \in Int /\ Len(xs) + 1 \in Int
      BY <1>1, <2>1
    <3>2. QED
      BY <2>1, <3>1, SubSeqEmpty, EmptySeq
  <2>2. CASE Len(ys) # 0
    <3>1. /\ Len(xs) + 1 \in (Len(xs) + 1)..(Len(xs) + Len(ys))
          /\ Len(s) \in (Len(xs) + 1)..(Len(xs) + Len(ys))
          /\ (Len(xs) + 1) - Len(xs) = 1 /\ Len(s) - Len(xs) = Len(ys)
      BY <1>1, <2>2
    <3>2. SubSeq(s, Len(xs) + 1, Len(s)) = SubSeq(ys, (Len(xs) + 1) - Len(xs), Len(s) - Len(xs))
      BY <3>1, SubSeqOfConcat2
    <3>3. QED
      BY <3>1, <3>2, SubSeqFull
  <2>3. QED
    BY <2>1, <2>2
<1>4. QED
  BY <1>2, <1>3

\* The task that a client puts together from what it is sent, a Task and updates or
\* updates alone, is the one it gets when it polls, over every transport: a message that
\* the server still has as its status message, and the client already in its history, is
\* in both.  But for the request, or the status message of the Task, the client has all.
THEOREM ViewsArePolled == SessionSpec => []ViewIsWhatIsPolled
<1>1. ViewInv => ViewIsWhatIsPolled
  <2> SUFFICES ASSUME ViewInv, stored # None, following PROVE ViewIsWhatIsPolled
    BY DEF ViewIsWhatIsPolled
  <2> DEFINE polled == Sent("task", stored)
             heard == Said(Listed(view.history))
             n == Len(Told(begun))
  <2>1. stored \in Task /\ view \in Task /\ begun \in Opt(Task) /\ Agrees(begun, stored, view)
    BY DEF ViewInv, Opt
  <2>2. /\ CleanArtifacts(polled.artifacts) = CleanArtifacts(stored.artifacts)
        /\ Struct(polled.meta) = Struct(stored.meta)
        /\ polled.status.state = Shown(stored.status.state)
        /\ polled.status.time = ShownTime(stored.status.time)
    BY <2>1, TaskTells
  <2>3. Messages(polled) = Messages(stored)
    BY <2>1, MessagesTrip DEF Sent
  <2>4. PICK rest \in Seq(CleanMessages) :
          heard = Told(begun) \o rest /\ Messages(stored) = Told(begun) \o Missing(begun) \o rest
    BY <2>1 DEF Agrees, SaysSame, Then
  <2>5. Told(begun) \in Seq(CleanMessages)
    BY <2>1, ToldType
  <2> HIDE DEF heard, polled
  <2>6. SubSeq(heard, 1, n) = Told(begun) /\ SubSeq(heard, n + 1, Len(heard)) = rest
    BY <2>4, <2>5, SplitAt
  <2>7. n = IF begun = None THEN 0 ELSE Len(Said(Listed(begun.history)))
    BY DEF Told
  <2>8. Messages(polled) = SubSeq(heard, 1, n) \o Missing(begun) \o SubSeq(heard, n + 1, Len(heard))
    BY <2>3, <2>4, <2>6
  <2> HIDE DEF n
  <2>9. QED
    BY <2>1, <2>2, <2>7, <2>8 DEF Agrees, Missing, ViewIsWhatIsPolled, heard, polled
<1>2. QED
  BY ViewAlways, <1>1, PTL

\* What the conversions make of the task that the server has stored, of a send's
\* configuration and of the agent's card means the same, and is not changed again
\* when it is relayed.
THEOREM ConversionsKeepMeaning == SessionSpec => []MeaningKept
<1>1. ViewInv => MeaningKept
  <2> SUFFICES ASSUME ViewInv PROVE MeaningKept
    OBVIOUS
  <2>1. stored # None => TaskKept(stored)
    BY TaskIsKept DEF ViewInv, Opt
  <2>2. \A c \in Sends : SendKept(Built(config, c))
    BY SendIsKept, SessionAssumption DEF ViewInv
  <2>3. CardKept(home)
    BY CardIsKept DEF ViewInv
  <2>4. QED
    BY <2>1, <2>2, <2>3 DEF MeaningKept
<1>2. QED
  BY ViewAlways, <1>1, PTL

-----------------------------------------------------------------------------
(* What the variables hold.                                                *)

Kinds == {"minimal", "public", "extended"}

\* What is chosen and what is waited for; a card is of a kind; the tasks come with
\* the first event.
SessionTypes ==
  /\ pc \in {"start", "connected", "refused"}
  /\ Len(wire) = (IF pc = "connected" THEN 1 ELSE 0)
  /\ resolving \subseteq Caller /\ asking \subseteq Caller /\ resolving \intersect asking = {}
  /\ got \subseteq Kinds /\ (card # None => card.kind \in Kinds)
  /\ asked \in 0..MaxAsked
  /\ count \in 0..MaxEvents /\ (stored = None) = (count = 0)

\* A card is of a kind, and so is what the server has for the client.
LEMMA CardKinds ==
  ASSUME home \in AgentCard, home.kind = "public"
  PROVE  Served.kind \in Kinds
<1>1. TripCard(home).kind = "public"
  BY DEF TripCard, ToCard, FromCard, AgentCard
<1>2. [home EXCEPT !.kind = "extended"].kind = "extended"
  BY DEF AgentCard
<1>3. QED
  BY <1>1, <1>2 DEF Served, Kinds

\* The types of the start.
LEMMA SessionInitTypes == SessionInit => SessionTypes
<1> SUFFICES ASSUME SessionInit PROVE SessionTypes
  OBVIOUS
<1>1. PICK s \in Sessions : job = s.job /\ home = s.home /\ card = s.card /\ config = s.config
  BY DEF SessionInit
<1>2. card # None => card.kind \in Kinds
  BY <1>1, SessionAssumption DEF Kinds
<1>3. MaxEvents \in Nat /\ MaxAsked \in Nat
  BY SessionAssumption
<1>4. wire = <<>> /\ Len(<<>>) = 0
  BY DEF SessionInit
<1>5. QED
  BY <1>2, <1>3, <1>4 DEF SessionInit, SessionTypes

\* Every step keeps the types.
LEMMA SessionStepTypes ==
  ASSUME CardInv, ViewInv, SessionTypes, [SessionNext]_sessionVars
  PROVE  SessionTypes'
<1> USE DEF SessionTypes
<1>1. CASE Create
  <2>1. pc = "start" /\ UNCHANGED <<card, resolving, asking, got, asked, stored, count>>
    BY <1>1 DEF Create, taskVars
  <2>2. wire' = <<>> \/ \E w : wire' = <<w>>
    BY <1>1 DEF Create, Negotiated
  <2>3. pc' = IF wire' = <<>> THEN "refused" ELSE "connected"
    BY <1>1 DEF Create
  <2>4. Len(<<>>) = 0 /\ \A w : Len(<<w>>) = 1 /\ <<w>> # <<>>
    OBVIOUS
  <2>5. Len(wire') = (IF pc' = "connected" THEN 1 ELSE 0)
    BY <2>2, <2>3, <2>4
  <2>6. QED
    BY <2>1, <2>3, <2>5
<1>2. ASSUME NEW p \in Caller, GetCard(p) PROVE SessionTypes'
  <2>1. p \notin Waiting /\ asked < MaxAsked /\ asked' = asked + 1
        /\ UNCHANGED <<card, wire, pc, stored, count>>
    BY <1>2 DEF GetCard, taskVars
  <2>2. \/ resolving' = resolving \union {p} /\ UNCHANGED <<asking, got>>
        \/ asking' = asking \union {p} /\ UNCHANGED <<resolving, got>>
        \/ card # None /\ got' = got \union {card.kind} /\ UNCHANGED <<resolving, asking>>
    BY <1>2 DEF GetCard, ReturnOrAsk
  <2>3. asked' \in 0..MaxAsked
    BY <2>1, SessionAssumption
  <2>4. QED
    BY <2>1, <2>2, <2>3 DEF Waiting
<1>3. ASSUME NEW p \in Caller, Resolved(p) PROVE SessionTypes'
  <2>1. /\ p \in resolving /\ resolving' = resolving \ {p} /\ card' = home
        /\ UNCHANGED <<wire, pc, asked, stored, count>>
    BY <1>3 DEF Resolved, taskVars
  <2>2. \/ asking' = asking \union {p} /\ UNCHANGED got
        \/ got' = got \union {"public"} /\ UNCHANGED asking
    BY <1>3 DEF Resolved, ReturnOrAsk, CardInv
  <2>3. home.kind \in Kinds /\ "public" \in Kinds
    BY DEF CardInv, Kinds
  <2>4. QED
    BY <2>1, <2>2, <2>3
<1>4. ASSUME NEW p \in Caller, CardComes(p) PROVE SessionTypes'
  <2>1. /\ asking' = asking \ {p} /\ card' = Served /\ got' = got \union {Served.kind}
        /\ UNCHANGED <<wire, pc, resolving, asked, stored, count>>
    BY <1>4 DEF CardComes, taskVars
  <2>2. Served.kind \in Kinds
    BY CardKinds DEF CardInv
  <2>3. QED
    BY <2>1, <2>2
<1>5. ASSUME NEW p \in Caller, CardFails(p) PROVE SessionTypes'
  <2>1. /\ resolving' = resolving \ {p} /\ asking' = asking \ {p}
        /\ UNCHANGED <<card, wire, pc, got, asked, stored, count>>
    BY <1>5 DEF CardFails, taskVars
  <2>2. QED
    BY <2>1
<1>6. ASSUME NEW e \in Events, Publish(e) PROVE SessionTypes'
  <2>1. /\ count < MaxEvents /\ count' = count + 1
        /\ UNCHANGED <<wire, pc, card, resolving, asking, got, asked>>
        /\ stored' = StoreTakes(e)
    BY <1>6 DEF Publish, cardVars
  <2>2. stored' # None
    BY <2>1, TakenType, NoneAssumption DEF ViewInv
  <2>3. count' \in 0..MaxEvents /\ count' # 0
    BY <2>1, SessionAssumption
  <2>4. QED
    BY <2>1, <2>2, <2>3
<1>7. CASE UNCHANGED sessionVars
  BY <1>7 DEF sessionVars, cardVars, taskVars
<1>8. QED
  BY <1>1, <1>2, <1>3, <1>4, <1>5, <1>6, <1>7 DEF SessionNext

\* For any agent, any number of callers and events: a client that connects has one
\* transport, a caller of get_card waits for one card at a time, and the copies of
\* the task on both sides appear with the first event.
THEOREM SessionTyped == SessionSpec => []SessionTypeOK
<1>1. CardInv /\ ViewInv /\ SessionTypes => SessionTypeOK
  BY DEF CardInv, ViewInv, SessionTypes, SessionTypeOK, Kinds
<1>2. SessionSpec => []CardInv
  BY CardInitInv, CardStepInv, PTL DEF SessionSpec
<1>3. SessionSpec => []SessionTypes
  BY <1>2, ViewAlways, SessionInitTypes, SessionStepTypes, PTL DEF SessionSpec
<1>4. QED
  BY <1>1, <1>2, <1>3, ViewAlways, PTL
=============================================================================
