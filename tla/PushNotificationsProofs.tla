---------------------- MODULE PushNotificationsProofs ----------------------
(***************************************************************************)
(* What both stores of configurations promise, and what a subscriber can   *)
(* rely on, for any configurations, callers and numbers of events.         *)
(***************************************************************************)
EXTENDS PushNotifications, TLAPS

-----------------------------------------------------------------------------
(* Sequences without one of their elements.                                *)

\* A sequence over a set has its elements in it.
LEMMA Elements ==
  ASSUME NEW S, NEW s \in Seq(S), NEW k \in DOMAIN s
  PROVE  s[k] \in S
OBVIOUS

\* The elements of the second of two sequences, behind the first.
LEMMA ElementsBehind ==
  ASSUME NEW S, NEW s \in Seq(S), NEW t \in Seq(S), NEW i \in 1..Len(t)
  PROVE  (s \o t)[Len(s) + i] = t[i]
OBVIOUS

\* RemoveAt by its elements.
LEMMA RemoveAtElements ==
  ASSUME NEW S, NEW s \in Seq(S), NEW k \in DOMAIN s
  PROVE  /\ RemoveAt(s, k) \in Seq(S) /\ Len(RemoveAt(s, k)) = Len(s) - 1
         /\ \A j \in 1..(Len(s) - 1) : RemoveAt(s, k)[j] = IF j < k THEN s[j] ELSE s[j + 1]
<1> DEFINE front == SubSeq(s, 1, k - 1)
           back == SubSeq(s, k + 1, Len(s))
<1>1. k \in 1..Len(s) /\ Len(s) \in Nat
  OBVIOUS
<1>2. front \in Seq(S) /\ Len(front) = k - 1 /\ \A j \in 1..(k - 1) : front[j] = s[j]
  BY <1>1
<1>3. /\ back \in Seq(S) /\ Len(back) = Len(s) - k
      /\ \A j \in 1..(Len(s) - k) : back[j] = s[k + j]
  BY <1>1
<1>4. RemoveAt(s, k) = front \o back
  BY DEF RemoveAt
<1> HIDE DEF front, back
<1>5. RemoveAt(s, k) \in Seq(S) /\ Len(RemoveAt(s, k)) = Len(s) - 1
  BY <1>1, <1>2, <1>3, <1>4
<1>6. ASSUME NEW j \in 1..(Len(s) - 1)
      PROVE  RemoveAt(s, k)[j] = IF j < k THEN s[j] ELSE s[j + 1]
  <2>1. CASE j < k
    BY <1>1, <1>2, <1>3, <1>4, <2>1
  <2>2. CASE ~(j < k)
    <3>1. RemoveAt(s, k)[j] = back[j - (k - 1)]
      <4>1. j - (k - 1) \in 1..Len(back) /\ Len(front) + (j - (k - 1)) = j
        <5>1. Len(front) = k - 1 /\ Len(back) = Len(s) - k
          BY <1>2, <1>3
        <5>2. j - (k - 1) \in 1..(Len(s) - k) /\ (k - 1) + (j - (k - 1)) = j
          BY <1>1, <2>2
        <5>3. QED
          BY <5>1, <5>2
      <4>2. (front \o back)[Len(front) + (j - (k - 1))] = back[j - (k - 1)]
        <5> DEFINE i == j - (k - 1)
        <5>1. front \in Seq(S) /\ back \in Seq(S) /\ i \in 1..Len(back)
          BY <1>2, <1>3, <4>1
        <5> HIDE DEF i
        <5>2. (front \o back)[Len(front) + i] = back[i]
          BY <5>1, ElementsBehind
        <5>3. QED
          BY <5>2 DEF i
      <4>3. QED
        BY <1>4, <4>1, <4>2
    <3>2. j - (k - 1) \in 1..(Len(s) - k) /\ k + (j - (k - 1)) = j + 1
      BY <1>1, <2>2
    <3>3. QED
      BY <1>3, <2>2, <3>1, <3>2
  <2>3. QED
    BY <2>1, <2>2
<1>7. QED
  BY <1>5, <1>6

OneConfigEach == \A k, l \in DOMAIN kept : kept[k].id = kept[l].id => k = l

\* With one configuration for each id, the list without an id has the others.
LEMMA WithoutIt ==
  ASSUME kept \in Seq(Config), OneConfigEach, NEW i
  PROVE  /\ Without(i) \in Seq(Config)
         /\ Range(Without(i)) = {c \in Range(kept) : c.id # i}
         /\ \A k, l \in DOMAIN Without(i) : Without(i)[k].id = Without(i)[l].id => k = l
<1>1. CASE \A k \in DOMAIN kept : kept[k].id # i
  <2>1. Without(i) = kept
    BY <1>1 DEF Without, RemoveFirstMatch
  <2>2. QED
    BY <1>1, <2>1 DEF OneConfigEach, Range
<1>2. CASE \E k \in DOMAIN kept : kept[k].id = i
  <2>1. PICK k \in DOMAIN kept : kept[k].id = i
    BY <1>2
  <2>2. Without(i) = RemoveAt(kept, k)
    <3>1. {l \in 1..Len(kept) : kept[l].id = i} = {k}
      BY <2>1 DEF OneConfigEach
    <3>2. SelectInSeq(kept, LAMBDA c : c.id = i) = k
      <4>1. k \in 1..Len(kept)
        BY <2>1
      <4>2. QED
        BY <3>1, <4>1 DEF SelectInSeq, Min
    <3>3. QED
      BY <2>1, <3>2 DEF Without, RemoveFirstMatch
  <2>3. /\ Without(i) \in Seq(Config) /\ Len(Without(i)) = Len(kept) - 1
        /\ \A j \in 1..(Len(kept) - 1) : Without(i)[j] = IF j < k THEN kept[j] ELSE kept[j + 1]
    BY <2>1, <2>2, RemoveAtElements
  <2>4. \A j, l \in 1..(Len(kept) - 1) : Without(i)[j].id = Without(i)[l].id => j = l
    <3> DEFINE was(j) == IF j < k THEN j ELSE j + 1
    <3>1. Len(kept) \in Nat /\ DOMAIN kept = 1..Len(kept) /\ k \in 1..Len(kept)
      BY <2>1
    <3>2. \A j \in 1..(Len(kept) - 1) : was(j) \in DOMAIN kept /\ Without(i)[j] = kept[was(j)]
      BY <2>3, <3>1
    <3>3. \A j, l \in 1..(Len(kept) - 1) : was(j) = was(l) => j = l
      BY <3>1
    <3> HIDE DEF was
    <3>4. QED
      BY <3>2, <3>3 DEF OneConfigEach
  <2>5. Range(Without(i)) = {c \in Range(kept) : c.id # i}
    <3>1. ASSUME NEW c \in Range(Without(i)) PROVE c \in Range(kept) /\ c.id # i
      <4>1. PICK j \in 1..(Len(kept) - 1) : c = Without(i)[j]
        BY <2>3 DEF Range
      <4>2. PICK l \in DOMAIN kept : l # k /\ c = kept[l]
        BY <2>1, <2>3, <4>1
      <4>3. QED
        BY <2>1, <4>2 DEF Range, OneConfigEach
    <3>2. ASSUME NEW c \in Range(kept), c.id # i PROVE c \in Range(Without(i))
      <4>1. PICK l \in DOMAIN kept : c = kept[l]
        BY DEF Range
      <4>2. l # k
        BY <2>1, <3>2, <4>1
      <4>3. PICK j \in 1..(Len(kept) - 1) : Without(i)[j] = kept[l]
        <5>1. CASE l < k
          BY <2>1, <2>3, <4>1, <5>1
        <5>2. CASE l > k
          <6>1. l - 1 \in 1..(Len(kept) - 1) /\ ~(l - 1 < k) /\ (l - 1) + 1 = l
            BY <2>1, <4>1, <5>2
          <6>2. QED
            BY <2>3, <6>1
        <5>3. QED
          BY <2>1, <4>1, <4>2, <5>1, <5>2
      <4>4. QED
        BY <2>3, <4>1, <4>3 DEF Range
    <3>3. QED
      BY <3>1, <3>2
  <2>6. QED
    BY <2>3, <2>4, <2>5
<1>3. QED
  BY <1>1, <1>2

-----------------------------------------------------------------------------
(* The configurations.                                                     *)

CallerShape ==
  /\ asked \in [Caller -> {<<>>} \union {<<call>> : call \in Abstract!Calls}]
  /\ seen \in [Caller -> {<<>>, <<TRUE>>, <<FALSE>>}]
  /\ told \in [Caller -> [ok : BOOLEAN, got : {<<>>} \union {<<c>> : c \in Config}]]

KeptInv == kept \in Seq(Config) /\ OneConfigEach

StoreInv == store \in {"memory", "database"} /\ CallerShape /\ KeptInv

\* What a client may ask a store to do.
LEMMA CallShapes ==
  ASSUME CallerShape, NEW p \in Caller, asked[p] # <<>>
  PROVE  /\ asked[p] = <<asked[p][1]>> /\ asked[p][1] \in Abstract!Calls
         /\ asked[p][1].op = "set" => asked[p][1].cfg \in Config
         /\ asked[p][1].op = "delete" => asked[p][1].id \in IdsOf(Config)
BY DEF CallerShape, Abstract!Calls, Abstract!Ids, IdsOf

\* What an answer leaves of the shape of the callers' variables.
LEMMA AnswerShape ==
  ASSUME CallerShape, NEW p \in Caller, NEW ok \in BOOLEAN,
         NEW got \in {<<>>} \union {<<c>> : c \in Config}, Unasked(p, ok, got)
  PROVE  CallerShape' /\ UNCHANGED store
BY DEF CallerShape, Unasked

\* Setting a configuration replaces the one with its id.
LEMMA SetKeeps ==
  ASSUME StoreInv, NEW p \in Caller, SetInMemory(p) \/ SetWrites(p) \/ SetReads(p)
  PROVE  /\ KeptInv'
         /\ \/ /\ UNCHANGED <<kept, asked, told>>
               /\ CallerShape'
            \/ Unasked(p, FALSE, <<>>) /\ UNCHANGED kept
            \/ /\ Unasked(p, TRUE, <<>>)
               /\ Range(kept') = {c \in Range(kept) : c.id # asked[p][1].cfg.id}
                                   \union {asked[p][1].cfg}
<1> DEFINE cfg == asked[p][1].cfg
           others == {c \in Range(kept) : c.id # cfg.id}
<1>1. cfg \in Config /\ Asks(p, "set") /\ kept \in Seq(Config)
  BY CallShapes DEF StoreInv, KeptInv, SetInMemory, SetWrites, SetReads, Asks
<1> HIDE DEF cfg
<1>2. ASSUME NEW s \in Seq(Config), Range(s) = others, kept' = Append(s, cfg),
             \A k, l \in DOMAIN s : s[k].id = s[l].id => k = l
      PROVE  KeptInv' /\ Range(kept') = others \union {cfg}
  <2>1. /\ kept' \in Seq(Config) /\ Len(kept') = Len(s) + 1 /\ kept'[Len(s) + 1] = cfg
        /\ \A k \in DOMAIN s : kept'[k] = s[k] /\ s[k] \in others
    BY <1>1, <1>2 DEF Range
  <2>2. DOMAIN kept' = DOMAIN s \union {Len(s) + 1}
    BY <2>1, <1>2
  <2>3. Range(kept') = others \union {cfg}
    BY <1>2, <2>1, <2>2 DEF Range
  <2>4. OneConfigEach'
    BY <1>2, <2>1, <2>2 DEF OneConfigEach
  <2>5. QED
    BY <2>1, <2>3, <2>4 DEF KeptInv
<1>3. CASE SetInMemory(p)
  <2>1. kept' = Append(Without(cfg.id), cfg) /\ Unasked(p, TRUE, <<>>)
    BY <1>3 DEF SetInMemory, cfg
  <2>2. /\ Without(cfg.id) \in Seq(Config) /\ Range(Without(cfg.id)) = others
        /\ \A k, l \in DOMAIN Without(cfg.id) : Without(cfg.id)[k].id = Without(cfg.id)[l].id => k = l
    BY WithoutIt DEF StoreInv, KeptInv
  <2>3. QED
    BY <1>2, <2>1, <2>2 DEF cfg
<1>4. CASE SetReads(p)
  <2>1. KeptInv'
    BY <1>4 DEF SetReads, StoreInv, KeptInv, OneConfigEach
  <2>2. CASE cfg \in Range(kept)
    <3>1. Unasked(p, TRUE, <<>>) /\ UNCHANGED kept
      BY <1>4, <2>2 DEF SetReads, cfg
    <3>2. Range(kept) = others \union {cfg}
      BY <2>2 DEF StoreInv, KeptInv, OneConfigEach, Range
    <3>3. QED
      BY <2>1, <3>1, <3>2 DEF cfg
  <2>3. CASE cfg \notin Range(kept)
    <3>1. UNCHANGED <<kept, asked, told>> /\ seen' = [seen EXCEPT ![p] = <<cfg.id \in KeptIds>>]
      BY <1>4, <2>3 DEF SetReads, cfg
    <3>2. <<cfg.id \in KeptIds>> \in {<<TRUE>>, <<FALSE>>}
      <4>1. (cfg.id \in KeptIds) \in BOOLEAN
        OBVIOUS
      <4>2. QED
        BY <4>1
    <3>3. CallerShape'
      BY <3>1, <3>2 DEF StoreInv, CallerShape
    <3>4. QED
      BY <2>1, <3>1, <3>3
  <2>4. QED
    BY <2>2, <2>3
<1>5. CASE SetWrites(p)
  <2>1. CASE Unasked(p, FALSE, <<>>) /\ UNCHANGED kept
    BY <2>1 DEF StoreInv, KeptInv, OneConfigEach
  <2>2. CASE /\ cfg.id \in KeptIds /\ Unasked(p, TRUE, <<>>)
             /\ kept' = [k \in DOMAIN kept |-> IF kept[k].id = cfg.id THEN cfg ELSE kept[k]]
    <3>1. PICK i \in DOMAIN kept : kept[i].id = cfg.id
      BY <2>2 DEF KeptIds, IdsOf, Range
    <3>2. kept' \in Seq(Config) /\ DOMAIN kept' = DOMAIN kept
      BY <1>1, <2>2
    <3>3. \A k \in DOMAIN kept : kept'[k] = IF kept[k].id = cfg.id THEN cfg ELSE kept[k]
      BY <2>2
    <3>4. KeptInv'
      BY <3>2, <3>3 DEF StoreInv, KeptInv, OneConfigEach
    <3>5. Range(kept') = others \union {cfg}
      <4>1. \A c \in Range(kept') : c \in others \union {cfg}
        BY <3>2, <3>3 DEF Range
      <4>2. \A c \in others : c \in Range(kept')
        BY <3>2, <3>3 DEF Range
      <4>3. cfg \in Range(kept')
        BY <3>1, <3>2, <3>3 DEF Range
      <4>4. QED
        BY <4>1, <4>2, <4>3
    <3>6. QED
      BY <2>2, <3>4, <3>5 DEF cfg
  <2>3. CASE cfg.id \notin KeptIds /\ Unasked(p, TRUE, <<>>) /\ kept' = Append(kept, cfg)
    <3>1. Range(kept) = others
      BY <2>3 DEF KeptIds, IdsOf
    <3>2. QED
      BY <1>1, <1>2, <2>3, <3>1 DEF StoreInv, KeptInv, OneConfigEach, cfg
  <2>4. QED
    BY <1>5, <2>1, <2>2, <2>3 DEF SetWrites, cfg
<1>6. QED
  BY <1>3, <1>4, <1>5

\* Either store's steps keep the invariant of the stores.
LEMMA StoreSteps ==
  ASSUME StoreInv, NEW p \in Caller, Ask(p) \/ ConfigStep(p)
  PROVE  StoreInv'
<1>1. <<>> \in {<<>>} \union {<<c>> : c \in Config}
  OBVIOUS
<1>2. ASSUME NEW ok \in BOOLEAN, NEW got \in {<<>>} \union {<<c>> : c \in Config},
             Unasked(p, ok, got)
      PROVE  CallerShape' /\ UNCHANGED store
  BY <1>2, AnswerShape DEF StoreInv
<1>3. CASE Ask(p)
  <2>1. PICK call \in Abstract!Calls : asked' = [asked EXCEPT ![p] = <<call>>]
    BY <1>3 DEF Ask, Abstract!Calls, Abstract!Ids, IdsOf, Config
  <2>2. CallerShape'
    BY <1>3, <2>1 DEF Ask, StoreInv, CallerShape, NoAnswer
  <2>3. QED
    BY <1>3, <2>2 DEF Ask, StoreInv, KeptInv, OneConfigEach
<1>4. CASE SetInMemory(p) \/ SetReads(p) \/ SetWrites(p)
  <2>1. KeptInv'
    BY <1>4, SetKeeps
  <2>2. CallerShape'
    BY <1>1, <1>2, <1>4, SetKeeps
  <2>3. UNCHANGED store
    BY <1>4 DEF SetInMemory, SetReads, SetWrites, Unasked
  <2>4. QED
    BY <2>1, <2>2, <2>3 DEF StoreInv
<1>5. CASE Deletes(p)
  <2>1. Unasked(p, TRUE, <<>>) /\ kept' = Without(asked[p][1].id)
    BY <1>5 DEF Deletes
  <2>2. KeptInv'
    BY <2>1, WithoutIt DEF StoreInv, KeptInv, OneConfigEach
  <2>3. QED
    BY <1>1, <1>2, <2>1, <2>2 DEF StoreInv
<1>6. CASE Gets(p)
  <2>1. UNCHANGED kept /\ (Unasked(p, FALSE, <<>>) \/ \E k \in DOMAIN kept : Unasked(p, TRUE, <<kept[k]>>))
    BY <1>6 DEF Gets
  <2>2. \A k \in DOMAIN kept : <<kept[k]>> \in {<<>>} \union {<<c>> : c \in Config}
    BY DEF StoreInv, KeptInv
  <2>3. CallerShape' /\ UNCHANGED store
    BY <1>1, <1>2, <2>1, <2>2
  <2>4. QED
    BY <2>1, <2>3 DEF StoreInv, KeptInv, OneConfigEach
<1>7. QED
  BY <1>3, <1>4, <1>5, <1>6 DEF ConfigStep

\* The reader and the notifications leave the configurations alone.
LEMMA StoreRests ==
  ASSUME StoreInv,
         ReaderStep \/ (\E p \in Pusher : PassStep(p)) \/ UNCHANGED pushVars
  PROVE  UNCHANGED <<store, mode, kept, asked, told, seen>> /\ StoreInv'
<1>1. UNCHANGED <<store, mode, kept, asked, told, seen>>
  BY DEF ReaderStep, Publish, Take, Save, TakeMessage, Stop, Cleanup, Disconnect, AgentRaises,
         CleanupFails, PassStep, Fetch, FetchFails, Dispatch, Arrives, Lost, Over, pushVars, configVars
<1>2. QED
  BY <1>1 DEF StoreInv, CallerShape, KeptInv, OneConfigEach

\* The stores hold what came with the message at first.
LEMMA StoreInit == PushInit => StoreInv
<1> SUFFICES ASSUME PushInit PROVE StoreInv
  OBVIOUS
<1>1. KeptInv
  <2>1. kept = <<>> \/ \E c \in Config : kept = <<c>>
    BY DEF PushInit
  <2>2. CASE kept = <<>>
    BY <2>2 DEF KeptInv, OneConfigEach
  <2>3. ASSUME NEW c \in Config, kept = <<c>> PROVE KeptInv
    <3>1. <<c>> \in Seq(Config) /\ DOMAIN <<c>> = {1}
      OBVIOUS
    <3>2. QED
      BY <2>3, <3>1 DEF KeptInv, OneConfigEach
  <2>4. QED
    BY <2>1, <2>2, <2>3
<1>2. CallerShape
  BY DEF PushInit, CallerShape, NoAnswer
<1>3. QED
  BY <1>1, <1>2, PushAssumption DEF StoreInv, PushInit

\* Every step of a store is one of ConfigStore, or none.
LEMMA StoreRefines ==
  StoreInv /\ [PushNext]_pushVars => [Abstract!Next]_(Abstract!storeVars)
<1> SUFFICES ASSUME StoreInv, [PushNext]_pushVars
             PROVE  [Abstract!Next]_(Abstract!storeVars)
  OBVIOUS
<1>1. ASSUME UNCHANGED <<kept, asked, told>> PROVE UNCHANGED Abstract!storeVars
  BY <1>1 DEF Abstract!storeVars
<1>2. ASSUME NEW p \in Caller, Ask(p) PROVE Abstract!Next
  <2>1. PICK call \in Abstract!Calls : asked' = [asked EXCEPT ![p] = <<call>>]
    BY <1>2 DEF Ask, Abstract!Calls, Abstract!Ids, IdsOf, Config
  <2>2. Abstract!Ask(p)
    BY <1>2, <2>1 DEF Ask, Abstract!Ask, Abstract!Answer, NoAnswer
  <2>3. QED
    BY <2>2 DEF Abstract!Next
<1>3. ASSUME NEW p \in Caller, ConfigStep(p) PROVE [Abstract!Next]_(Abstract!storeVars)
  <2>1. ASSUME NEW ok, NEW got, Unasked(p, ok, got) PROVE Abstract!Tell(p, ok, got)
    BY <2>1 DEF Unasked, Abstract!Tell, Abstract!Answer
  <2>2. ASSUME Unasked(p, FALSE, <<>>), UNCHANGED kept PROVE Abstract!Next
    BY <2>1, <2>2 DEF Abstract!Fail, Abstract!Next
  <2>3. CASE SetInMemory(p) \/ SetReads(p) \/ SetWrites(p)
    <3>1. CASE /\ Unasked(p, TRUE, <<>>)
               /\ Range(kept') = {c \in Range(kept) : c.id # asked[p][1].cfg.id}
                                   \union {asked[p][1].cfg}
      <4>1. Abstract!Set(p)
        BY <2>1, <2>3, <3>1
           DEF SetInMemory, SetReads, SetWrites, Asks, Abstract!Set, Abstract!Without
      <4>2. QED
        BY <4>1 DEF Abstract!Next
    <3>2. QED
      BY <1>1, <2>2, <2>3, <3>1, SetKeeps
  <2>4. CASE Deletes(p)
    <3>1. Range(kept') = {c \in Range(kept) : c.id # asked[p][1].id}
      BY <2>4, WithoutIt DEF Deletes, StoreInv, KeptInv
    <3>2. Abstract!Delete(p)
      BY <2>1, <2>4, <3>1 DEF Deletes, Asks, Abstract!Delete, Abstract!Without
    <3>3. QED
      BY <3>2 DEF Abstract!Next
  <2>5. CASE Gets(p)
    <3>1. CASE Unasked(p, FALSE, <<>>)
      BY <2>2, <2>5, <3>1 DEF Gets
    <3>2. CASE \E k \in DOMAIN kept : Unasked(p, TRUE, <<kept[k]>>)
      <4>1. Abstract!Get(p)
        BY <2>1, <2>5, <3>2 DEF Gets, Asks, Abstract!Get, Range
      <4>2. QED
        BY <4>1 DEF Abstract!Next
    <3>3. QED
      BY <2>5, <3>1, <3>2 DEF Gets
  <2>6. QED
    BY <1>3, <2>3, <2>4, <2>5 DEF ConfigStep
<1>4. QED
  BY <1>1, <1>2, <1>3, StoreRests DEF PushNext

\* Both stores of configurations, the list in memory and the rows that are read
\* in one statement and written in another, answer every call as if it had
\* happened at one moment, whatever calls of other clients come between.
THEOREM StoresAreConfigStores == PushSpec => IsConfigStore
<1>1. PushInit => Abstract!Init
  <2> SUFFICES ASSUME PushInit PROVE Abstract!Init
    OBVIOUS
  <2>1. Range(kept) \in SUBSET Config /\ \A c, d \in Range(kept) : c.id = d.id => c = d
    BY StoreInit DEF StoreInv, KeptInv, OneConfigEach, Range
  <2>2. QED
    BY <2>1 DEF PushInit, Abstract!Init, Abstract!Answer, NoAnswer
<1>2. StoreInv /\ [PushNext]_pushVars => StoreInv'
  BY StoreSteps, StoreRests DEF PushNext
<1>3. QED
  BY <1>1, <1>2, StoreInit, StoreRefines, PTL DEF PushSpec, IsConfigStore, Abstract!Spec

-----------------------------------------------------------------------------
(* The notifications: the inductive invariant.                             *)

NotifyShape ==
  /\ store \in {"memory", "database"} /\ mode \in {"send", "stream"}
  /\ published \in 0..MaxEvents /\ ended \in BOOLEAN
  /\ applied \in 0..published /\ saved \in 0..applied
  /\ by \in {"main", "rest", "quiet"} /\ at \in {"reading", "saving", "pushing", "cleanup", "done"}
  /\ pass \in [Pusher -> Passes]
  /\ arrived \in [Ids -> Seq(1..applied)] /\ lost \subseteq Ids

\* A round has one post for an id, about an event from the one it began with on.
PostsFit ==
  \A p \in Pusher :
    /\ \A a, b \in pass[p].posts : a.cfg.id = b.cfg.id => a = b
    /\ pass[p].phase # "off" => pass[p].base \in 1..applied
    /\ pass[p].phase = "posting" => \A a \in pass[p].posts : a.tells \in 1..applied
    /\ pass[p].phase \in {"off", "fetching"} => pass[p].posts = {}

\* Who reads the queue, and from where on somebody else notifies.
ReaderFits ==
  /\ by # "rest" => pass["rest"] = NoPass
  /\ by = "rest" => mode = "send"
  /\ by = "quiet" => mode = "stream" /\ pass["main"] = NoPass
  /\ by = "main" /\ mode = "send" =>
       /\ at # "pushing"
       /\ at # "done" => pass["main"] = NoPass /\ \A i \in Ids : arrived[i] = <<>>
  /\ at = "cleanup" => by = "main" /\ mode = "send" /\ applied > 0

\* The reader waits for its round, so that the round is about the last event.
RoundIsCurrent ==
  (by # "quiet" /\ pass[by].phase # "off") =>
    /\ at \in {"pushing", "done"} /\ pass[by].base = applied
    /\ pass[by].phase = "posting" => \A a \in pass[by].posts : a.tells = applied

\* What is applied is stored, unless the reader is about to store it.
SavedFits ==
  /\ store = "memory" => saved = applied /\ at # "saving"
  /\ by # "quiet" /\ at # "saving" => saved = applied
  /\ at = "saving" => applied > 0 /\ (by # "quiet" => saved = applied - 1)
  /\ by # "rest" => \A i \in Ids : \A k \in DOMAIN arrived[i] : arrived[i][k] <= saved

\* The round may still notify the subscriber with that id.
Pending(p, i) ==
  \/ pass[p].phase \in {"fetching", "starting"}
  \/ \E a \in pass[p].posts : a.cfg.id = i

\* The last event the reader can have told that subscriber of.
Upto(i) ==
  IF at = "saving" \/ (by # "quiet" /\ Pending(by, i)) THEN applied - 1 ELSE applied

InOrderTo(s, n) == Increasing(s) /\ \A k \in DOMAIN s : s[k] <= n

OrderFits ==
  \A i \in Ids :
    \/ InOrderTo(arrived[i], Upto(i))
    \/ /\ by = "rest" /\ ~Pending("main", i)
       /\ \E k \in DOMAIN arrived[i] : InOrderTo(RemoveAt(arrived[i], k), Upto(i))

NotifyInv ==
  /\ NotifyShape /\ PostsFit /\ ReaderFits /\ RoundIsCurrent /\ SavedFits /\ OrderFits

-----------------------------------------------------------------------------
(* The notifications: facts about rounds and sequences.                    *)

\* What is assumed of the bounds and of the modes.
LEMMA PushBounds ==
  /\ MaxEvents \in Nat \ {0}
  /\ Stores \subseteq {"memory", "database"} /\ Modes \subseteq {"send", "stream"}
BY Zenon, PushAssumption

\* Every configuration has an id.
LEMMA ConfigIds == \A c \in Config : c.id \in Ids
BY PushAssumption DEF Config, Named, Ids, TaskId

\* A sequence of numbers up to n is one of numbers up to any m above n.
LEMMA Upwards ==
  ASSUME NEW n \in Int, NEW m \in Int, n <= m, NEW s \in Seq(1..n)
  PROVE  s \in Seq(1..m)
OBVIOUS

\* Order up to n is order up to any m above n; nothing is in order.
LEMMA OrderUp ==
  ASSUME NEW n \in Int, NEW m \in Int, n <= m
  PROVE  /\ \A j \in Int : \A s \in Seq(1..j) : InOrderTo(s, n) => InOrderTo(s, m)
         /\ InOrderTo(<<>>, n)
BY DEF InOrderTo, Increasing

\* What comes last and is greatest keeps the order.
LEMMA OrderAppend ==
  ASSUME NEW j \in Nat, NEW s \in Seq(1..j), NEW n \in Int, NEW m \in Int, n < m, InOrderTo(s, n)
  PROVE  InOrderTo(Append(s, m), m)
<1>1. /\ Len(Append(s, m)) = Len(s) + 1 /\ Append(s, m)[Len(s) + 1] = m
      /\ \A k \in 1..Len(s) : Append(s, m)[k] = s[k] /\ s[k] \in Int
  OBVIOUS
<1>2. DOMAIN Append(s, m) = 1..(Len(s) + 1) /\ DOMAIN s = 1..Len(s) /\ Len(s) \in Nat
  OBVIOUS
<1>3. \A k \in 1..Len(s) : Append(s, m)[k] <= n
  BY <1>1, <1>2 DEF InOrderTo
<1>4. ASSUME NEW k \in 1..(Len(s) + 1), NEW l \in 1..(Len(s) + 1), k < l
      PROVE  Append(s, m)[k] < Append(s, m)[l]
  <2>1. k \in 1..Len(s)
    BY <1>2, <1>4
  <2>2. CASE l = Len(s) + 1
    BY <1>1, <1>3, <2>1, <2>2
  <2>3. CASE l \in 1..Len(s)
    BY <1>1, <1>2, <1>4, <2>1, <2>3 DEF InOrderTo, Increasing
  <2>4. QED
    BY <1>2, <2>2, <2>3
<1>5. m <= m /\ n <= m
  OBVIOUS
<1>6. \A k \in DOMAIN Append(s, m) : Append(s, m)[k] <= m
  <2>1. ASSUME NEW k \in 1..(Len(s) + 1) PROVE Append(s, m)[k] <= m
    <3>1. CASE k = Len(s) + 1
      BY <1>1, <1>5, <3>1
    <3>2. CASE k \in 1..Len(s)
      BY <1>1, <1>3, <3>2
    <3>3. QED
      BY <1>2, <3>1, <3>2
  <2>2. QED
    BY <1>2, <2>1
<1>7. Increasing(Append(s, m))
  BY <1>2, <1>4 DEF Increasing
<1>8. QED
  BY <1>6, <1>7 DEF InOrderTo

\* Without its last element a longer sequence is the shorter one; without
\* another it is what the shorter one was without it, and longer.
LEMMA RemoveAppend ==
  ASSUME NEW j \in Nat, NEW s \in Seq(1..j), NEW m \in 1..j
  PROVE  /\ RemoveAt(Append(s, m), Len(s) + 1) = s
         /\ \A k \in DOMAIN s : /\ k \in DOMAIN Append(s, m)
                                /\ RemoveAt(s, k) \in Seq(1..j)
                                /\ RemoveAt(Append(s, m), k) = Append(RemoveAt(s, k), m)
<1> DEFINE t == Append(s, m)
<1>1. /\ t \in Seq(1..j) /\ Len(t) = Len(s) + 1 /\ Len(s) \in Nat
      /\ \A k \in 1..Len(s) : t[k] = s[k]
      /\ t[Len(s) + 1] = m
  OBVIOUS
<1> HIDE DEF t
<1> DEFINE n == Len(s)
<1>2. ASSUME NEW k \in 1..(n + 1)
      PROVE  /\ RemoveAt(t, k) \in Seq(1..j) /\ Len(RemoveAt(t, k)) = n
             /\ \A i \in 1..n : RemoveAt(t, k)[i] = IF i < k THEN t[i] ELSE t[i + 1]
  <2>1. k \in DOMAIN t /\ Len(t) - 1 = n /\ t \in Seq(1..j)
    BY <1>1
  <2> HIDE DEF n
  <2>2. /\ RemoveAt(t, k) \in Seq(1..j) /\ Len(RemoveAt(t, k)) = Len(t) - 1
        /\ \A i \in 1..(Len(t) - 1) : RemoveAt(t, k)[i] = IF i < k THEN t[i] ELSE t[i + 1]
    BY <2>1, RemoveAtElements
  <2>3. QED
    BY <2>1, <2>2
<1>3. RemoveAt(t, n + 1) = s
  <2> DEFINE v == RemoveAt(t, n + 1)
  <2>1. v \in Seq(1..j) /\ Len(v) = n /\ \A i \in 1..n : v[i] = IF i < n + 1 THEN t[i] ELSE t[i + 1]
    <3>1. n + 1 \in 1..(n + 1)
      BY <1>1
    <3> HIDE DEF n
    <3>2. QED
      BY <1>2, <3>1
  <2> HIDE DEF v
  <2>2. \A i \in 1..n : v[i] = s[i]
    BY <1>1, <2>1
  <2>3. v = s
    <3>1. s \in Seq(1..j) /\ Len(s) = n
      OBVIOUS
    <3> HIDE DEF n
    <3>2. v = [i \in 1..n |-> v[i]]
      BY <2>1
    <3>3. s = [i \in 1..n |-> s[i]]
      BY <3>1
    <3>4. [i \in 1..n |-> v[i]] = [i \in 1..n |-> s[i]]
      BY <2>2
    <3>5. QED
      BY <3>2, <3>3, <3>4
  <2>4. QED
    BY <2>3 DEF v
<1>4. ASSUME NEW k \in DOMAIN s
      PROVE  /\ k \in DOMAIN t /\ RemoveAt(s, k) \in Seq(1..j)
             /\ RemoveAt(t, k) = Append(RemoveAt(s, k), m)
  <2> DEFINE u == RemoveAt(s, k)
             v == RemoveAt(t, k)
             w == Append(u, m)
  <2>1. k \in 1..n /\ k \in DOMAIN t /\ n \in Nat
    BY <1>1
  <2>2. u \in Seq(1..j) /\ Len(u) = n - 1 /\ \A i \in 1..(n - 1) : u[i] = IF i < k THEN s[i] ELSE s[i + 1]
    BY RemoveAtElements
  <2>3. v \in Seq(1..j) /\ Len(v) = n /\ \A i \in 1..n : v[i] = IF i < k THEN t[i] ELSE t[i + 1]
    <3>1. k \in 1..(n + 1)
      BY <2>1
    <3>2. QED
      BY <1>2, <3>1
  <2> HIDE DEF u, v, n
  <2>4. /\ w \in Seq(1..j) /\ Len(w) = n /\ w[n] = m
        /\ \A i \in 1..(n - 1) : w[i] = u[i]
    BY <2>1, <2>2
  <2> HIDE DEF w
  <2>5. \A i \in 1..n : t[i] = s[i]
    BY <1>1 DEF n
  <2>6. t[n + 1] = m
    BY <1>1 DEF n
  <2>7. ASSUME NEW i \in 1..n PROVE v[i] = w[i]
    <3>1. CASE i = n
      <4>1. v[n] = t[n + 1]
        BY <2>1, <2>3
      <4>2. QED
        BY <2>4, <2>6, <3>1, <4>1
    <3>2. CASE i # n
      <4>1. i \in 1..(n - 1) /\ i + 1 \in 1..n
        BY <2>1, <3>2
      <4>2. v[i] = IF i < k THEN s[i] ELSE s[i + 1]
        BY <2>3, <2>5, <4>1
      <4>3. QED
        BY <2>2, <2>4, <4>1, <4>2
    <3>3. QED
      BY <3>1, <3>2
  <2>8. v = w
    BY <2>1, <2>3, <2>4, <2>7
  <2>9. QED
    BY <2>1, <2>2, <2>8 DEF u, v, w
<1>5. QED
  BY <1>3, <1>4 DEF t

\* A round that begins.
LEMMA BeginsRound ==
  ASSUME pass \in [Pusher -> Passes], NEW p \in Pusher, NEW n \in 1..MaxEvents, Begins(p, n)
  PROVE  /\ pass' \in [Pusher -> Passes]
         /\ pass'[p].phase = "fetching" /\ pass'[p].base = n /\ pass'[p].posts = {}
         /\ \A q \in Pusher : q # p => pass'[q] = pass[q]
<1>1. [phase |-> "fetching", base |-> n, posts |-> {}] \in Passes
  BY DEF Passes
<1>2. QED
  BY <1>1 DEF Begins

-----------------------------------------------------------------------------
(* The notifications: the reader of the queue.                             *)

readingVars == <<store, mode, published, ended, applied, saved, by, at, pass, arrived, lost>>

\* The configurations do not matter to what was notified.
LEMMA NotifyFrame ==
  ASSUME NotifyInv, UNCHANGED readingVars
  PROVE  NotifyInv'
<1> USE DEF NotifyInv, readingVars
<1>1. NotifyShape' /\ PostsFit' /\ ReaderFits' /\ RoundIsCurrent' /\ SavedFits'
  BY DEF NotifyShape, PostsFit, ReaderFits, RoundIsCurrent, SavedFits
<1>2. OrderFits'
  BY DEF OrderFits, Upto, Pending
<1>3. QED
  BY <1>1, <1>2

\* Nobody was told anything at first.
LEMMA NotifyInit == PushInit => NotifyInv
<1> SUFFICES ASSUME PushInit PROVE NotifyInv
  OBVIOUS
<1> USE DEF PushInit, NotifyInv
<1>1. \A i \in Ids : arrived[i] = <<>>
  OBVIOUS
<1>2. NotifyShape
  <2>1. NoPass \in Passes
    <3>1. 0 \in 0..MaxEvents
      BY PushBounds
    <3>2. QED
      BY <3>1 DEF NoPass, Passes
  <2>2. store \in {"memory", "database"} /\ mode \in {"send", "stream"}
    BY PushBounds
  <2>3. arrived \in [Ids -> Seq(1..0)]
    OBVIOUS
  <2>4. pass \in [Pusher -> Passes]
    BY <2>1
  <2>5. published \in 0..MaxEvents /\ applied \in 0..published /\ saved \in 0..applied
    BY PushBounds
  <2>6. applied = 0
    OBVIOUS
  <2>7. QED
    BY <2>2, <2>3, <2>4, <2>5, <2>6 DEF NotifyShape
<1>3. PostsFit /\ ReaderFits /\ RoundIsCurrent /\ SavedFits
  BY <1>1 DEF PostsFit, ReaderFits, RoundIsCurrent, SavedFits, NoPass, Pusher
<1>4. OrderFits
  BY <1>1 DEF OrderFits, InOrderTo, Increasing
<1>5. QED
  BY <1>2, <1>3, <1>4

\* The agent may publish at any time.
LEMMA PublishInv ==
  ASSUME NotifyInv, Publish
  PROVE  NotifyInv'
<1> USE DEF NotifyInv
<1>1. /\ published' = published + 1 /\ published < MaxEvents /\ ended' \in BOOLEAN
      /\ UNCHANGED <<store, mode, applied, saved, by, at, pass, arrived, lost>>
  BY DEF Publish, postVars
<1>2. NotifyShape'
  <2>1. published \in Int /\ applied \in Int /\ 0 <= applied /\ applied <= published
    BY PushBounds DEF NotifyShape
  <2>2. published' \in 0..MaxEvents /\ applied' \in 0..published'
    BY <1>1, <2>1, PushBounds
  <2>3. QED
    BY <1>1, <2>2 DEF NotifyShape
<1>3. PostsFit' /\ ReaderFits' /\ RoundIsCurrent' /\ SavedFits'
  BY <1>1 DEF PostsFit, ReaderFits, RoundIsCurrent, SavedFits
<1>4. OrderFits'
  BY <1>1 DEF OrderFits, Upto, Pending
<1>5. QED
  BY <1>2, <1>3, <1>4

\* While the reader reads, stores or cleans up, no round of it is under way.
LEMMA ReaderIsFree ==
  ASSUME NotifyInv, at \in {"reading", "saving", "cleanup"}
  PROVE  /\ by # "quiet" => pass[by].phase = "off" /\ pass[by].posts = {}
         /\ by # "quiet" => \A i \in Ids : ~Pending(by, i)
         /\ by = "main" => \A p \in Pusher : pass[p].phase = "off"
         /\ \A i \in Ids : Upto(i) = IF at = "saving" THEN applied - 1 ELSE applied
<1>1. by # "quiet" => by \in Pusher /\ pass[by].phase = "off"
  BY DEF NotifyInv, NotifyShape, RoundIsCurrent, Pusher
<1>2. by # "quiet" => pass[by].posts = {}
  BY <1>1 DEF NotifyInv, PostsFit
<1>3. by # "quiet" => \A i \in Ids : ~Pending(by, i)
  BY <1>1, <1>2 DEF Pending
<1>4. by = "main" => \A p \in Pusher : pass[p].phase = "off"
  BY <1>1 DEF NotifyInv, ReaderFits, Pusher, NoPass
<1>5. QED
  BY <1>1, <1>2, <1>3, <1>4 DEF Upto

\* An event that was stored is followed by a round, or is not: what was notified
\* before is older than the event.
LEMMA FollowsInv ==
  ASSUME NotifyInv, Follows(applied'),
         \/ (at = "reading" /\ applied' = applied + 1 /\ applied < published)
         \/ (at = "saving" /\ applied' = applied),
         saved' = applied', applied' > 0,
         UNCHANGED <<store, mode, published, ended, arrived, lost>>
  PROVE  NotifyInv'
<1> USE DEF NotifyInv
<1>1. /\ applied \in Nat /\ applied' \in 1..published /\ applied <= applied'
      /\ published \in Nat /\ published <= MaxEvents /\ applied' \in 1..MaxEvents
  <2>1. MaxEvents \in Int /\ published \in 0..MaxEvents /\ applied \in 0..published
    BY PushBounds DEF NotifyShape
  <2>2. published \in Int /\ applied \in Int
    BY <2>1
  <2>3. applied' \in Int /\ applied <= applied' /\ applied' <= published
    BY <2>1, <2>2
  <2>4. QED
    BY <2>1, <2>2, <2>3
<1>2. /\ by # "quiet" => by \in Pusher /\ pass[by].phase = "off" /\ pass[by].posts = {}
      /\ by = "main" => \A p \in Pusher : pass[p].phase = "off"
      /\ \A i \in Ids : Upto(i) = applied' - 1
      /\ pass \in [Pusher -> Passes]
  BY <1>1, ReaderIsFree DEF NotifyShape, Pusher
<1>3. /\ arrived \in [Ids -> Seq(1..applied)] /\ arrived' = arrived
      /\ \A i \in Ids : arrived[i] \in Seq(1..applied')
  BY <1>1, Upwards DEF NotifyShape
<1>4. at' \in {"reading", "pushing", "cleanup", "done"} /\ by' \in {"main", "rest", "quiet"}
  BY DEF Follows, Rests, NotifyShape
<1>5. \A p \in Pusher : pass[p].phase # "off" => pass[p].base \in 1..applied'
  BY <1>1 DEF PostsFit
<1>6. SavedFits'
  <2>1. \A i \in Ids : \A k \in DOMAIN arrived[i] : arrived[i][k] <= applied'
    BY <1>1, <1>3
  <2>2. by = "quiet" <=> by' = "quiet"
    BY DEF Follows
  <2>3. store = "memory" => saved' = applied' /\ at' # "saving"
    BY <1>4
  <2>4. QED
    BY <1>3, <1>4, <2>1, <2>3 DEF SavedFits
<1>7. ASSUME NEW p \in Pusher, Begins(p, applied'), by' \in {p, "rest"}, at' \in {"reading", "pushing", "done"},
             pass[p].phase = "off" \/ by' = p
      PROVE  NotifyShape' /\ PostsFit'
  <2>1. /\ pass' \in [Pusher -> Passes]
        /\ pass'[p].phase = "fetching" /\ pass'[p].base = applied' /\ pass'[p].posts = {}
        /\ \A q \in Pusher : q # p => pass'[q] = pass[q]
    BY <1>1, <1>2, <1>7, BeginsRound
  <2>2. NotifyShape'
    BY <1>1, <1>3, <1>4, <2>1 DEF NotifyShape
  <2>3. PostsFit'
    BY <1>1, <1>5, <2>1 DEF PostsFit
  <2>4. QED
    BY <2>2, <2>3
<1>8. ASSUME UNCHANGED pass PROVE NotifyShape' /\ PostsFit'
  <2>1. NotifyShape'
    BY <1>1, <1>3, <1>4, <1>8 DEF NotifyShape
  <2>2. PostsFit'
    BY <1>1, <1>5, <1>8 DEF PostsFit
  <2>3. QED
    BY <2>1, <2>2
<1>9. CASE /\ by = IF mode = "stream" THEN "main" ELSE "rest"
           /\ at' = "pushing" /\ Begins(by, applied') /\ UNCHANGED by
  <2>1. /\ by \in Pusher
        /\ pass'[by].phase = "fetching" /\ pass'[by].base = applied' /\ pass'[by].posts = {}
        /\ \A q \in Pusher : q # by => pass'[q] = pass[q]
    BY <1>1, <1>2, <1>9, BeginsRound DEF Pusher
  <2>2. ReaderFits' /\ RoundIsCurrent'
    BY <1>9, <2>1 DEF ReaderFits, RoundIsCurrent, NotifyShape, Pusher
  <2>3. OrderFits'
    <3>1. \A i \in Ids : Upto(i)' = Upto(i)
      BY <1>2, <1>9, <2>1 DEF Upto, Pending
    <3>2. by = "rest" => \A i \in Ids : Pending("main", i)' <=> Pending("main", i)
      BY <2>1 DEF Pending, Pusher
    <3>3. QED
      BY <1>3, <1>9, <3>1, <3>2 DEF OrderFits
  <2>4. QED
    BY <1>6, <1>7, <1>9, <2>1, <2>2, <2>3
<1>10. CASE by = "main" /\ mode = "send" /\ at' \in {"reading", "cleanup"} /\ UNCHANGED <<by, pass>>
  <2>1. at # "done" /\ \A i \in Ids : arrived[i] = <<>>
    BY <1>10 DEF ReaderFits
  <2>2. ReaderFits' /\ RoundIsCurrent'
    BY <1>2, <1>3, <1>10, <2>1 DEF ReaderFits, RoundIsCurrent
  <2>3. OrderFits'
    BY <1>3, <2>1 DEF OrderFits, InOrderTo, Increasing
  <2>4. QED
    BY <1>6, <1>8, <1>10, <2>2, <2>3
<1>11. CASE /\ by = "main" /\ mode = "send" /\ Begins("main", applied')
            /\ by' = "rest" /\ at' = "reading"
  <2>1. /\ "main" \in Pusher /\ "rest" \in Pusher
        /\ pass'["main"].phase = "fetching" /\ pass'["main"].base = applied'
        /\ pass'["main"].posts = {} /\ pass'["rest"] = pass["rest"]
    BY <1>1, <1>2, <1>11, BeginsRound DEF Pusher
  <2>2. pass["rest"] = NoPass /\ pass["rest"].phase = "off" /\ \A i \in Ids : arrived[i] = <<>>
    BY <1>2, <1>11, <2>1 DEF ReaderFits
  <2>3. ReaderFits' /\ RoundIsCurrent'
    BY <1>11, <2>1, <2>2 DEF ReaderFits, RoundIsCurrent
  <2>4. OrderFits'
    BY <1>3, <2>2 DEF OrderFits, InOrderTo, Increasing
  <2>5. QED
    BY <1>2, <1>6, <1>7, <1>11, <2>1, <2>3, <2>4
<1>12. CASE by = "quiet" /\ Rests(applied') /\ UNCHANGED <<by, pass>>
  <2>1. ReaderFits' /\ RoundIsCurrent'
    <3>1. at' # "cleanup"
      BY <1>12 DEF Rests
    <3>2. QED
      BY <1>12, <3>1 DEF ReaderFits, RoundIsCurrent
  <2>2. \A i \in Ids : Upto(i) <= Upto(i)' /\ Upto(i) \in Int /\ Upto(i)' \in Int
    <3>1. \A i \in Ids : Upto(i)' \in {applied' - 1, applied'}
      BY DEF Upto
    <3>2. QED
      BY <1>1, <1>2, <3>1
  <2>3. OrderFits'
    <3>1. \A i \in Ids : InOrderTo(arrived[i], Upto(i))
      BY <1>12 DEF OrderFits
    <3>2. \A i \in Ids : InOrderTo(arrived[i], Upto(i)')
      BY <1>1, <1>3, <2>2, <3>1, OrderUp
    <3>3. QED
      BY <1>3, <3>2 DEF OrderFits
  <2>4. QED
    BY <1>6, <1>8, <1>12, <2>1, <2>3
<1>13. QED
  <2>1. CASE by = IF mode = "stream" THEN "main" ELSE "rest"
    BY <1>9, <1>10, <1>11, <1>12, <2>1 DEF Follows
  <2>2. CASE by = "main" /\ mode = "send"
    BY <1>10, <1>11, <2>2 DEF Follows
  <2>3. CASE by = "quiet"
    BY <1>12, <2>3 DEF Follows
  <2>4. QED
    BY <2>1, <2>2, <2>3 DEF Follows

\* The object takes an event in; a database is told of it in a second step.
LEMMA TakeInv ==
  ASSUME NotifyInv, Take \/ Save
  PROVE  NotifyInv'
<1> USE DEF NotifyInv
<1>1. /\ applied \in Nat /\ applied <= published /\ published \in Nat
      /\ saved \in Int /\ saved <= applied /\ 0 <= saved
  <2>1. MaxEvents \in Int /\ published \in 0..MaxEvents /\ applied \in 0..published /\ saved \in 0..applied
    BY PushBounds DEF NotifyShape
  <2>2. QED
    BY <2>1
<1>2. CASE Take /\ store = "memory"
  <2>1. /\ at = "reading" /\ applied < published /\ applied' = applied + 1 /\ saved' = applied + 1
        /\ Follows(applied') /\ UNCHANGED <<store, mode, published, ended, arrived, lost>>
    BY <1>2 DEF Take, Comes, agentVars
  <2>2. QED
    BY <1>1, <2>1, FollowsInv
<1>3. CASE Save
  <2>1. /\ at = "saving" /\ applied' = applied /\ saved' = applied
        /\ Follows(applied') /\ UNCHANGED <<store, mode, published, ended, arrived, lost>>
    BY <1>3 DEF Save, agentVars
  <2>2. applied > 0
    BY <2>1 DEF SavedFits
  <2>3. QED
    BY <1>1, <2>1, <2>2, FollowsInv
<1>4. CASE Take /\ store # "memory"
  <2>1. /\ at = "reading" /\ applied < published /\ applied' = applied + 1 /\ at' = "saving"
        /\ UNCHANGED <<store, mode, published, ended, saved, by, pass, arrived, lost>>
    BY <1>4 DEF Take, Comes, agentVars
  <2>2. /\ by # "quiet" => pass[by].phase = "off"
        /\ \A i \in Ids : Upto(i) = applied
    BY <2>1, ReaderIsFree
  <2>3. /\ arrived \in [Ids -> Seq(1..applied)]
        /\ \A i \in Ids : arrived[i] \in Seq(1..applied')
    BY <1>1, <2>1, Upwards DEF NotifyShape
  <2>4. NotifyShape'
    <3>1. applied' \in 0..published /\ saved \in 0..applied'
      BY <1>1, <2>1
    <3>2. QED
      BY <2>1, <2>3, <3>1 DEF NotifyShape
  <2>5. PostsFit' /\ ReaderFits' /\ RoundIsCurrent'
    <3>1. \A n \in 1..applied : n \in 1..applied'
      BY <1>1, <2>1
    <3>2. PostsFit'
      BY <2>1, <3>1 DEF PostsFit
    <3>3. ReaderFits' /\ RoundIsCurrent'
      BY <2>1, <2>2 DEF ReaderFits, RoundIsCurrent
    <3>4. QED
      BY <3>2, <3>3
  <2>6. SavedFits'
    BY <1>1, <1>4, <2>1 DEF SavedFits
  <2>7. OrderFits'
    <3>1. \A i \in Ids : Upto(i)' = Upto(i)
      BY <1>1, <2>1, <2>2 DEF Upto
    <3>2. \A i \in Ids : Pending("main", i)' <=> Pending("main", i)
      BY <2>1 DEF Pending
    <3>3. QED
      BY <2>1, <3>1, <3>2 DEF OrderFits
  <2>8. QED
    BY <2>4, <2>5, <2>6, <2>7
<1>5. QED
  BY <1>2, <1>3, <1>4

\* A reader that ends without a round, or goes to its cleanup, changes nothing.
LEMMA EndsInv ==
  ASSUME NotifyInv, at \in {"reading", "cleanup"}, at' \in {"cleanup", "done"},
         at' = "cleanup" => by = "main" /\ mode = "send" /\ applied > 0,
         UNCHANGED <<store, mode, published, ended, applied, saved, by, pass, arrived, lost>>
  PROVE  NotifyInv'
<1> USE DEF NotifyInv
<1>1. /\ by # "quiet" => pass[by].phase = "off" /\ \A i \in Ids : ~Pending(by, i)
      /\ \A i \in Ids : Upto(i) = applied
  BY ReaderIsFree
<1>2. SavedFits'
  BY DEF SavedFits
<1>3. NotifyShape' /\ PostsFit' /\ ReaderFits' /\ RoundIsCurrent'
  BY <1>1 DEF NotifyShape, PostsFit, ReaderFits, RoundIsCurrent
<1>4. \A i \in Ids : Upto(i)' = Upto(i) /\ (Pending("main", i)' <=> Pending("main", i))
  BY <1>1 DEF Upto, Pending
<1>5. OrderFits'
  BY <1>4 DEF OrderFits
<1>6. QED
  BY <1>2, <1>3, <1>5

\* The agent stops or raises, or the cleanup fails.
LEMMA StopInv ==
  ASSUME NotifyInv, Stop \/ AgentRaises \/ CleanupFails
  PROVE  NotifyInv'
<1>1. UNCHANGED <<store, mode, published, ended, applied, saved, by, pass, arrived, lost>>
  BY DEF Stop, AgentRaises, CleanupFails, agentVars, postVars
<1>2. CASE Stop
  <2>1. at = "reading" /\ applied > 0
    BY <1>2 DEF Stop
  <2>2. /\ at' \in {"cleanup", "done"}
        /\ at' = "cleanup" => by = "main" /\ mode = "send"
    BY <1>2 DEF Stop
  <2>3. QED
    BY <1>1, <2>1, <2>2, EndsInv
<1>3. CASE AgentRaises \/ CleanupFails
  <2>1. at \in {"reading", "cleanup"} /\ at' = "done"
    BY <1>3 DEF AgentRaises, CleanupFails
  <2>2. QED
    BY <1>1, <2>1, EndsInv
<1>4. QED
  BY <1>2, <1>3

\* A send that has cleaned up notifies of the last event.
LEMMA CleanupInv ==
  ASSUME NotifyInv, Cleanup
  PROVE  NotifyInv'
<1> USE DEF NotifyInv
<1>1. /\ at = "cleanup" /\ at' = "done" /\ Begins("main", applied)
      /\ UNCHANGED <<store, mode, published, ended, applied, saved, by, arrived, lost>>
      /\ mode = "send" /\ by = "main" /\ applied > 0
  BY DEF Cleanup, agentVars, ReaderFits
<1>2. applied \in Nat /\ applied \in 1..MaxEvents
  <2>1. MaxEvents \in Int /\ published \in 0..MaxEvents /\ applied \in 0..published
    BY PushBounds DEF NotifyShape
  <2>2. QED
    BY <1>1, <2>1
<1>3. SavedFits'
  BY <1>1 DEF SavedFits
<1>4. /\ "main" \in Pusher /\ pass' \in [Pusher -> Passes]
      /\ pass'["main"].phase = "fetching" /\ pass'["main"].base = applied
      /\ pass'["main"].posts = {} /\ \A q \in Pusher : q # "main" => pass'[q] = pass[q]
  <2>1. "main" \in Pusher /\ pass \in [Pusher -> Passes]
    BY DEF NotifyShape, Pusher
  <2>2. QED
    BY <1>1, <1>2, <2>1, BeginsRound
<1>5. \A i \in Ids : arrived[i] = <<>>
  BY <1>1 DEF ReaderFits
<1>6. NotifyShape'
  BY <1>1, <1>4 DEF NotifyShape
<1>7. PostsFit'
  BY <1>1, <1>2, <1>4 DEF PostsFit
<1>8. ReaderFits' /\ RoundIsCurrent'
  BY <1>1, <1>4 DEF ReaderFits, RoundIsCurrent, Pusher
<1>9. OrderFits'
  BY <1>1, <1>5 DEF OrderFits, InOrderTo, Increasing
<1>10. QED
  BY <1>3, <1>6, <1>7, <1>8, <1>9

\* A final Message is followed by a round, by an answer or by nothing.
LEMMA MessageInv ==
  ASSUME NotifyInv, TakeMessage
  PROVE  NotifyInv'
<1> USE DEF NotifyInv
<1>1. /\ at = "reading" /\ applied < published
      /\ UNCHANGED <<store, mode, published, ended, by, arrived, lost>>
  BY DEF TakeMessage, Comes, agentVars
<1>2. /\ applied \in Nat /\ published \in Nat /\ saved \in 0..applied
  <2>1. MaxEvents \in Int /\ published \in 0..MaxEvents /\ applied \in 0..published /\ saved \in 0..applied
    BY PushBounds DEF NotifyShape
  <2>2. QED
    BY <2>1
<1>3. CASE applied = 0
  <2>1. at' = "done" /\ UNCHANGED <<applied, saved, pass>>
    BY <1>3 DEF TakeMessage
  <2>2. QED
    BY <1>1, <2>1, EndsInv
<1>4. CASE applied > 0 /\ by = IF mode = "stream" THEN "main" ELSE "rest"
  <2>1. /\ applied' = applied + 1 /\ saved' = IF saved = applied THEN applied + 1 ELSE saved
        /\ at' = "pushing" /\ Begins(by, applied + 1)
    BY <1>4 DEF TakeMessage
  <2>2. saved = applied
    BY <1>1, <1>4 DEF SavedFits
  <2>3. Follows(applied')
    BY <1>1, <1>4, <2>1 DEF Follows
  <2>4. saved' = applied' /\ applied' > 0
    BY <1>2, <2>1, <2>2
  <2>5. QED
    BY <1>1, <2>1, <2>3, <2>4, FollowsInv
<1>5. CASE applied > 0 /\ by # IF mode = "stream" THEN "main" ELSE "rest"
  <2>1. /\ applied' = applied + 1 /\ saved' = IF saved = applied THEN applied + 1 ELSE saved
        /\ at' = "done" /\ UNCHANGED pass
    BY <1>5 DEF TakeMessage
  <2>2. by # "rest"
    BY <1>5 DEF ReaderFits
  <2>3. /\ by # "quiet" => pass[by].phase = "off"
        /\ \A i \in Ids : Upto(i) = applied
    BY <1>1, ReaderIsFree
  <2>4. saved' \in Int /\ saved' \in 0..applied' /\ saved <= saved' /\ applied' \in 0..published
    BY <1>1, <1>2, <2>1
  <2>5. /\ arrived \in [Ids -> Seq(1..applied)]
        /\ \A i \in Ids : arrived[i] \in Seq(1..applied')
    BY <1>2, <2>1, Upwards DEF NotifyShape
  <2>6. NotifyShape'
    BY <1>1, <2>1, <2>4, <2>5 DEF NotifyShape
  <2>7. PostsFit' /\ ReaderFits' /\ RoundIsCurrent'
    <3>1. \A n \in 1..applied : n \in 1..applied'
      BY <1>2, <2>1
    <3>2. PostsFit'
      BY <1>1, <2>1, <3>1 DEF PostsFit
    <3>3. ReaderFits' /\ RoundIsCurrent'
      BY <1>1, <2>1, <2>3 DEF ReaderFits, RoundIsCurrent
    <3>4. QED
      BY <3>2, <3>3
  <2>8. SavedFits'
    <3>1. \A i \in Ids : \A k \in DOMAIN arrived[i] : arrived[i][k] \in Int /\ arrived[i][k] <= saved
      <4>1. \A i \in Ids : \A k \in DOMAIN arrived[i] : arrived[i][k] <= saved
        BY <2>2 DEF SavedFits
      <4>2. ASSUME NEW i \in Ids, NEW k \in DOMAIN arrived[i] PROVE arrived[i][k] \in Int
        <5>1. arrived[i] \in Seq(1..applied)
          BY <2>5
        <5>2. arrived[i][k] \in 1..applied
          BY <5>1, Elements
        <5>3. QED
          BY <5>2
      <4>3. QED
        BY <4>1, <4>2
    <3>2. \A i \in Ids : \A k \in DOMAIN arrived[i] : arrived[i][k] <= saved'
      BY <1>2, <2>4, <3>1
    <3>3. saved = applied => saved' = applied'
      BY <2>1
    <3>4. QED
      BY <1>1, <2>1, <3>2, <3>3 DEF SavedFits
  <2>9. OrderFits'
    <3>1. \A i \in Ids : Upto(i)' = applied'
      BY <1>1, <2>1, <2>3, ReaderIsFree DEF Upto, Pending
    <3>2. ASSUME NEW i \in Ids PROVE InOrderTo(arrived[i], applied')
      <4>1. InOrderTo(arrived[i], applied)
        BY <2>2, <2>3 DEF OrderFits
      <4>2. QED
        BY <1>2, <2>1, <2>5, <4>1, OrderUp
    <3>3. QED
      BY <1>1, <3>1, <3>2 DEF OrderFits
  <2>10. QED
    BY <2>6, <2>7, <2>8, <2>9
<1>6. QED
  BY <1>2, <1>3, <1>4, <1>5

\* The client of a stream goes, and nobody is notified from then on.
LEMMA DisconnectInv ==
  ASSUME NotifyInv, Disconnect
  PROVE  NotifyInv'
<1> USE DEF NotifyInv
<1>1. /\ mode = "stream" /\ by = "main" /\ by' = "quiet" /\ at # "done"
      /\ at' \in {"reading", "done"}
      /\ saved' \in IF at = "saving" THEN {saved, applied} ELSE {saved}
      /\ pass' = [pass EXCEPT !["main"] = NoPass]
      /\ UNCHANGED <<store, mode, published, ended, applied, arrived, lost>>
  <2> USE DEF agentVars
  <2>1. at = "reading" => at' \in {"reading", "done"}
    BY DEF Disconnect
  <2>2. at # "reading" => at' \in {"reading", "done"}
    BY DEF Disconnect, Rests
  <2>3. QED
    BY <2>1, <2>2 DEF Disconnect
<1>2. applied \in Nat /\ saved \in 0..applied
  <2>1. MaxEvents \in Int /\ published \in 0..MaxEvents /\ applied \in 0..published /\ saved \in 0..applied
    BY PushBounds DEF NotifyShape
  <2>2. QED
    BY <2>1
<1>3. /\ pass' \in [Pusher -> Passes] /\ pass'["main"] = NoPass /\ pass'["rest"] = NoPass
  <2>1. "main" \in Pusher /\ "rest" \in Pusher /\ pass \in [Pusher -> Passes]
    BY DEF NotifyShape, Pusher
  <2>2. pass["rest"] = NoPass
    BY <1>1 DEF ReaderFits
  <2>3. NoPass \in Passes
    BY <2>1, <2>2
  <2>4. QED
    BY <1>1, <2>1, <2>2, <2>3
<1>4. saved' \in 0..applied /\ saved <= saved'
  BY <1>1, <1>2
<1>5. NotifyShape' /\ PostsFit'
  BY <1>1, <1>3, <1>4 DEF NotifyShape, PostsFit, Pusher, NoPass
<1>6. ReaderFits' /\ RoundIsCurrent'
  BY <1>1, <1>3 DEF ReaderFits, RoundIsCurrent
<1>7. SavedFits'
  <2>1. \A i \in Ids : \A k \in DOMAIN arrived[i] : arrived[i][k] \in Int /\ arrived[i][k] <= saved
    BY <1>1, <1>2 DEF SavedFits, NotifyShape
  <2>2. store = "memory" => saved' = applied
    BY <1>1 DEF SavedFits
  <2>3. QED
    BY <1>1, <1>2, <1>4, <2>1, <2>2 DEF SavedFits
<1>8. OrderFits'
  <2>1. \A i \in Ids : Upto(i)' = applied
    BY <1>1 DEF Upto
  <2>2. ASSUME NEW i \in Ids PROVE InOrderTo(arrived[i], applied)
    <3>1. InOrderTo(arrived[i], Upto(i)) /\ Upto(i) \in {applied - 1, applied}
      BY <1>1 DEF OrderFits, Upto
    <3>2. arrived[i] \in Seq(1..applied)
      BY DEF NotifyShape
    <3>3. QED
      BY <1>2, <3>1, <3>2, OrderUp
  <2>3. QED
    BY <1>1, <2>1, <2>2 DEF OrderFits
<1>9. QED
  BY <1>5, <1>6, <1>7, <1>8

-----------------------------------------------------------------------------
(* The notifications: the rounds.                                          *)

\* A round that goes on, or ends, and delivers nothing keeps the invariant, as
\* long as it owes nobody what it did not owe before.
LEMMA RoundInv ==
  ASSUME NotifyInv, NEW p \in Pusher, NEW r \in Passes, pass' = [pass EXCEPT ![p] = r],
         pass[p].phase # "off", r = NoPass \/ r.base = pass[p].base,
         \A a, b \in r.posts : a.cfg.id = b.cfg.id => a = b,
         r.phase = "posting" =>
           \A a \in r.posts : a.tells \in 1..applied /\ (by = p => a.tells = applied),
         r.phase \in {"off", "fetching"} => r.posts = {},
         \A i \in Ids : Pending(p, i)' => Pending(p, i),
         UNCHANGED <<store, mode, published, ended, applied, saved, by, arrived>>, lost' \subseteq Ids,
         at' = at \/ (at = "pushing" /\ at' \in {"reading", "done"} /\ by = p /\ r = NoPass)
  PROVE  NotifyInv'
<1> USE DEF NotifyInv
<1>1. /\ pass \in [Pusher -> Passes] /\ pass' \in [Pusher -> Passes] /\ pass'[p] = r
      /\ \A q \in Pusher : q # p => pass'[q] = pass[q]
  BY DEF NotifyShape
<1>2. at' \in {"reading", "saving", "pushing", "cleanup", "done"} /\ (at' = "saving" <=> at = "saving")
  BY DEF NotifyShape
<1>3. applied \in Nat
  <2>1. MaxEvents \in Int /\ published \in 0..MaxEvents /\ applied \in 0..published
    BY PushBounds DEF NotifyShape
  <2>2. QED
    BY <2>1
<1>4. pass[p] # NoPass /\ NoPass.phase = "off"
  BY DEF NoPass
<1>5. p # by => p = "main" /\ by = "rest"
  BY <1>4 DEF ReaderFits, NotifyShape, Pusher
<1>6. NotifyShape'
  BY <1>1, <1>2 DEF NotifyShape
<1>7. PostsFit'
  <2>1. r.phase # "off" => r.base \in 1..applied
    BY <1>4 DEF PostsFit
  <2>2. QED
    BY <1>1, <2>1 DEF PostsFit
<1>8. ReaderFits'
  <2>1. by # "rest" => pass'["rest"] = NoPass
    BY <1>1, <1>4, <1>5 DEF ReaderFits, Pusher
  <2>2. by = "main" /\ mode = "send" => at' = at /\ at = "done"
    BY <1>4, <1>5 DEF ReaderFits, Pusher
  <2>3. by # "quiet"
    BY <1>4, <1>5 DEF ReaderFits, Pusher
  <2>4. QED
    BY <1>2, <2>1, <2>2, <2>3 DEF ReaderFits
<1>9. RoundIsCurrent'
  <2>1. CASE by = p
    <3>1. at \in {"pushing", "done"} /\ pass[p].base = applied
      BY <2>1, <1>5 DEF RoundIsCurrent, Pusher
    <3>2. QED
      BY <1>1, <1>4, <2>1, <3>1 DEF RoundIsCurrent
  <2>2. CASE by # p
    BY <1>1, <1>5, <2>2 DEF RoundIsCurrent, Pusher
  <2>3. QED
    BY <2>1, <2>2
<1>10. SavedFits'
  BY <1>2 DEF SavedFits
<1>11. OrderFits'
  <2>1. ASSUME NEW i \in Ids
        PROVE  /\ Upto(i) \in Int /\ Upto(i)' \in Int /\ Upto(i) <= Upto(i)'
               /\ Pending("main", i)' => Pending("main", i)
    <3>1. by \in Pusher => (Pending(by, i)' => Pending(by, i))
      BY <1>1, <1>5 DEF Pending
    <3>2. Pending("main", i)' => Pending("main", i)
      BY <1>1, <1>5 DEF Pending, Pusher
    <3>3. by # "quiet" => by \in Pusher
      BY DEF NotifyShape, Pusher
    <3>4. Upto(i)' \in {applied - 1, applied} /\ (Upto(i) = applied => Upto(i)' = applied) /\ Upto(i) \in {applied - 1, applied}
      BY <1>2, <1>3, <3>1, <3>3 DEF Upto
    <3>5. QED
      BY <1>3, <3>2, <3>4
  <2>2. ASSUME NEW i \in Ids, NEW s \in Seq(1..applied), InOrderTo(s, Upto(i))
        PROVE  InOrderTo(s, Upto(i)')
    BY <1>3, <2>1, <2>2, OrderUp
  <2>3. ASSUME NEW i \in Ids, NEW k \in DOMAIN arrived[i]
        PROVE  RemoveAt(arrived[i], k) \in Seq(1..applied)
    BY RemoveAtElements DEF NotifyShape
  <2>4. \A i \in Ids : arrived[i] \in Seq(1..applied) /\ arrived'[i] = arrived[i]
    BY DEF NotifyShape
  <2>5. QED
    BY <2>1, <2>2, <2>3, <2>4 DEF OrderFits
<1>12. QED
  BY <1>6, <1>7, <1>8, <1>9, <1>10, <1>11

\* Reading the configurations, writing the task out, a post that fails and the
\* end of a round deliver nothing.
LEMMA QuietSteps ==
  ASSUME NotifyInv, StoreInv, NEW p \in Pusher, Fetch(p) \/ FetchFails(p) \/ Dispatch(p) \/ Lost(p) \/ Over(p)
  PROVE  NotifyInv'
<1>1. /\ pass \in [Pusher -> Passes] /\ pass[p] \in Passes /\ lost \subseteq Ids
      /\ applied \in 0..MaxEvents /\ MaxEvents \in Nat
  <2>1. /\ MaxEvents \in Int /\ MaxEvents \in Nat /\ published \in 0..MaxEvents /\ applied \in 0..published
        /\ pass \in [Pusher -> Passes] /\ lost \subseteq Ids
    BY PushBounds DEF NotifyInv, NotifyShape
  <2>2. QED
    BY <2>1
<1>2. /\ pass[p].base \in 0..MaxEvents /\ pass[p].posts \subseteq [cfg : Config, tells : 0..MaxEvents]
      /\ pass[p].phase \in {"off", "fetching", "starting", "posting"}
  BY <1>1 DEF Passes
<1>3. ASSUME NEW phase \in {"starting", "posting"},
             NEW posts \in SUBSET [cfg : Config, tells : 0..MaxEvents],
             pass' = [pass EXCEPT ![p].phase = phase, ![p].posts = posts]
      PROVE  LET r == [phase |-> phase, base |-> pass[p].base, posts |-> posts]
             IN r \in Passes /\ pass' = [pass EXCEPT ![p] = r]
  <2> DEFINE P == SUBSET [cfg : Config, tells : 0..MaxEvents]
             F == {"off", "fetching", "starting", "posting"}
  <2>1. /\ Passes = [phase : F, base : 0..MaxEvents, posts : P]
        /\ posts \in P /\ phase \in F
    BY <1>3 DEF Passes
  <2> HIDE DEF P, F
  <2>2. [phase |-> phase, base |-> pass[p].base, posts |-> posts] \in Passes
    BY <1>2, <2>1
  <2>3. /\ pass[p] \in [phase : F, base : 0..MaxEvents, posts : P]
        /\ [pass EXCEPT ![p].phase = phase, ![p].posts = posts]
             = [pass EXCEPT ![p] = [pass[p] EXCEPT !.phase = phase, !.posts = posts]]
    BY <1>1, <2>1
  <2>4. [pass[p] EXCEPT !.phase = phase, !.posts = posts]
          = [phase |-> phase, base |-> pass[p].base, posts |-> posts]
    <3> DEFINE r == [pass[p] EXCEPT !.phase = phase, !.posts = posts]
    <3>1. /\ r \in [phase : F, base : 0..MaxEvents, posts : P]
          /\ r.phase = phase /\ r.base = pass[p].base /\ r.posts = posts
      BY <2>1, <2>3
    <3> HIDE DEF r
    <3>2. r = [phase |-> phase, base |-> pass[p].base, posts |-> posts]
      BY <3>1
    <3>3. QED
      BY <3>2 DEF r
  <2>5. QED
    BY <1>3, <2>2, <2>3, <2>4
<1>4. CASE Fetch(p)
  <2> DEFINE posts == {[cfg |-> c, tells |-> 0] : c \in Range(kept)}
             r == [phase |-> "starting", base |-> pass[p].base, posts |-> posts]
  <2>1. /\ pass[p].phase = "fetching"
        /\ pass' = [pass EXCEPT ![p].phase = "starting", ![p].posts = posts]
        /\ UNCHANGED <<store, mode, published, ended, applied, saved, by, at, arrived, lost>>
    BY <1>4 DEF Fetch, readerVars, agentVars
  <2>2. posts \in SUBSET [cfg : Config, tells : 0..MaxEvents]
    <3>1. Range(kept) \subseteq Config /\ 0 \in 0..MaxEvents
      BY <1>1 DEF StoreInv, KeptInv, Range
    <3>2. QED
      BY <3>1
  <2>3. \A a, b \in posts : a.cfg.id = b.cfg.id => a = b
    BY DEF StoreInv, KeptInv, OneConfigEach, Range
  <2> HIDE DEF posts
  <2>4. r \in Passes /\ pass' = [pass EXCEPT ![p] = r]
    BY <1>3, <2>1, <2>2
  <2>5. \A i \in Ids : Pending(p, i)
    BY <2>1 DEF Pending
  <2>6. r.phase = "starting" /\ r.base = pass[p].base /\ r.posts = posts
    OBVIOUS
  <2> HIDE DEF r
  <2>7. pass[p].phase # "off" /\ r.base = pass[p].base /\ r.phase \notin {"posting", "off", "fetching"}
    BY <2>1, <2>6
  <2>8. \A a, b \in r.posts : a.cfg.id = b.cfg.id => a = b
    BY <2>3, <2>6
  <2>9. (\A i \in Ids : Pending(p, i)' => Pending(p, i)) /\ lost' \subseteq Ids
    BY <1>1, <2>1, <2>5
  <2>10. QED
    BY <2>1, <2>4, <2>7, <2>8, <2>9, RoundInv
<1>5. CASE Dispatch(p)
  <2>1. PICK v \in pass[p].base..applied :
          pass' = [pass EXCEPT ![p].phase = "posting",
                               ![p].posts = {[cfg |-> post.cfg, tells |-> v] : post \in @}]
    BY <1>5 DEF Dispatch
  <2> DEFINE posts == {[cfg |-> post.cfg, tells |-> v] : post \in pass[p].posts}
             r == [phase |-> "posting", base |-> pass[p].base, posts |-> posts]
  <2>2. /\ pass[p].phase = "starting"
        /\ pass' = [pass EXCEPT ![p].phase = "posting", ![p].posts = posts]
        /\ UNCHANGED <<store, mode, published, ended, applied, saved, by, at, arrived, lost>>
    BY <1>1, <1>5, <2>1 DEF Dispatch, readerVars, agentVars
  <2>3. v \in 1..applied /\ v \in 0..MaxEvents /\ (by = p => v = applied)
    <3>1. pass[p].base \in 1..applied
      BY <2>2 DEF NotifyInv, PostsFit
    <3>2. by = p => pass[p].base = applied
      BY <2>2 DEF NotifyInv, RoundIsCurrent, Pusher
    <3>3. QED
      BY <1>1, <3>1, <3>2
  <2>4. posts \in SUBSET [cfg : Config, tells : 0..MaxEvents]
    BY <1>2, <2>3
  <2>5. /\ \A a, b \in posts : a.cfg.id = b.cfg.id => a = b
        /\ \A a \in posts : a.tells = v
    BY DEF NotifyInv, PostsFit
  <2> HIDE DEF posts
  <2>6. r \in Passes /\ pass' = [pass EXCEPT ![p] = r]
    BY <1>3, <2>2, <2>4
  <2>7. \A i \in Ids : Pending(p, i)
    BY <2>2 DEF Pending
  <2>8. r.phase = "posting" /\ r.base = pass[p].base /\ r.posts = posts
    OBVIOUS
  <2> HIDE DEF r
  <2>9. QED
    <3>1. \A a \in r.posts : a.tells \in 1..applied /\ (by = p => a.tells = applied)
      BY <2>3, <2>5, <2>8
    <3>2. \A a, b \in r.posts : a.cfg.id = b.cfg.id => a = b
      BY <2>5, <2>8
    <3>3. QED
      BY <1>1, <2>2, <2>6, <2>7, <2>8, <3>1, <3>2, RoundInv
<1>6. CASE Lost(p)
  <2>1. PICK post \in pass[p].posts :
          /\ lost' = lost \union {post.cfg.id}
          /\ pass' = [pass EXCEPT ![p].posts = @ \ {post}]
    BY <1>6 DEF Lost
  <2> DEFINE posts == pass[p].posts \ {post}
             r == [phase |-> "posting", base |-> pass[p].base, posts |-> posts]
  <2>2. /\ pass[p].phase = "posting"
        /\ UNCHANGED <<store, mode, published, ended, applied, saved, by, at, arrived>>
    BY <1>6 DEF Lost, readerVars, agentVars
  <2>3. r \in Passes /\ pass' = [pass EXCEPT ![p] = r]
    <3>1. posts \in SUBSET [cfg : Config, tells : 0..MaxEvents]
      BY <1>2
    <3> HIDE DEF posts
    <3>2. r \in Passes
      BY <1>2, <3>1 DEF Passes
    <3>3. r = [pass[p] EXCEPT !.posts = posts]
      BY <1>1, <2>2, <3>1 DEF Passes
    <3>4. [pass EXCEPT ![p].posts = @ \ {post}] = [pass EXCEPT ![p] = [pass[p] EXCEPT !.posts = posts]]
      BY <1>1 DEF posts
    <3>5. QED
      BY <2>1, <3>2, <3>3, <3>4
  <2>4. lost' \subseteq Ids
    BY <1>1, <1>2, <2>1, ConfigIds
  <2>5. /\ \A a, b \in r.posts : a.cfg.id = b.cfg.id => a = b
        /\ \A a \in r.posts : a.tells \in 1..applied /\ (by = p => a.tells = applied)
    BY <2>2 DEF NotifyInv, PostsFit, RoundIsCurrent, Pusher
  <2>6. \A i \in Ids : Pending(p, i)' => Pending(p, i)
    BY <1>1, <2>3 DEF Pending
  <2>7. r.phase = "posting" /\ r.base = pass[p].base
    OBVIOUS
  <2> HIDE DEF r
  <2>8. QED
    BY <2>2, <2>3, <2>4, <2>5, <2>6, <2>7, RoundInv
<1>7. CASE FetchFails(p) \/ Over(p)
  <2>1. /\ pass[p].phase \in {"fetching", "posting"} /\ pass' = [pass EXCEPT ![p] = NoPass]
        /\ at' = at \/ (at = "pushing" /\ at' \in {"reading", "done"} /\ by = p)
        /\ UNCHANGED <<store, mode, published, ended, applied, saved, by, arrived, lost>>
    <3>1. CASE FetchFails(p)
      BY <3>1 DEF FetchFails, agentVars
    <3>2. CASE Over(p)
      BY <3>2 DEF Over, Rests, agentVars
    <3>3. QED
      BY <1>7, <3>1, <3>2
  <2>2. NoPass \in Passes /\ NoPass.phase = "off" /\ NoPass.posts = {}
    <3>1. 0 \in 0..MaxEvents
      BY <1>1
    <3>2. QED
      BY <3>1 DEF NoPass, Passes
  <2>3. \A i \in Ids : ~Pending(p, i)'
    BY <1>1, <2>1, <2>2 DEF Pending
  <2>4. QED
    BY <1>1, <2>1, <2>2, <2>3, RoundInv
<1>8. QED
  BY <1>4, <1>5, <1>6, <1>7

\* What arrives at a subscriber comes after all it was told, or is the one late
\* answer of a send that was interrupted.
LEMMA ArrivesInv ==
  ASSUME NotifyInv, NEW p \in Pusher, Arrives(p)
  PROVE  NotifyInv'
<1> USE DEF NotifyInv
<1>1. /\ MaxEvents \in Int /\ published \in 0..MaxEvents /\ applied \in 0..published
      /\ pass \in [Pusher -> Passes] /\ pass[p] \in Passes
      /\ arrived \in [Ids -> Seq(1..applied)]
  BY PushBounds DEF NotifyShape
<1>2. PICK post \in pass[p].posts :
        /\ pass' = [pass EXCEPT ![p].posts = @ \ {post}]
        /\ arrived' = [arrived EXCEPT ![post.cfg.id] = Append(@, post.tells)]
  BY DEF Arrives
<1> DEFINE who == post.cfg.id
           sofar == arrived[who]
           late == by # p
<1>3. /\ pass[p].phase = "posting"
      /\ UNCHANGED <<store, mode, published, ended, applied, saved, by, at, lost>>
  BY DEF Arrives, readerVars, agentVars
<1>4. /\ pass' \in [Pusher -> Passes] /\ pass'[p].phase = "posting" /\ pass'[p].base = pass[p].base
      /\ pass'[p].posts = pass[p].posts \ {post} /\ \A q \in Pusher : q # p => pass'[q] = pass[q]
  <2> DEFINE posts == pass[p].posts \ {post}
             r == [pass[p] EXCEPT !.posts = posts]
  <2>1. pass[p].posts \subseteq [cfg : Config, tells : 0..MaxEvents]
    BY <1>1 DEF Passes
  <2>2. posts \in SUBSET [cfg : Config, tells : 0..MaxEvents]
    BY <2>1
  <2>3. pass' = [pass EXCEPT ![p] = r]
    BY <1>1, <1>2
  <2> HIDE DEF posts
  <2>4. r \in Passes /\ r.phase = "posting" /\ r.base = pass[p].base /\ r.posts = posts
    BY <1>1, <1>3, <2>2 DEF Passes
  <2> HIDE DEF r
  <2>5. QED
    BY <1>1, <2>3, <2>4 DEF posts
<1>5. /\ who \in Ids /\ post.tells \in 1..applied /\ sofar \in Seq(1..applied)
      /\ applied \in Nat
  <2>1. post.cfg \in Config
    BY <1>1, <1>2 DEF Passes
  <2>2. QED
    BY <1>1, <1>2, <1>3, <2>1, ConfigIds DEF PostsFit
<1>6. /\ arrived' \in [Ids -> Seq(1..applied)] /\ arrived'[who] = Append(sofar, post.tells)
      /\ \A i \in Ids : i # who => arrived'[i] = arrived[i]
  <2>1. Append(sofar, post.tells) \in Seq(1..applied)
    BY <1>5
  <2>2. QED
    BY <1>1, <1>2, <1>5, <2>1
<1>7. /\ pass[p] # NoPass /\ by # "quiet" /\ by \in Pusher
      /\ late => p = "main" /\ by = "rest"
  BY <1>3 DEF ReaderFits, NotifyShape, Pusher, NoPass
<1>8. ~late => at \in {"pushing", "done"} /\ post.tells = applied /\ saved = applied
  BY <1>2, <1>3, <1>7 DEF RoundIsCurrent, SavedFits
<1>9. /\ Pending(p, who) /\ ~Pending(p, who)'
      /\ \A i \in Ids : i # who => (Pending(p, i)' <=> Pending(p, i))
      /\ \A q \in Pusher : q # p => \A i \in Ids : Pending(q, i)' <=> Pending(q, i)
  <2>1. Pending(p, who)
    BY <1>2 DEF Pending
  <2>2. \A a \in pass[p].posts : a.cfg.id = who => a = post
    BY <1>2 DEF PostsFit
  <2>3. QED
    BY <1>3, <1>4, <2>1, <2>2 DEF Pending
<1> HIDE DEF who, sofar, late
<1>10. NotifyShape' /\ PostsFit' /\ RoundIsCurrent'
  <2>1. NotifyShape'
    BY <1>3, <1>4, <1>6 DEF NotifyShape
  <2>2. PostsFit'
    BY <1>3, <1>4 DEF PostsFit
  <2>3. RoundIsCurrent'
    BY <1>3, <1>4, <1>7 DEF RoundIsCurrent
  <2>4. QED
    BY <2>1, <2>2, <2>3
<1>11. ReaderFits'
  <2>1. by # "rest" => pass'["rest"] = NoPass
    BY <1>4, <1>7 DEF ReaderFits, Pusher, late
  <2>2. by = "main" /\ mode = "send" => at = "done"
    BY <1>7 DEF ReaderFits, Pusher, late
  <2>3. QED
    BY <1>3, <1>7, <2>1, <2>2 DEF ReaderFits
<1>12. SavedFits'
  <2>1. ASSUME by # "rest" PROVE \A i \in Ids : \A k \in DOMAIN arrived'[i] : arrived'[i][k] <= saved
    <3>1. saved = applied
      BY <1>7, <1>8, <2>1
    <3>2. QED
      BY <1>1, <1>5, <1>6, <3>1
  <2>2. QED
    BY <1>3, <2>1 DEF SavedFits
<1>13. OrderFits'
  <2> SUFFICES ASSUME NEW i \in Ids
               PROVE  \/ InOrderTo(arrived'[i], Upto(i)')
                      \/ /\ by = "rest" /\ ~Pending("main", i)'
                         /\ \E k \in DOMAIN arrived'[i] : InOrderTo(RemoveAt(arrived'[i], k), Upto(i)')
    BY <1>3 DEF OrderFits
  <2>1. CASE i # who
    <3>1. arrived'[i] = arrived[i] /\ Upto(i)' = Upto(i) /\ (Pending("main", i)' <=> Pending("main", i))
      BY <1>3, <1>6, <1>7, <1>9, <2>1 DEF Upto, Pusher
    <3>2. QED
      BY <3>1 DEF OrderFits
  <2>2. CASE i = who /\ ~late
    <3>1. Upto(i) = applied - 1 /\ Upto(i)' = applied /\ post.tells = applied
      BY <1>3, <1>5, <1>7, <1>8, <1>9, <2>2 DEF Upto, late
    <3>2. arrived'[i] = Append(sofar, applied) /\ arrived[i] = sofar /\ applied \in 1..applied
      BY <1>5, <1>6, <2>2, <3>1 DEF sofar
    <3>3. CASE InOrderTo(sofar, applied - 1)
      <4>1. InOrderTo(Append(sofar, applied), applied)
        BY <1>5, <3>3, OrderAppend
      <4>2. QED
        BY <3>1, <3>2, <4>1
    <3>4. CASE /\ by = "rest" /\ ~Pending("main", i)
               /\ \E k \in DOMAIN sofar : InOrderTo(RemoveAt(sofar, k), applied - 1)
      <4>1. PICK k \in DOMAIN sofar : InOrderTo(RemoveAt(sofar, k), applied - 1)
        BY <3>4
      <4>2. /\ k \in DOMAIN Append(sofar, applied) /\ RemoveAt(sofar, k) \in Seq(1..applied)
            /\ RemoveAt(Append(sofar, applied), k) = Append(RemoveAt(sofar, k), applied)
        BY <1>5, <3>2, RemoveAppend
      <4>3. InOrderTo(Append(RemoveAt(sofar, k), applied), applied)
        <5>1. applied - 1 \in Int /\ applied \in Int /\ applied \in Nat /\ applied - 1 < applied
          BY <1>5
        <5>2. QED
          BY <4>1, <4>2, <5>1, OrderAppend
      <4>4. ~Pending("main", i)'
        BY <1>7, <1>9, <2>2, <3>4 DEF late, Pusher
      <4>5. QED
        BY <3>1, <3>2, <3>4, <4>2, <4>3, <4>4
    <3>5. QED
      BY <3>1, <3>2, <3>3, <3>4 DEF OrderFits
  <2>3. CASE i = who /\ late
    <3>1. p = "main" /\ by = "rest" /\ Pending("main", i) /\ ~Pending("main", i)' /\ Upto(i)' = Upto(i)
      BY <1>3, <1>7, <1>9, <2>3 DEF Upto
    <3>2. InOrderTo(sofar, Upto(i))
      BY <2>3, <3>1 DEF OrderFits, sofar
    <3>3. /\ arrived'[i] = Append(sofar, post.tells) /\ Len(sofar) + 1 \in DOMAIN arrived'[i]
          /\ RemoveAt(arrived'[i], Len(sofar) + 1) = sofar
      <4>1. arrived'[i] = Append(sofar, post.tells)
        BY <1>6, <2>3
      <4>2. RemoveAt(Append(sofar, post.tells), Len(sofar) + 1) = sofar
        BY <1>5, RemoveAppend
      <4>3. Len(sofar) + 1 \in DOMAIN Append(sofar, post.tells)
        BY <1>5
      <4>4. QED
        BY <4>1, <4>2, <4>3
    <3>4. QED
      BY <3>1, <3>2, <3>3
  <2>4. QED
    BY <2>1, <2>2, <2>3
<1>14. QED
  BY <1>10, <1>11, <1>12, <1>13

-----------------------------------------------------------------------------
(* The theorems.                                                           *)

PushInv == StoreInv /\ NotifyInv

\* Every step keeps the invariant.
LEMMA PushStep ==
  ASSUME PushInv, [PushNext]_pushVars
  PROVE  PushInv'
<1> USE DEF PushInv
<1>1. ASSUME NEW p \in Caller, Ask(p) \/ ConfigStep(p) PROVE PushInv'
  <2>1. UNCHANGED readingVars
    BY <1>1 DEF Ask, ConfigStep, SetInMemory, SetReads, SetWrites, Deletes, Gets, Unasked,
                readingVars, readerVars, agentVars, postVars
  <2>2. QED
    BY <1>1, <2>1, StoreSteps, NotifyFrame
<1>2. CASE ReaderStep
  <2>1. StoreInv'
    BY <1>2, StoreRests
  <2>2. NotifyInv'
    BY <1>2, PublishInv, TakeInv, MessageInv, StopInv, CleanupInv, DisconnectInv DEF ReaderStep
  <2>3. QED
    BY <2>1, <2>2
<1>3. ASSUME NEW p \in Pusher, PassStep(p) PROVE PushInv'
  BY <1>3, StoreRests, QuietSteps, ArrivesInv DEF PassStep
<1>4. CASE UNCHANGED pushVars
  <2>1. UNCHANGED readingVars
    BY <1>4 DEF pushVars, readingVars, readerVars, agentVars, postVars
  <2>2. QED
    BY <1>4, <2>1, StoreRests, NotifyFrame
<1>5. QED
  BY <1>1, <1>2, <1>3, <1>4 DEF PushNext

\* The invariant holds of every behaviour.
LEMMA PushHolds == PushSpec => []PushInv
<1>1. PushInit => PushInv
  BY StoreInit, NotifyInit DEF PushInv
<1>2. QED
  BY <1>1, PushStep, PTL DEF PushSpec

\* A subscriber is told of events in their order and of each once, however posts
\* are delayed, lost or overtaken and whatever clients do to the configurations;
\* only the answer of an interrupted message/send may come late.
THEOREM NotificationsInOrder == PushSpec => []NotifiedInOrder
<1>1. PushInv => NotifiedInOrder
  BY DEF PushInv, NotifyInv, OrderFits, NotifiedInOrder, InOrderTo
<1>2. QED
  BY <1>1, PushHolds, PTL

\* A subscriber that is told of an event and asks for the task gets one that has
\* it, with a store in memory always, and with a database unless it is told by
\* the answer of an interrupted message/send.
THEOREM NotificationsOfTheStored == PushSpec => []NotifiedIsSaved
<1>1. PushInv => NotifiedIsSaved
  <2> SUFFICES ASSUME PushInv, store = "memory" \/ by # "rest", NEW i \in Ids,
                      NEW k \in DOMAIN arrived[i]
               PROVE  arrived[i][k] <= saved
    BY DEF NotifiedIsSaved
  <2>1. CASE by # "rest"
    BY <2>1 DEF PushInv, NotifyInv, SavedFits
  <2>2. CASE store = "memory"
    <3>1. arrived[i] \in Seq(1..applied)
      BY DEF PushInv, NotifyInv, NotifyShape
    <3>2. arrived[i][k] \in 1..applied
      BY <3>1, Elements
    <3>3. saved = applied /\ applied \in Int
      BY <2>2, PushBounds DEF PushInv, NotifyInv, SavedFits, NotifyShape
    <3>4. QED
      BY <3>2, <3>3
  <2>3. QED
    BY <2>1, <2>2
<1>2. QED
  BY <1>1, PushHolds, PTL

-----------------------------------------------------------------------------
(* What the variables hold.                                                *)

\* A round that has read its configurations has told nobody of anything.
NotTold ==
  \A p \in Pusher : pass[p].phase = "starting" => \A a \in pass[p].posts : a.tells = 0

\* Only a fetch leads there.
LEMMA NotToldStep ==
  ASSUME PushInv, NotTold, [PushNext]_pushVars
  PROVE  NotTold'
<1>1. pass \in [Pusher -> Passes]
  BY DEF PushInv, NotifyInv, NotifyShape
<1>2. ASSUME \A p \in Pusher : pass'[p] = pass[p] \/ pass'[p].phase # "starting"
      PROVE  NotTold'
  BY <1>2 DEF NotTold
<1>3. ASSUME NEW p \in Pusher, NEW n, Begins(p, n) PROVE NotTold'
  <2>1. pass'[p].phase = "fetching" /\ \A q \in Pusher : q # p => pass'[q] = pass[q]
    BY <1>1, <1>3 DEF Begins
  <2>2. QED
    BY <1>2, <2>1
<1>4. UNCHANGED pass => NotTold'
  BY <1>2
<1>5. ASSUME NEW p \in Caller, Ask(p) \/ ConfigStep(p) PROVE NotTold'
  BY <1>4, <1>5 DEF Ask, ConfigStep, SetInMemory, SetReads, SetWrites, Deletes, Gets, Unasked,
                    readerVars, postVars
<1>6. ASSUME NEW n, Follows(n) PROVE NotTold'
  BY <1>3, <1>4, <1>6 DEF Follows, Pusher
<1>7. CASE ReaderStep /\ ~Disconnect
  <2>1. CASE Publish \/ Stop \/ AgentRaises \/ CleanupFails
    BY <1>4, <2>1 DEF Publish, Stop, AgentRaises, CleanupFails, postVars
  <2>2. CASE Take \/ Save
    BY <1>4, <1>6, <2>2 DEF Take, Save
  <2>3. CASE TakeMessage \/ Cleanup
    <3>1. (by = IF mode = "stream" THEN "main" ELSE "rest") => by \in Pusher
      BY DEF Pusher
    <3>2. "main" \in Pusher
      BY DEF Pusher
    <3>3. QED
      BY <1>3, <1>4, <2>3, <3>1, <3>2 DEF TakeMessage, Cleanup
  <2>4. QED
    BY <1>7, <2>1, <2>2, <2>3 DEF ReaderStep
<1>8. CASE Disconnect
  <2>1. pass' = [pass EXCEPT !["main"] = NoPass]
    BY <1>8 DEF Disconnect
  <2>2. \A q \in Pusher : pass'[q] = pass[q] \/ pass'[q] = NoPass
    BY <1>1, <2>1
  <2>3. QED
    BY <1>2, <2>2 DEF NoPass
<1>9. ASSUME NEW p \in Pusher, Fetch(p) PROVE NotTold'
  <2> DEFINE posts == {[cfg |-> c, tells |-> 0] : c \in Range(kept)}
  <2>1. \A a \in posts : a.tells = 0
    OBVIOUS
  <2>2. pass' = [pass EXCEPT ![p].phase = "starting", ![p].posts = posts]
    BY <1>9 DEF Fetch
  <2> HIDE DEF posts
  <2>3. pass'[p].posts = posts /\ \A q \in Pusher : q # p => pass'[q] = pass[q]
    BY <1>1, <2>2 DEF Passes
  <2>4. QED
    BY <2>1, <2>3 DEF NotTold
<1>10. ASSUME NEW p \in Pusher, FetchFails(p) \/ Dispatch(p) \/ Arrives(p) \/ Lost(p) \/ Over(p)
       PROVE  NotTold'
  <2>1. \A q \in Pusher : q # p => pass'[q] = pass[q]
    BY <1>1, <1>10 DEF FetchFails, Dispatch, Arrives, Lost, Over
  <2>2. pass'[p].phase # "starting"
    BY <1>1, <1>10 DEF FetchFails, Dispatch, Arrives, Lost, Over, NoPass, Passes
  <2>3. QED
    BY <1>2, <2>1, <2>2
<1>11. CASE UNCHANGED pushVars
  BY <1>4, <1>11 DEF pushVars, postVars
<1>12. QED
  BY <1>5, <1>7, <1>8, <1>9, <1>10, <1>11 DEF PushNext, PassStep

\* What has failed, and that the last event may be a Message.
FaultsFit == message \in BOOLEAN /\ failed \subseteq {"agent", "cleanup", "fetch"}

\* Three actions fail, and one publishes.
LEMMA FaultsStep ==
  ASSUME FaultsFit, [PushNext]_pushVars
  PROVE  FaultsFit'
<1>1. CASE Publish
  BY <1>1 DEF FaultsFit, Publish, hereVars
<1>2. CASE AgentRaises \/ CleanupFails \/ \E p \in Pusher : FetchFails(p)
  BY <1>2 DEF FaultsFit, AgentRaises, CleanupFails, FetchFails, Fails, agentVars
<1>3. CASE UNCHANGED <<message, failed>>
  BY <1>3 DEF FaultsFit
<1>4. ASSUME NEW p \in Caller, Ask(p) \/ ConfigStep(p) PROVE UNCHANGED <<message, failed>>
  BY <1>4 DEF Ask, ConfigStep, SetInMemory, SetReads, SetWrites, Deletes, Gets, Unasked, readerVars,
              agentVars, hereVars
<1>5. ASSUME Take \/ Save \/ TakeMessage \/ Stop \/ Cleanup \/ Disconnect
      PROVE  UNCHANGED <<message, failed>>
  BY <1>5 DEF Take, Save, TakeMessage, Stop, Cleanup, Disconnect, agentVars, hereVars
<1>6. ASSUME NEW p \in Pusher, Fetch(p) \/ Dispatch(p) \/ Arrives(p) \/ Lost(p) \/ Over(p)
      PROVE  UNCHANGED <<message, failed>>
  BY <1>6 DEF Fetch, Dispatch, Arrives, Lost, Over, readerVars, agentVars, hereVars
<1>7. CASE UNCHANGED pushVars
  BY <1>3, <1>7 DEF pushVars, readerVars, agentVars, hereVars
<1>8. QED
  BY <1>1, <1>2, <1>3, <1>4, <1>5, <1>6, <1>7 DEF PushNext, ReaderStep, PassStep

\* Every variable keeps its shape: a post tells of an event that was applied, and
\* what arrives is an event that was published.
THEOREM PushTyped == PushSpec => []PushTypeOK
<1>1. PushInv /\ NotTold /\ FaultsFit => PushTypeOK
  <2> SUFFICES ASSUME PushInv, NotTold, FaultsFit PROVE PushTypeOK
    OBVIOUS
  <2> USE DEF PushInv, StoreInv, NotifyInv
  <2>1. Range(kept) \subseteq Config
    <3>1. kept \in Seq(Config)
      BY DEF KeptInv
    <3>2. ASSUME NEW k \in DOMAIN kept PROVE kept[k] \in Config
      BY <3>1
    <3>3. QED
      BY <3>2 DEF Range
  <2>2. \A p \in Caller : Len(asked[p]) <= 1 /\ seen[p] \in {<<>>, <<TRUE>>, <<FALSE>>}
    <3>1. ASSUME NEW p \in Caller PROVE asked[p] = <<>> \/ \E call : asked[p] = <<call>>
      BY DEF CallerShape
    <3>2. \A call : Len(<<call>>) = 1
      OBVIOUS
    <3>3. ASSUME NEW p \in Caller PROVE Len(asked[p]) <= 1
      <4>1. CASE asked[p] = <<>>
        BY <4>1
      <4>2. ASSUME NEW call, asked[p] = <<call>> PROVE Len(asked[p]) <= 1
        <5>1. Len(asked[p]) = 1
          BY <3>2, <4>2
        <5>2. QED
          BY <5>1
      <4>3. QED
        BY <3>1, <4>1, <4>2
    <3>4. QED
      BY <3>3 DEF CallerShape
  <2>3. NotifyShape /\ applied \in 0..published /\ MaxEvents \in Nat
    BY PushBounds DEF NotifyShape
  <2>4. \A i \in Ids : arrived[i] \in Seq(1..published)
    <3>1. published \in 0..MaxEvents
      BY <2>3 DEF NotifyShape
    <3>2. applied \in Int /\ published \in Int /\ applied <= published
      BY <2>3, <3>1
    <3>3. ASSUME NEW i \in Ids PROVE arrived[i] \in Seq(1..published)
      <4>1. arrived[i] \in Seq(1..applied)
        BY <2>3 DEF NotifyShape
      <4>2. QED
        BY <3>2, <4>1, Upwards
    <3>4. QED
      BY <3>3
  <2>5. \A p \in Pusher : \A post \in pass[p].posts : post.tells <= applied
    <3>1. ASSUME NEW p \in Pusher, NEW post \in pass[p].posts
          PROVE  post.tells \in 1..applied \/ post.tells = 0
      <4>1. pass[p] \in Passes
        BY <2>3 DEF NotifyShape
      <4>2. pass[p].phase \in {"off", "fetching", "starting", "posting"}
        BY <4>1 DEF Passes
      <4>3. QED
        BY <3>1, <4>2 DEF PostsFit, NotTold
    <3>2. applied \in Nat
      BY <2>3 DEF NotifyShape
    <3>3. QED
      BY <3>1, <3>2
  <2>6. by # "rest" => pass["rest"] = NoPass
    BY DEF ReaderFits
  <2>7. QED
    BY <2>1, <2>2, <2>3, <2>4, <2>5, <2>6 DEF PushTypeOK, NotifyShape, FaultsFit
<1>2. PushInit => NotTold /\ FaultsFit
  <2>1. PushInit => NotTold
    BY DEF PushInit, NotTold, NoPass
  <2>2. PushInit => FaultsFit
    BY DEF PushInit, FaultsFit
  <2>3. QED
    BY <2>1, <2>2
<1>3. PushSpec => [](NotTold /\ FaultsFit)
  BY <1>2, NotToldStep, FaultsStep, PushHolds, PTL DEF PushSpec
<1>4. QED
  BY <1>1, <1>3, PushHolds, PTL
=============================================================================
