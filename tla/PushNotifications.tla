-------------------------- MODULE PushNotifications --------------------------
(***************************************************************************)
(* Push notifications of one task: the configurations that clients set, get*)
(* and delete while the task runs, and the notifications the request       *)
(* handler sends when it has stored an event.                              *)
(*                                                                         *)
(* The reader of the task's queue waits for every post of an event before  *)
(* it takes the next one.  A message/send that is interrupted notifies of  *)
(* its answer while a coroutine of its own goes on reading and notifying;  *)
(* a stream whose client leaves is read on without notifications.          *)
(* The agent may raise, the cleanup a message/send waits for before it     *)
(* notifies may fail, and so may the reading of the configurations.        *)
(*                                                                         *)
(* Events are numbered.  A notification tells of the task as it is when    *)
(* the post begins: by the number of the last event applied to the object. *)
(* A final Message has a number too, although it leaves the task as it is. *)
(* There is one request at work on the task, and one reader of its queue.  *)
(***************************************************************************)
EXTENDS Integers, Sequences, SequencesExt, FiniteSets

CONSTANTS
  Caller,     \* clients that change configurations
  Given,      \* the configurations they may set: an id, "" if it has none, and a url
  Stores,     \* the kinds of store, among "memory" and "database"
  Modes,      \* how the task was started, among "send" and "stream"
  MaxEvents,  \* bound on what the agent publishes
  MaxCalls,   \* bound on the calls of the clients
  MaxLost,    \* bound on the subscribers whose posts fail
  MaxFaults   \* bound on what else fails

ASSUME PushAssumption ==
  /\ Given \subseteq [id : {"", "own"}, url : STRING]
  /\ Stores \subseteq {"memory", "database"} /\ Modes \subseteq {"send", "stream"}
  /\ MaxEvents \in Nat \ {0} /\ MaxCalls \in Nat /\ MaxLost \in Nat /\ MaxFaults \in Nat

VARIABLES
  store, mode,
  kept,       \* the configurations, in the order of the store
  asked,      \* the call each client waits for
  seen,       \* what the first half of a database's set_info found
  told,       \* the last answer of each client
  calls,      \* how many calls were made
  published,  \* how many events the agent has published
  ended,      \* the last of them is final
  message,    \* and it is a Message
  applied,    \* the events the manager's task object has taken in
  saved,      \* those the stored task has
  by,         \* who reads the queue
  at,         \* where the reader is
  pass,       \* the round of notifications of each coroutine that sends them
  arrived,    \* what the subscriber of each configuration was told
  lost,       \* the configurations with a post that failed
  failed,     \* what else failed: "agent", "cleanup" or "fetch"
  online      \* whether the client of the stream is there

configVars == <<kept, asked, seen, told, calls>>
agentVars == <<published, ended, message>>
readerVars == <<agentVars, applied, saved, by, at>>
postVars == <<pass, arrived, lost>>
hereVars == <<online, failed>>
pushVars == <<store, mode, configVars, readerVars, postVars, hereVars>>

\* The id a configuration without one gets is the task's.
TaskId == "task"
Ids == {TaskId, "own"}

\* set_info of either store.
Named(cfg) == IF cfg.id = "" THEN [cfg EXCEPT !.id = TaskId] ELSE cfg

Config == {Named(g) : g \in Given}

Pusher == {"main", "rest"}

\* A round that is over; one that is under way tells of event base or later, and
\* has read its configurations (starting) or has posts on their way (posting).
NoPass == [phase |-> "off", base |-> 0, posts |-> {}]
Passes == [phase : {"off", "fetching", "starting", "posting"}, base : 0..MaxEvents,
           posts : SUBSET [cfg : Config, tells : 0..MaxEvents]]

IdsOf(cfgs) == {c.id : c \in cfgs}
KeptIds == IdsOf(Range(kept))

NoAnswer == [ok |-> TRUE, got |-> <<>>]

\* The configuration that came with the message is there before the agent runs.
PushInit ==
  /\ store \in Stores /\ mode \in Modes
  /\ kept \in {<<>>} \union {<<c>> : c \in Config}
  /\ asked = [p \in Caller |-> <<>>] /\ seen = [p \in Caller |-> <<>>]
  /\ told = [p \in Caller |-> NoAnswer] /\ calls = 0
  /\ published = 0 /\ ended = FALSE /\ message = FALSE /\ applied = 0 /\ saved = 0
  /\ by = "main" /\ at = "reading"
  /\ pass = [p \in Pusher |-> NoPass]
  /\ arrived = [i \in Ids |-> <<>>] /\ lost = {}
  /\ online = TRUE /\ failed = {}

-----------------------------------------------------------------------------
(* The configurations.                                                     *)

Unasked(p, ok, got) ==
  /\ asked[p] # <<>>
  /\ asked' = [asked EXCEPT ![p] = <<>>] /\ seen' = [seen EXCEPT ![p] = <<>>]
  /\ told' = [told EXCEPT ![p] = [ok |-> ok, got |-> got]]
  /\ UNCHANGED <<store, mode, calls, readerVars, postVars, hereVars>>

\* The handler answers TaskNotFoundError until the task is stored.
Ask(p) ==
  /\ saved > 0 /\ asked[p] = <<>> /\ calls < MaxCalls
  /\ \/ \E cfg \in Given : asked' = [asked EXCEPT ![p] = <<[op |-> "set", cfg |-> Named(cfg)]>>]
     \/ \E i \in IdsOf(Config) : asked' = [asked EXCEPT ![p] = <<[op |-> "delete", id |-> i]>>]
     \/ asked' = [asked EXCEPT ![p] = <<[op |-> "get"]>>]
  /\ told' = [told EXCEPT ![p] = NoAnswer]
  /\ calls' = calls + 1
  /\ UNCHANGED <<store, mode, kept, seen, readerVars, postVars, hereVars>>

Asks(p, op) == asked[p] # <<>> /\ asked[p][1].op = op

\* Lists are searched for the first configuration with an id; the rows of a
\* database have no two with the same one.
Without(i) == RemoveFirstMatch(kept, LAMBDA c : c.id = i)

\* Slip: the configuration of that id is not taken out.
SetBeside(p) ==
  /\ store = "memory" /\ Asks(p, "set")
  /\ kept' = Append(kept, asked[p][1].cfg)
  /\ Unasked(p, TRUE, <<>>)

\* The list in memory: what had the id goes, the new one comes last.
SetInMemory(p) ==
  /\ store = "memory" /\ Asks(p, "set")
  /\ LET cfg == asked[p][1].cfg
     IN kept' = Append(Without(cfg.id), cfg)
  /\ Unasked(p, TRUE, <<>>)

\* session.merge selects the row.  One that is as wanted needs no statement.
SetReads(p) ==
  /\ store = "database" /\ Asks(p, "set") /\ seen[p] = <<>>
  /\ LET cfg == asked[p][1].cfg
     IN IF cfg \in Range(kept) THEN Unasked(p, TRUE, <<>>)
        ELSE /\ seen' = [seen EXCEPT ![p] = <<cfg.id \in KeptIds>>]
             /\ UNCHANGED <<store, mode, asked, told, calls, readerVars, postVars, hereVars>>
  /\ UNCHANGED kept

\* It then inserts or updates what it found to be new or there: an insert fails
\* on the primary key if the row has come, an update if it has gone.
SetWrites(p) ==
  /\ store = "database" /\ Asks(p, "set") /\ seen[p] # <<>>
  /\ LET cfg == asked[p][1].cfg
     IN \/ /\ seen[p][1] /\ cfg.id \in KeptIds
           /\ kept' = [k \in DOMAIN kept |-> IF kept[k].id = cfg.id THEN cfg ELSE kept[k]]
           /\ Unasked(p, TRUE, <<>>)
        \/ /\ ~seen[p][1] /\ cfg.id \notin KeptIds
           /\ kept' = Append(kept, cfg)
           /\ Unasked(p, TRUE, <<>>)
        \/ /\ seen[p][1] # (cfg.id \in KeptIds)
           /\ Unasked(p, FALSE, <<>>) /\ UNCHANGED kept

Deletes(p) ==
  /\ Asks(p, "delete")
  /\ kept' = Without(asked[p][1].id)
  /\ Unasked(p, TRUE, <<>>)

\* The first one, whichever id was asked for; the rows come in any order.
Gets(p) ==
  /\ Asks(p, "get")
  /\ \/ /\ kept = <<>> /\ Unasked(p, FALSE, <<>>)
     \/ \E k \in DOMAIN kept :
          (store = "memory" => k = 1) /\ Unasked(p, TRUE, <<kept[k]>>)
  /\ UNCHANGED kept

ConfigStep(p) == SetInMemory(p) \/ SetReads(p) \/ SetWrites(p) \/ Deletes(p) \/ Gets(p)

-----------------------------------------------------------------------------
(* The reader of the queue.                                                *)

Publish ==
  /\ ~ended /\ published < MaxEvents /\ at \notin {"cleanup", "done"}
  /\ published' = published + 1 /\ ended' \in BOOLEAN
  /\ message' \in IF ended' THEN BOOLEAN ELSE {FALSE}
  /\ UNCHANGED <<store, mode, configVars, applied, saved, by, at, postVars, hereVars>>

FinalIs(n) == ended /\ n = published

Begins(p, n) == pass' = [pass EXCEPT ![p] = [phase |-> "fetching", base |-> n, posts |-> {}]]

Rests(n) == at' = IF FinalIs(n) THEN "done" ELSE "reading"

\* Once event n is stored: a stream and the continuation of an interrupted send
\* notify before the next event.  A send goes on to its cleanup at the final
\* event; at any other it may answer and notify, with the cleanup left to a
\* coroutine, if it does not block or needs authorisation.
Follows(n) ==
  \/ /\ by = IF mode = "stream" THEN "main" ELSE "rest"
     /\ at' = "pushing" /\ Begins(by, n) /\ UNCHANGED by
  \/ /\ by = "main" /\ mode = "send"
     /\ \/ ~FinalIs(n) /\ at' = "reading" /\ UNCHANGED <<by, pass>>
        \/ ~FinalIs(n) /\ by' = "rest" /\ at' = "reading" /\ Begins("main", n)
        \/ FinalIs(n) /\ at' = "cleanup" /\ UNCHANGED <<by, pass>>
  \/ /\ by = "quiet" /\ Rests(n) /\ UNCHANGED <<by, pass>>

\* There is an event to take, a Message or one of the task's.
Comes(isMessage) ==
  /\ at = "reading" /\ applied < published
  /\ isMessage <=> message /\ FinalIs(applied + 1)

\* Slip: a database is told of the event after the subscribers are.
TakeFirst ==
  /\ Comes(FALSE)
  /\ applied' = applied + 1
  /\ IF store = "memory" THEN saved' = applied + 1 ELSE UNCHANGED saved
  /\ Follows(applied + 1)
  /\ UNCHANGED <<store, mode, configVars, agentVars, arrived, lost, hereVars>>

\* TaskManager.process changes its object and saves it, in one step in memory.
Take ==
  /\ Comes(FALSE)
  /\ applied' = applied + 1
  /\ IF store = "memory" THEN saved' = applied + 1 /\ Follows(applied + 1)
     ELSE at' = "saving" /\ UNCHANGED <<saved, by, pass>>
  /\ UNCHANGED <<store, mode, configVars, agentVars, arrived, lost, hereVars>>

Save ==
  /\ at = "saving"
  /\ saved' = applied /\ Follows(applied)
  /\ UNCHANGED <<store, mode, configVars, agentVars, applied, arrived, lost, hereVars>>

\* process does nothing with a Message.  It is what a send answers, and then
\* nobody is notified; the other readers notify of the task, if there is one.
TakeMessage ==
  /\ Comes(TRUE)
  /\ IF applied = 0 THEN UNCHANGED <<applied, saved>>
     ELSE applied' = applied + 1 /\ saved' = IF saved = applied THEN applied + 1 ELSE saved
  /\ IF applied > 0 /\ by = IF mode = "stream" THEN "main" ELSE "rest"
     THEN at' = "pushing" /\ Begins(by, applied + 1)
     ELSE at' = "done" /\ UNCHANGED pass
  /\ UNCHANGED <<store, mode, configVars, agentVars, by, arrived, lost, hereVars>>

\* The agent has returned without a final event.
Stop ==
  /\ at = "reading" /\ applied = published /\ applied > 0
  /\ at' = IF mode = "send" /\ by = "main" THEN "cleanup" ELSE "done"
  /\ UNCHANGED <<store, mode, configVars, agentVars, applied, saved, by, postVars, hereVars>>

Fails(what) ==
  /\ failed' = failed \union {what} /\ Cardinality(failed') <= MaxFaults /\ UNCHANGED online

\* The reader raises what the agent raised, with the events that are left unread.
AgentRaises ==
  /\ at = "reading" /\ Fails("agent")
  /\ at' = "done"
  /\ UNCHANGED <<store, mode, configVars, agentVars, applied, saved, by, postVars>>

\* on_message_send waits for the agent and closes the queue before it notifies.
Cleanup ==
  /\ at = "cleanup"
  /\ at' = "done" /\ Begins("main", applied)
  /\ UNCHANGED <<store, mode, configVars, agentVars, applied, saved, by, arrived, lost, hereVars>>

\* The agent raised after its last event, or another request had closed the queue.
CleanupFails ==
  /\ at = "cleanup" /\ Fails("cleanup")
  /\ at' = "done"
  /\ UNCHANGED <<store, mode, configVars, agentVars, applied, saved, by, postVars>>

\* The client of the stream goes.  A round of notifications is cancelled with
\* it, a save may have landed; the queue is read on by consume_all.
Disconnect ==
  /\ online /\ mode = "stream" /\ by = "main" /\ at # "done"
  /\ online' = FALSE /\ by' = "quiet"
  /\ IF at = "reading" THEN UNCHANGED at ELSE Rests(applied)
  /\ saved' \in IF at = "saving" THEN {saved, applied} ELSE {saved}
  /\ pass' = [pass EXCEPT !["main"] = NoPass]
  /\ UNCHANGED <<store, mode, configVars, agentVars, applied, arrived, lost, failed>>

ReaderStep ==
  \/ Publish \/ Take \/ Save \/ TakeMessage \/ Stop \/ Cleanup \/ Disconnect
  \/ AgentRaises \/ CleanupFails

-----------------------------------------------------------------------------
(* BasePushNotificationSender.send_notification.                           *)

Fetch(p) ==
  /\ pass[p].phase = "fetching"
  /\ pass' = [pass EXCEPT ![p].phase = "starting",
                          ![p].posts = {[cfg |-> c, tells |-> 0] : c \in Range(kept)}]
  /\ UNCHANGED <<store, mode, configVars, readerVars, arrived, lost, hereVars>>

\* What get_info raises ends the send's answer, the stream or the continuation
\* that notified; who read the queue does so no more.
FetchFails(p) ==
  /\ pass[p].phase = "fetching" /\ Fails("fetch")
  /\ pass' = [pass EXCEPT ![p] = NoPass]
  /\ at' = IF at = "pushing" /\ by = p THEN "done" ELSE at
  /\ UNCHANGED <<store, mode, configVars, agentVars, applied, saved, by, arrived, lost>>

\* The posts start together and write the task out as it is by now: a Task
\* event of the agent may have replaced the object, any other has changed it.
Dispatch(p) ==
  /\ pass[p].phase = "starting"
  /\ \E v \in pass[p].base..applied :
       pass' = [pass EXCEPT ![p].phase = "posting",
                            ![p].posts = {[cfg |-> post.cfg, tells |-> v] : post \in @}]
  /\ UNCHANGED <<store, mode, configVars, readerVars, arrived, lost, hereVars>>

\* Slip: a post is made again when its answer does not come.
ArrivesAgain(p) ==
  /\ pass[p].phase = "posting"
  /\ \E post \in pass[p].posts :
       /\ pass' \in {pass, [pass EXCEPT ![p].posts = @ \ {post}]}
       /\ arrived' = [arrived EXCEPT ![post.cfg.id] = Append(@, post.tells)]
  /\ UNCHANGED <<store, mode, configVars, readerVars, lost, hereVars>>

Arrives(p) ==
  /\ pass[p].phase = "posting"
  /\ \E post \in pass[p].posts :
       /\ pass' = [pass EXCEPT ![p].posts = @ \ {post}]
       /\ arrived' = [arrived EXCEPT ![post.cfg.id] = Append(@, post.tells)]
  /\ UNCHANGED <<store, mode, configVars, readerVars, lost, hereVars>>

\* Slip: the first post that fails ends the round.
LostEndsRound(p) ==
  /\ pass[p].phase = "posting"
  /\ \E post \in pass[p].posts :
       /\ lost' = lost \union {post.cfg.id} /\ Cardinality(lost') <= MaxLost
       /\ pass' = [pass EXCEPT ![p].posts = {}]
  /\ UNCHANGED <<store, mode, configVars, readerVars, arrived, hereVars>>

\* A post that fails is logged; the others are waited for.
Lost(p) ==
  /\ pass[p].phase = "posting"
  /\ \E post \in pass[p].posts :
       /\ lost' = lost \union {post.cfg.id} /\ Cardinality(lost') <= MaxLost
       /\ pass' = [pass EXCEPT ![p].posts = @ \ {post}]
  /\ UNCHANGED <<store, mode, configVars, readerVars, arrived, hereVars>>

\* The reader goes on, or the send answers.
Over(p) ==
  /\ pass[p].phase = "posting" /\ pass[p].posts = {}
  /\ pass' = [pass EXCEPT ![p] = NoPass]
  /\ IF at = "pushing" /\ by = p THEN Rests(applied) ELSE UNCHANGED at
  /\ UNCHANGED <<store, mode, configVars, agentVars, applied, saved, by, arrived, lost, hereVars>>

PassStep(p) == Fetch(p) \/ FetchFails(p) \/ Dispatch(p) \/ Arrives(p) \/ Lost(p) \/ Over(p)

PushNext ==
  \/ \E p \in Caller : Ask(p) \/ ConfigStep(p)
  \/ ReaderStep
  \/ \E p \in Pusher : PassStep(p)

\* Coroutines that can go on do; a post ends, if only by the client's timeout,
\* and so does an agent that has published its last event.
PushSpec ==
  /\ PushInit /\ [][PushNext]_pushVars
  /\ WF_pushVars(Take \/ Save \/ Cleanup)
  /\ \A p \in Pusher : WF_pushVars(PassStep(p))

-----------------------------------------------------------------------------
(* Properties.                                                             *)

\* Every variable keeps its shape, nothing is stored before it is applied or
\* applied before it is published, and only coroutines that are there notify.
PushTypeOK ==
  /\ Range(kept) \subseteq Config
  /\ \A p \in Caller : Len(asked[p]) <= 1 /\ seen[p] \in {<<>>, <<TRUE>>, <<FALSE>>}
  /\ published \in 0..MaxEvents /\ ended \in BOOLEAN /\ message \in BOOLEAN
  /\ applied \in 0..published /\ saved \in 0..applied
  /\ by \in {"main", "rest", "quiet"} /\ at \in {"reading", "saving", "pushing", "cleanup", "done"}
  /\ pass \in [Pusher -> Passes] /\ (by # "rest" => pass["rest"] = NoPass)
  /\ \A p \in Pusher : \A post \in pass[p].posts : post.tells <= applied
  /\ \A i \in Ids : arrived[i] \in Seq(1..published)
  /\ lost \subseteq Ids /\ failed \subseteq {"agent", "cleanup", "fetch"}

Increasing(s) == \A k, l \in DOMAIN s : k < l => s[k] < s[l]

\* A subscriber is told of the events in their order, of each once, whatever is
\* done to the configurations meanwhile.  Only the answer of a message/send that
\* was interrupted may tell it of an event once more, and late.
NotifiedInOrder ==
  \A i \in Ids :
    \/ Increasing(arrived[i])
    \/ by = "rest" /\ \E k \in DOMAIN arrived[i] : Increasing(RemoveAt(arrived[i], k))

\* What a subscriber is told of can be got by tasks/get: it is stored.  (With a
\* database the answer of an interrupted send may tell of the event that its
\* continuation is about to store.)
NotifiedIsSaved ==
  (store = "memory" \/ by # "rest") =>
    \A i \in Ids : \A k \in DOMAIN arrived[i] : arrived[i][k] <= saved

Told(i, n) == \E k \in DOMAIN arrived[i] : arrived[i][k] = n

\* A final event of the task that is still to be taken in.
EndComes == ended /\ ~message /\ applied < published

\* A subscriber that is there when the final event comes is told of it in the
\* end, whichever of the others fail: unless a post to it fails itself, its
\* configuration is deleted or the client of the stream has left, or one of
\* three failed: the agent, the cleanup of a message/send, or the reading of the
\* configurations.
EndIsTold ==
  \A i \in Ids :
    (EndComes /\ i \in KeptIds)
      ~> (Told(i, published) \/ i \in lost \/ i \notin KeptIds \/ ~online \/ failed # {})

\* Either store keeps the promise of a store of configurations.
Abstract == INSTANCE ConfigStore WITH kept <- Range(kept)
IsConfigStore == Abstract!Spec

\* "Configuration for the agent to send push notifications for updates after the
\* initial response" (MessageSendConfiguration): also when the client has left.
UpdatesAreTold ==
  \A i \in Ids :
    (EndComes /\ i \in KeptIds)
      ~> (Told(i, published) \/ i \in lost \/ i \notin KeptIds \/ failed # {})

\* The final event is notified of although the agent raises after it, or another
\* request has closed the queue.
CleanupIsNoMatter ==
  \A i \in Ids :
    (EndComes /\ i \in KeptIds)
      ~> (Told(i, published) \/ i \in lost \/ i \notin KeptIds \/ ~online
          \/ failed \intersect {"agent", "fetch"} # {})

\* What notifies does not keep events from being stored.
EndIsStored == EndComes ~> (saved = published \/ "agent" \in failed)
=============================================================================
