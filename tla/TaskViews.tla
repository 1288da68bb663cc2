------------------------------ MODULE TaskViews ------------------------------
(***************************************************************************)
(* What becomes of the events of one task: the agent publishes them through*)
(* a TaskUpdater, the TaskManager of each reader of the queue applies them *)
(* to its copy of the task and saves the copy, and the ClientTaskManager of*)
(* a streaming client applies them once more to what it receives.          *)
(*                                                                         *)
(* Objects are kept apart from values.  The in-memory store keeps the very *)
(* object it is given and hands it out again; the database keeps a copy in *)
(* its row.  Artifacts enter a task by reference from the event that       *)
(* brought them, so that appending to an artifact extends the parts of an  *)
(* earlier event, which another reader may not have read yet.              *)
(*                                                                         *)
(* The in-memory store never suspends its caller: an event is taken, and   *)
(* applied in one step.  With a database each access is an await.          *)
(***************************************************************************)
EXTENDS Integers, Sequences, SequencesExt

CONSTANTS
  Stores,        \* the kinds of task store, among "memory" and "database"
  ArtifactIds,   \* the artifacts of the task
  MaxEarlier,    \* how many artifacts an earlier turn left at most
  MaxEvents,     \* bound on what the agent publishes
  MaxTapped      \* the same when a second reader resubscribes, 0 for no such reader

ASSUME TaskAssumption ==
  /\ Stores \subseteq {"memory", "database"}
  /\ MaxEarlier \in Nat /\ MaxEvents \in Nat \ {0} /\ MaxTapped \in 0..MaxEvents

VARIABLES
  store,    \* the kind of store of this server
  turn,     \* the message starts a task, or goes on with one that has artifacts
  events,   \* what the agent has put on the queue
  latched,  \* _terminal_state_reached of the updater
  putting,  \* the status update that holds the updater's lock, if any
  closed,   \* the handler's queue and its tap are closed and cleared
  pc,       \* where each reader is
  from,     \* the first event the tap receives
  hand,     \* the event each reader has in hand, or had last
  cur,      \* _current_task of each TaskManager: an object, or None
  heap,     \* the tasks that are in memory, and the row of the database
  shelf,    \* what the store holds: an object, or None
  parts,    \* the parts of the artifact object each event carries
  online,   \* whether the first client is still connected
  cut,      \* the event in hand when the client disconnected, or 0
  sent      \* what went to the first client

recordVars == <<cur, heap, shelf, parts>>
agentVars == <<events, latched, putting>>
taskVars == <<store, turn, agentVars, closed, pc, from, hand, recordVars, online, cut, sent>>

View == {"main", "tap"}
\* The objects: the task an event carries, by the event; the row of the database;
\* the task a manager made or read, by the manager.
None == 0
Row == -1
Own(v) == IF v = "main" THEN -2 ELSE -3
Obj == {Row} \union {Own(v) : v \in View} \union (1..MaxEvents)

\* Messages are known by the event that brought them; these came before.
UserMessage == -1
AgentQuestion == -2
FollowUp == -3

Working == "working"
Completed == "completed"

StatusEvents == [kind : {"status"}, state : {Working, Completed}, msg : BOOLEAN]
ArtifactEvents == [kind : {"artifact"}, id : ArtifactIds, append : BOOLEAN]
\* A Task object, and an event that names another task.
OtherEvents == [kind : {"task"}, msg : BOOLEAN] \union {[kind |-> "foreign"]}
TaskEvents == StatusEvents \union ArtifactEvents \union OtherEvents

Final(i) == events[i].kind = "status" /\ events[i].state = Completed

TaskOf(state, msg, history) ==
  [state |-> state, msg |-> msg, history |-> history, artifacts |-> <<>>]

\* An artifact of a task: the event whose object it is, or 0 and parts of its own.
ArtifactOf(id, ref, own) == [id |-> id, ref |-> ref, parts |-> own]

\* _init_task_obj: only the manager of the message knows the message.
Fresh(v) == TaskOf("submitted", 0, IF v = "main" THEN <<UserMessage>> ELSE <<>>)

Snapshot(i) == TaskOf("submitted", IF events'[i].msg THEN i ELSE 0, <<UserMessage>>)

\* TaskManager.update_with_message: the message of the status moves to the
\* history, the new one follows.
WithMessage(t, m) ==
  [t EXCEPT !.history = (IF t.msg = 0 THEN t.history ELSE Append(t.history, t.msg)) \o <<m>>,
            !.msg = 0]

\* A turn that goes on with a task finds the artifacts that earlier turns left.
Turns ==
  {[new |-> TRUE, kept |-> <<>>]} \union
  {[new |-> FALSE, kept |-> ids] :
     ids \in {s \in UNION {[1..k -> ArtifactIds] : k \in 0..MaxEarlier} :
               \A j, k \in DOMAIN s : s[j] = s[k] => j = k}}

\* Parts, too, are known by the event that brought them; these came before.
Earlier == 0
Asked ==
  [TaskOf("input_required", AgentQuestion, <<UserMessage>>) EXCEPT
     !.artifacts = [k \in DOMAIN turn.kept |-> ArtifactOf(turn.kept[k], 0, <<Earlier>>)]]

\* The handler has read the task of a follow-up and added the message to it; a
\* new task is not in the store yet.
TaskInit ==
  /\ store \in Stores /\ turn \in Turns
  /\ events = <<>> /\ latched = FALSE /\ putting = <<>> /\ closed = FALSE
  /\ pc = [v \in View |-> IF v = "main" THEN "ready" ELSE "off"]
  /\ from = 0 /\ hand = [v \in View |-> 0]
  /\ parts = [i \in 1..MaxEvents |-> <<i>>]
  /\ online = TRUE /\ cut = 0 /\ sent = <<>>
  /\ LET blank == [o \in Obj |-> TaskOf("submitted", 0, <<>>)]
         own == IF store = "memory" THEN Row ELSE Own("main")
     IN IF turn.new
          THEN heap = blank /\ shelf = None /\ cur = [v \in View |-> None]
          ELSE /\ heap = [blank EXCEPT ![Row] = Asked, ![own] = WithMessage(Asked, FollowUp)]
               /\ shelf = Row /\ cur = [v \in View |-> IF v = "main" THEN own ELSE None]

-----------------------------------------------------------------------------
(* The agent: TaskUpdater.                                                 *)

\* enqueue_event drops what comes after the queue is closed.
Enqueue(e) ==
  IF closed THEN UNCHANGED <<events, heap>>
  ELSE /\ events' = Append(events, e)
       /\ heap' = IF e.kind = "task"
                    THEN [heap EXCEPT ![Len(events) + 1] = Snapshot(Len(events) + 1)]
                    ELSE heap

RoomLeft == Len(events) + Len(putting) < IF from = 0 THEN MaxEvents ELSE MaxTapped

\* Slip: the latch is not looked at.
UpdateStatusAgain(state, msg) ==
  /\ RoomLeft /\ putting = <<>>
  /\ latched' = (latched \/ state = Completed)
  /\ putting' = <<[kind |-> "status", state |-> state, msg |-> msg]>>
  /\ UNCHANGED <<store, turn, events, closed, pc, from, hand, recordVars, online, cut, sent>>

\* update_status raises once a terminal state was announced; it takes the lock
\* and sets the latch before the event is on the queue.
UpdateStatus(state, msg) ==
  /\ RoomLeft /\ putting = <<>> /\ ~latched
  /\ latched' = (state = Completed)
  /\ putting' = <<[kind |-> "status", state |-> state, msg |-> msg]>>
  /\ UNCHANGED <<store, turn, events, closed, pc, from, hand, recordVars, online, cut, sent>>

\* The put succeeds, or the coroutine is cancelled while it waits for room.
StatusPut ==
  /\ putting # <<>> /\ putting' = <<>>
  /\ Enqueue(putting[1])
  /\ UNCHANGED <<store, turn, latched, closed, pc, from, hand, cur, shelf, parts, online, cut,
                 sent>>

StatusCancelled ==
  /\ putting # <<>> /\ putting' = <<>>
  /\ UNCHANGED <<store, turn, events, latched, closed, pc, from, hand, recordVars, online, cut,
                 sent>>

\* add_artifact takes no lock and looks at no latch; agents put Task objects on
\* the queue themselves.
Publish(e) ==
  /\ RoomLeft
  /\ Enqueue(e)
  /\ UNCHANGED <<store, turn, latched, putting, closed, pc, from, hand, cur, shelf, parts,
                 online, cut, sent>>

-----------------------------------------------------------------------------
(* TaskManager.save_task_event on an object of the heap.                   *)

World == [cur |-> cur, heap |-> heap, shelf |-> shelf, parts |-> parts]
Becomes(w) == cur' = w.cur /\ heap' = w.heap /\ shelf' = w.shelf /\ parts' = w.parts

PartsOf(a, ps) == IF a.ref = 0 THEN a.parts ELSE ps[a.ref]

\* What a database, a wire or a reader makes of a task: a value of its own.
Copy(t, ps) ==
  [t EXCEPT !.artifacts =
     [k \in DOMAIN t.artifacts |-> ArtifactOf(t.artifacts[k].id, 0, PartsOf(t.artifacts[k], ps))]]

Find(artifacts, id) == SelectInSeq(artifacts, LAMBDA a : a.id = id)

\* Slip: the message of the status that is replaced is not kept.
WithStatusOnly(t, i) ==
  [t EXCEPT !.msg = IF events[i].msg THEN i ELSE 0, !.state = events[i].state]

\* The message of the status that is replaced moves to the history.
WithStatus(t, i) ==
  [t EXCEPT !.history = IF t.msg = 0 THEN @ ELSE Append(@, t.msg),
            !.msg = IF events[i].msg THEN i ELSE 0,
            !.state = events[i].state]

\* append_artifact_to_task: a first chunk replaces the artifact or adds it, a
\* later one extends the parts of the object that is there, if one is.
WithArtifact(w, o, i) ==
  LET t == w.heap[o]
      k == Find(t.artifacts, events[i].id)
      held == ArtifactOf(events[i].id, i, <<>>)
  IN IF ~events[i].append
       THEN IF k = 0 THEN [w EXCEPT !.heap[o].artifacts = Append(@, held)]
                     ELSE [w EXCEPT !.heap[o].artifacts[k] = held]
     ELSE IF k = 0 THEN w
     ELSE IF t.artifacts[k].ref = 0
       THEN [w EXCEPT !.heap[o].artifacts[k].parts = @ \o w.parts[i]]
     ELSE [w EXCEPT !.parts[t.artifacts[k].ref] = @ \o w.parts[i]]

Absorb(w, o, i) ==
  IF events[i].kind = "status" THEN [w EXCEPT !.heap[o] = WithStatus(@, i)]
  ELSE WithArtifact(w, o, i)

\* The store's side of a save, ...
Stored(w, o) ==
  IF store = "memory" THEN [w EXCEPT !.shelf = o]
  ELSE [w EXCEPT !.shelf = Row, !.heap[Row] = Copy(w.heap[o], w.parts)]

\* ... and _save_task, which also makes the object the manager's.
Saved(w, v, o) == [Stored(w, o) EXCEPT !.cur[v] = o]

\* ensure_task finds the task, or makes it and saves it.
Found(w, v) ==
  [w EXCEPT !.heap[Own(v)] = Copy(w.heap[Row], w.parts)]
Made(w, v) == [w EXCEPT !.heap[Own(v)] = Fresh(v)]

\* The object reader v saves at the end: the event's own, or the manager's, or
\* the one it made for lack of any.
Target(v) == IF events[hand[v]].kind = "task" THEN hand[v]
             ELSE IF cur[v] # None THEN cur[v] ELSE Own(v)

-----------------------------------------------------------------------------
(* The readers: EventConsumer.consume_all and consume_and_emit.            *)

\* A tap receives what is published from now on.
Resubscribe ==
  /\ Len(events) + Len(putting) <= MaxTapped /\ pc["tap"] = "off" /\ ~closed
  /\ shelf # None /\ heap[shelf].state # Completed
  /\ pc' = [pc EXCEPT !["tap"] = "ready"]
  /\ from' = Len(events) + 1
  /\ hand' = [hand EXCEPT !["tap"] = Len(events)]
  /\ UNCHANGED <<store, turn, agentVars, closed, recordVars, online, cut, sent>>

\* The consumer of the handler's queue closes and clears it and the tap when it
\* takes the final event, before the event is stored.
Takes(v) ==
  /\ pc[v] \in {"ready", "strayed"} /\ hand[v] < Len(events)
  /\ v = "tap" => ~closed
  /\ hand' = [hand EXCEPT ![v] = @ + 1]
  /\ closed' = (closed \/ (v = "main" /\ Final(hand[v] + 1)))

\* An event of another task: save_task_event raises.  But the manager of a new task
\* has no id before its first event and takes over the one it finds there: it stores
\* that other task, and raises at an event of its own.
Unnamed(v) == v = "main" /\ turn.new /\ hand[v] = 0
TakeForeign(v) ==
  /\ Takes(v)
  /\ LET foreign == events[hand'[v]].kind = "foreign" IN
     /\ foreign \/ pc[v] = "strayed"
     /\ pc' = [pc EXCEPT ![v] = IF foreign /\ (pc[v] = "strayed" \/ Unnamed(v))
                                 THEN "strayed" ELSE "failed"]
  /\ UNCHANGED <<store, turn, agentVars, from, recordVars, online, cut, sent>>

\* In memory nothing is awaited between the queue and the yield.
TakeInMemory(v) ==
  /\ store = "memory" /\ pc[v] = "ready" /\ Takes(v)
  /\ LET i == hand'[v]
         first == cur[v] = None
         o == IF ~first THEN cur[v] ELSE IF shelf # None THEN shelf ELSE Own(v)
         w == IF first /\ shelf = None THEN Saved(Made(World, v), v, o) ELSE World
     IN /\ events[i].kind # "foreign"
        /\ Becomes(IF events[i].kind = "task" THEN Saved(World, v, i)
                   ELSE Saved(Absorb(w, o, i), v, o))
  /\ pc' = [pc EXCEPT ![v] = "yielding"]
  /\ UNCHANGED <<store, turn, agentVars, from, online, cut, sent>>

\* With a database the manager's own task changes before the first await; a
\* manager that has none reads the store.
TakeToDatabase(v) ==
  /\ store = "database" /\ pc[v] = "ready" /\ Takes(v)
  /\ LET i == hand'[v] IN
     \/ /\ events[i].kind = "task"
        /\ pc' = [pc EXCEPT ![v] = "saving"] /\ UNCHANGED recordVars
     \/ /\ events[i].kind \notin {"task", "foreign"} /\ cur[v] # None
        /\ Becomes(Absorb(World, cur[v], i))
        /\ pc' = [pc EXCEPT ![v] = "saving"]
     \/ /\ events[i].kind \notin {"task", "foreign"} /\ cur[v] = None
        /\ pc' = [pc EXCEPT ![v] = "loading"] /\ UNCHANGED recordVars
  /\ UNCHANGED <<store, turn, agentVars, from, online, cut, sent>>

\* Slip: a task that is not in the store is waited for.
LoadKnown(v) ==
  /\ pc[v] = "loading" /\ shelf # None
  /\ Becomes(Absorb(Found(World, v), Own(v), hand[v]))
  /\ pc' = [pc EXCEPT ![v] = "saving"]
  /\ UNCHANGED <<store, turn, agentVars, closed, from, hand, online, cut, sent>>

Load(v) ==
  /\ pc[v] = "loading"
  /\ \/ /\ shelf # None
        /\ Becomes(Absorb(Found(World, v), Own(v), hand[v]))
        /\ pc' = [pc EXCEPT ![v] = "saving"]
     \/ /\ shelf = None
        /\ Becomes(Made(World, v))
        /\ pc' = [pc EXCEPT ![v] = "creating"]
  /\ UNCHANGED <<store, turn, agentVars, closed, from, hand, online, cut, sent>>

\* The new task is saved, then the event is applied to it.
Create(v) ==
  /\ pc[v] = "creating"
  /\ Becomes(Absorb(Saved(World, v, Own(v)), Own(v), hand[v]))
  /\ pc' = [pc EXCEPT ![v] = "saving"]
  /\ UNCHANGED <<store, turn, agentVars, closed, from, hand, online, cut, sent>>

Save(v) ==
  /\ pc[v] = "saving"
  /\ Becomes(Saved(World, v, Target(v)))
  /\ pc' = [pc EXCEPT ![v] = "yielding"]
  /\ UNCHANGED <<store, turn, agentVars, closed, from, hand, online, cut, sent>>

\* What a client is sent is the event as it is at that moment: a notification
\* may have been awaited since the event was applied.
OnTheWire(i) ==
  [i |-> i,
   parts |-> IF events[i].kind = "artifact" THEN parts[i] ELSE <<>>,
   task |-> IF events[i].kind = "task" THEN Copy(heap[i], parts) ELSE Asked]

AfterEvent(v) == IF Final(hand[v]) THEN "done" ELSE "ready"

Yield(v) ==
  /\ pc[v] = "yielding"
  /\ sent' = IF v = "main" /\ online THEN Append(sent, OnTheWire(hand[v])) ELSE sent
  /\ pc' = [pc EXCEPT ![v] = AfterEvent(v)]
  /\ UNCHANGED <<store, turn, agentVars, closed, from, hand, recordVars, online, cut>>

\* A tap that was cleared finds its queue closed.
TapEnds ==
  /\ pc["tap"] = "ready" /\ closed
  /\ pc' = [pc EXCEPT !["tap"] = "done"]
  /\ UNCHANGED <<store, turn, agentVars, closed, from, hand, recordVars, online, cut, sent>>

\* The first client goes: the stream is cancelled at its await, and a task of
\* its own goes on with the same manager and consumer.  A save may have landed.
Disconnect ==
  /\ online /\ online' = FALSE
  /\ \/ /\ pc["main"] \in {"ready", "strayed"} /\ UNCHANGED <<pc, cut, recordVars>>
     \/ /\ pc["main"] = "yielding"
        /\ pc' = [pc EXCEPT !["main"] = AfterEvent("main")]
        /\ UNCHANGED <<cut, recordVars>>
     \/ /\ pc["main"] \in {"loading", "creating", "saving"}
        /\ pc' = [pc EXCEPT !["main"] = AfterEvent("main")]
        /\ cut' = hand["main"]
        /\ \/ UNCHANGED recordVars
           \/ /\ pc["main"] # "loading"
              /\ Becomes(Stored(World, Target("main")))
  /\ UNCHANGED <<store, turn, agentVars, closed, from, hand, sent>>

AgentStep ==
  \/ \E state \in {Working, Completed}, msg \in BOOLEAN : UpdateStatus(state, msg)
  \/ StatusPut \/ StatusCancelled
  \/ \E e \in ArtifactEvents \union OtherEvents : Publish(e)

ReaderStep(v) ==
  \/ TakeForeign(v) \/ TakeInMemory(v) \/ TakeToDatabase(v)
  \/ Load(v) \/ Create(v) \/ Save(v) \/ Yield(v)

TaskNext ==
  \/ AgentStep
  \/ \E v \in View : ReaderStep(v)
  \/ Resubscribe \/ TapEnds \/ Disconnect

\* The tasks of the event loop run; agents and clients do as they like.
TaskSpec ==
  /\ TaskInit /\ [][TaskNext]_taskVars
  /\ \A v \in View : WF_taskVars(ReaderStep(v))

-----------------------------------------------------------------------------
(* ClientTaskManager: the task a client puts together from what it is sent.*)

\* Slip: a chunk that appends to nothing starts the artifact.
ClientChunkStarts(artifacts, id, append, ps) ==
  LET k == Find(artifacts, id) IN
  IF k = 0 THEN Append(artifacts, ArtifactOf(id, 0, ps))
  ELSE [artifacts EXCEPT ![k].parts = IF append THEN @ \o ps ELSE ps]

ClientChunk(artifacts, id, append, ps) ==
  LET k == Find(artifacts, id) IN
  IF ~append
    THEN IF k = 0 THEN Append(artifacts, ArtifactOf(id, 0, ps))
                  ELSE [artifacts EXCEPT ![k].parts = ps]
  ELSE IF k = 0 THEN artifacts
  ELSE [artifacts EXCEPT ![k].parts = @ \o ps]

\* Nothing was received: a status or an artifact will start a task in state
\* unknown.
NoView == [task |-> TaskOf("unknown", 0, <<>>), some |-> FALSE, ok |-> TRUE]

\* Slip: as on the server, the message of the status that is replaced is kept.
ClientReceivesLate(view, m) ==
  LET e == events[m.i] t == view.task IN
  CASE e.kind = "task" ->
         [task |-> IF view.some THEN t ELSE m.task, some |-> TRUE, ok |-> view.ok /\ ~view.some]
    [] e.kind = "status" ->
         [view EXCEPT !.some = TRUE,
                      !.task.history = IF t.msg # 0 THEN Append(@, t.msg) ELSE @,
                      !.task.msg = IF e.msg THEN m.i ELSE 0,
                      !.task.state = e.state]
    [] OTHER ->
         [view EXCEPT !.some = TRUE,
                      !.task.artifacts = ClientChunk(@, e.id, e.append, m.parts)]

\* The message of a status is kept as it comes; a second Task is refused.
ClientReceives(view, m) ==
  LET e == events[m.i] t == view.task IN
  CASE e.kind = "task" ->
         [task |-> IF view.some THEN t ELSE m.task, some |-> TRUE, ok |-> view.ok /\ ~view.some]
    [] e.kind = "status" ->
         [view EXCEPT !.some = TRUE,
                      !.task.history = IF e.msg THEN Append(@, m.i) ELSE @,
                      !.task.msg = IF e.msg THEN m.i ELSE 0,
                      !.task.state = e.state]
    [] OTHER ->
         [view EXCEPT !.some = TRUE,
                      !.task.artifacts = ClientChunk(@, e.id, e.append, m.parts)]

ClientView ==
  LET view[k \in 0..Len(sent)] ==
        IF k = 0 THEN NoView ELSE ClientReceives(view[k - 1], sent[k])
  IN view[Len(sent)]

-----------------------------------------------------------------------------
(* Reference: the task that the first n events tell of, if those in D are  *)
(* lost.                                                                   *)

\* The numbers in S up to n, in their order.
InOrder(S, n) ==
  LET upto[k \in 0..n] ==
        IF k = 0 THEN <<>> ELSE IF k \in S THEN Append(upto[k - 1], k) ELSE upto[k - 1]
  IN upto[n]

\* A Task object starts everything afresh: what counts is the last one and what
\* comes after it.
Tasks(n, D) == {i \in (1..n) \ D : events[i].kind = "task"}
Counts(n, D) == {i \in (1..n) \ D : \A j \in Tasks(n, D) : j <= i}

\* The chunks of an artifact, and those that begin it or begin it anew.
Chunks(n, D, id) == {i \in Counts(n, D) : events[i].kind = "artifact" /\ events[i].id = id}
Firsts(n, D, id) == {i \in Chunks(n, D, id) : ~events[i].append}

\* The artifacts: the old ones, then the others in the order they were begun, each
\* with its chunks from where it was begun last.
Openings(n, D, old) ==
  {i \in Counts(n, D) : /\ events[i].kind = "artifact" /\ ~events[i].append
                        /\ \A j \in Firsts(n, D, events[i].id) : i <= j
                        /\ \A k \in DOMAIN old : old[k] # events[i].id}
Ids(n, D, old) ==
  LET order == InOrder(Openings(n, D, old), n)
  IN old \o [k \in DOMAIN order |-> events[order[k]].id]
Content(n, D, id) == {i \in Chunks(n, D, id) : \A j \in Firsts(n, D, id) : j <= i}
Text(n, D, old, id) ==
  (IF Firsts(n, D, id) = {} /\ \E k \in DOMAIN old : old[k] = id THEN <<Earlier>> ELSE <<>>)
    \o InOrder(Content(n, D, id), n)
LogArtifacts(n, D, old) ==
  LET ids == Ids(n, D, old)
  IN [k \in DOMAIN ids |-> ArtifactOf(ids[k], 0, Text(n, D, old, ids[k]))]

\* Each status is replaced by the next, and its message is history then.
Spoken(n, D) == {i \in Counts(n, D) : events[i].kind \in {"status", "task"}}
Latest(n, D) == IF Spoken(n, D) = {} THEN 0 ELSE Max(Spoken(n, D))
Replaced(n, D) == {i \in Spoken(n, D) : events[i].msg /\ i # Latest(n, D)}

Log(n, D) ==
  LET last == Latest(n, D)
      start == IF turn.new \/ Tasks(n, D) # {} THEN Fresh("main")
               ELSE WithMessage(Asked, FollowUp)
      kept == IF Tasks(n, D) # {} THEN <<>> ELSE turn.kept
  IN [state |-> IF last # 0 /\ events[last].kind = "status" THEN events[last].state
                ELSE start.state,
      msg |-> IF last # 0 /\ events[last].msg THEN last ELSE 0,
      history |-> start.history \o InOrder(Replaced(n, D), n),
      artifacts |-> LogArtifacts(n, D, kept)]

-----------------------------------------------------------------------------
(* Properties.                                                             *)

StoredTask == Copy(heap[shelf], parts)
Between(v) == pc[v] \in {"ready", "yielding", "done"}
OneManager == from = 0

TaskValues == [state : {"submitted", "input_required", Working, Completed},
               msg : -3..MaxEvents, history : Seq(-3..MaxEvents),
               artifacts : Seq([id : ArtifactIds, ref : 0..MaxEvents, parts : Seq(0..MaxEvents)])]

\* Every variable keeps its shape, and no reader is ahead of the agent.
TaskTypeOK ==
  /\ events \in Seq(TaskEvents) /\ putting \in Seq(StatusEvents)
  /\ Len(events) + Len(putting) <= MaxEvents
  /\ \A v \in View : hand[v] \in 0..Len(events) /\ cur[v] \in Obj \union {None}
  /\ \A o \in Obj : heap[o] \in TaskValues
  /\ shelf \in Obj \union {None}
  /\ (shelf # None /\ store = "database") => shelf = Row
  /\ \A i \in 1..MaxEvents : parts[i] \in Seq(0..MaxEvents)

\* As long as one TaskManager reads the queue, the stored task is what its
\* events tell: every status message once, in order, every artifact with its
\* chunks in order.  A disconnect in the midst of a save loses that event at
\* most, and the message of a follow-up if it was the first.
StoredIsLog ==
  OneManager /\ Between("main") /\ hand["main"] > 0 /\ shelf # None =>
    \/ StoredTask \in {Log(hand["main"], {}), Log(hand["main"], {cut})}
    \/ ~turn.new /\ cut = 1 /\ hand["main"] = 1 /\ StoredTask = Asked

\* The task the client puts together by itself has the state of the stored one at
\* that event once an event told it one, and exactly the artifacts that this turn
\* began, with the same parts (append_artifact_to_task runs on both sides, on objects
\* the server goes on changing).  What earlier turns left it has not, nor what was
\* appended to that: its ClientTaskManager is new with each send.
ClientAgrees ==
  LET view == ClientView.task n == Len(sent) log == Log(n, {}) IN
  OneManager /\ ClientView.ok /\ sent # <<>> =>
    /\ view.state = IF Spoken(n, {}) = {} THEN "unknown" ELSE log.state
    /\ Range(view.artifacts) = {a \in Range(log.artifacts) : Firsts(n, {}, a.id) # {}}
    /\ turn.kept = <<>> => view.artifacts = log.artifacts

\* The client has the message of every status event it was sent once and in
\* order, whoever else reads and saves: also the one the server still keeps in
\* the status.  (A Task object is sent as the other managers left it.)
ClientKeepsMessages ==
  LET n == Len(sent) IN
  ClientView.ok /\ (OneManager \/ Tasks(n, {}) = {}) =>
    \E before \in {<<>>, <<UserMessage>>} :
      ClientView.task.history =
        before \o InOrder({i \in 1..n : events[i].kind = "status" /\ events[i].msg}, n)

\* After a terminal status the updater publishes no status any more, whichever
\* puts are still on their way or were cancelled.
TerminalIsLast ==
  \A i \in DOMAIN events : Final(i) =>
    \A j \in DOMAIN events : j > i => events[j].kind # "status"

\* A terminal event that is on the queue is stored in the end, although the
\* queue is closed and cleared before it is: unless the client leaves during
\* that save, another manager overwrites it, or an event before it is refused.
TerminalIsStored ==
  (\E i \in DOMAIN events : Final(i)) ~>
    \/ shelf # None /\ heap[shelf].state = Completed
    \/ cut # 0 \/ ~OneManager \/ pc["main"] = "failed"

\* Client and server share append_artifact_to_task: a client that was sent every event
\* of a turn has the artifacts that are stored.
ClientHasArtifacts ==
  OneManager /\ ClientView.ok /\ sent # <<>> =>
    ClientView.task.artifacts = Log(Len(sent), {}).artifacts

\* "Client disconnected: continue consuming and persisting events in the
\* background" (on_message_send_stream): also the event it has in hand.
DisconnectPersists ==
  OneManager /\ pc["main"] = "done" => shelf # None /\ heap[shelf].state = Completed

\* An event changes the stored task once, however many clients follow the task.
AppliedOnce ==
  shelf # None =>
    \A k, l \in DOMAIN heap[shelf].history :
      heap[shelf].history[k] = heap[shelf].history[l] => k = l
=============================================================================
