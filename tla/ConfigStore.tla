----------------------------- MODULE ConfigStore -----------------------------
(***************************************************************************)
(* What a store of push notification configurations promises for one task, *)
(* whatever keeps them: each configuration is known by its id, and each    *)
(* call has its whole effect at one moment between its start and its       *)
(* answer, or fails and has none.                                          *)
(***************************************************************************)
CONSTANTS Caller, Config   \* a configuration is a record with an id and a url

VARIABLES
  kept,    \* the configurations of the task
  asked,   \* the call each caller waits for, as a sequence of at most one
  told     \* the answer to the last call of each caller, when it came

storeVars == <<kept, asked, told>>

Ids == {c.id : c \in Config}

Calls == [op : {"set"}, cfg : Config] \union [op : {"delete"}, id : Ids] \union [op : {"get"}]

Without(id) == {c \in kept : c.id # id}

Answer(ok, got) == [ok |-> ok, got |-> got]

Init ==
  /\ kept \in SUBSET Config
  /\ \A c, d \in kept : c.id = d.id => c = d
  /\ asked = [p \in Caller |-> <<>>]
  /\ told = [p \in Caller |-> Answer(TRUE, <<>>)]

Ask(p) ==
  /\ asked[p] = <<>>
  /\ \E call \in Calls : asked' = [asked EXCEPT ![p] = <<call>>]
  /\ told' = [told EXCEPT ![p] = Answer(TRUE, <<>>)]
  /\ UNCHANGED kept

Tell(p, ok, got) ==
  /\ asked[p] # <<>>
  /\ asked' = [asked EXCEPT ![p] = <<>>]
  /\ told' = [told EXCEPT ![p] = Answer(ok, got)]

Set(p) ==
  /\ Tell(p, TRUE, <<>>) /\ asked[p][1].op = "set"
  /\ kept' = Without(asked[p][1].cfg.id) \union {asked[p][1].cfg}

Delete(p) ==
  /\ Tell(p, TRUE, <<>>) /\ asked[p][1].op = "delete"
  /\ kept' = Without(asked[p][1].id)

Get(p) ==
  /\ \E c \in kept : Tell(p, TRUE, <<c>>)
  /\ asked[p][1].op = "get"
  /\ UNCHANGED kept

Fail(p) == Tell(p, FALSE, <<>>) /\ UNCHANGED kept

Next == \E p \in Caller : Ask(p) \/ Set(p) \/ Delete(p) \/ Get(p) \/ Fail(p)

Spec == Init /\ [][Next]_storeVars
=============================================================================
