-------------------------------- MODULE Rpc --------------------------------
(***************************************************************************)
(* What a request-response transport promises its callers, without topics, *)
(* registries or restarts: a request that was made is handled at most      *)
(* once; while its handling lasts the server says things about it, one     *)
(* after the other; the caller hears some of them, each once, in the order *)
(* in which they were said and only until its call is over; and a call     *)
(* hears nothing that was said about another.  Losing what was said is     *)
(* allowed, inventing is not.                                              *)
(***************************************************************************)
EXTENDS Naturals, Sequences

CONSTANTS Call, Event, Last

VARIABLES
  state,  \* of each call: "idle", "asked" or "over"
  said,   \* what the server has said about it
  heard   \* what its caller has heard, by number in said

rpcVars == <<state, said, heard>>

Init ==
  /\ state = [c \in Call |-> "idle"]
  /\ said = [c \in Call |-> <<>>]
  /\ heard = [c \in Call |-> <<>>]

Handled(c) == said[c] # <<>> /\ said[c][Len(said[c])] \in Last

Ask(c) ==
  /\ state[c] = "idle"
  /\ state' = [state EXCEPT ![c] = "asked"]
  /\ UNCHANGED <<said, heard>>

Say(c, what) ==
  /\ state[c] # "idle" /\ ~Handled(c)
  /\ said' = [said EXCEPT ![c] = Append(@, what)]
  /\ UNCHANGED <<state, heard>>

Unheard(c) ==
  {i \in DOMAIN said[c] : \A j \in DOMAIN heard[c] : heard[c][j] < i}

Hear(c, i, over) ==
  /\ state[c] = "asked" /\ i \in Unheard(c)
  /\ heard' = [heard EXCEPT ![c] = Append(@, i)]
  /\ state' = [state EXCEPT ![c] = IF over THEN "over" ELSE @]
  /\ UNCHANGED said

Leave(c) ==
  /\ state[c] # "over"
  /\ state' = [state EXCEPT ![c] = "over"]
  /\ UNCHANGED <<said, heard>>

Next ==
  \E c \in Call :
    \/ Ask(c) \/ Leave(c)
    \/ \E what \in Event \union Last : Say(c, what)
    \/ \E i \in DOMAIN said[c], over \in BOOLEAN : Hear(c, i, over)

Spec == Init /\ [][Next]_rpcVars
=============================================================================
