------------------------------ MODULE Broadcast ------------------------------
(***************************************************************************)
(* What an EventQueue and its taps promise, without buffers, suspended     *)
(* puts or closes: each publisher has one publication under way at a time, *)
(* and a publication reaches each queue at most once, in the order in      *)
(* which the publisher made them and, from the first one a queue gets from *)
(* that publisher, with none left out.  Nothing is said of the order       *)
(* between two publishers.                                                 *)
(***************************************************************************)
EXTENDS Naturals, Sequences

CONSTANTS Queue, Publisher

VARIABLES
  made,      \* made[p]: how many publications p has begun
  underway,  \* underway[p]: the last one has not ended
  log        \* log[q][p]: the publications of p that reached q, by number

broadcastVars == <<made, underway, log>>

Init ==
  /\ made = [p \in Publisher |-> 0]
  /\ underway = [p \in Publisher |-> FALSE]
  /\ log = [q \in Queue |-> [p \in Publisher |-> <<>>]]

\* The n-th publication of p reaches the queues of S.
Reach(p, n, S) ==
  /\ \A q \in S : log[q][p] # <<>> => log[q][p][Len(log[q][p])] = n - 1
  /\ log' = [q \in Queue |-> IF q \in S THEN [log[q] EXCEPT ![p] = Append(@, n)]
                                         ELSE log[q]]

Begin(p, S, ends) ==
  /\ ~underway[p]
  /\ made' = [made EXCEPT ![p] = @ + 1]
  /\ underway' = [underway EXCEPT ![p] = ~ends]
  /\ Reach(p, made[p] + 1, S)

Continue(p, S, ends) ==
  /\ underway[p]
  /\ underway' = [underway EXCEPT ![p] = ~ends]
  /\ Reach(p, made[p], S)
  /\ UNCHANGED made

Next ==
  \E p \in Publisher, S \in SUBSET Queue, ends \in BOOLEAN :
    Begin(p, S, ends) \/ Continue(p, S, ends)

Spec == Init /\ [][Next]_broadcastVars
=============================================================================
