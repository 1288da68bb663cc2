-------------------------- MODULE MCEventQueueOrder --------------------------
(* Small instances of EventQueueOrder for TLC. *)
EXTENDS EventQueueOrder, TLC

MCEvent == Proc \X (1..MaxEvents)

\* Queues and coroutines are interchangeable in the specification and in every
\* property checked with it, and none of these is a liveness property.
Symmetry == Permutations(Queue) \union Permutations(Proc)
=============================================================================
