-------------------------- MODULE MCRequestHandler --------------------------
(* Small instances of RequestHandler for TLC. *)
EXTENDS RequestHandler, TLC

\* Requests (with the queues they name) and tasks are interchangeable; used
\* only in runs without liveness.
Symmetry == Permutations(Queue) \union Permutations(Task)

NoTask == {Absent}
UnderWay == {Update("working", FALSE)}

\* What agents publish: an end marked final, also after a status on the way;
\* all kinds of updates and Messages; an end that is not marked; a question.
Ends == {Update("completed", TRUE)}
WorksAndEnds == Ends \union UnderWay
Everything == WorksAndEnds \union
  {Update("auth", FALSE), Update("input", FALSE), Update("input", TRUE),
   Update("completed", FALSE), Message}
Unmarked == UnderWay \union {Update("completed", FALSE)}
Asks == {Update("input", TRUE)}
=============================================================================
