----------------------------- MODULE TaskQueue ------------------------------
(***************************************************************************)
(* What a thread pool promises: tasks are started once each, in the order  *)
(* they were submitted, at most Width at a time, and closing it loses      *)
(* none.                                                                   *)
(***************************************************************************)
EXTENDS Naturals, FiniteSets

CONSTANTS Width, MaxTasks

VARIABLES submitted,  \* how many tasks were submitted: they are 1 .. submitted
          started,    \* how many of them, from the first on, were started
          finished,   \* the tasks that have come to their end
          closed

Running == (1 .. started) \ finished

Init == submitted = 0 /\ started = 0 /\ finished = {} /\ closed = FALSE

Submit == /\ ~closed /\ submitted < MaxTasks
          /\ submitted' = submitted + 1
          /\ UNCHANGED <<started, finished, closed>>

Start == /\ started < submitted /\ Cardinality(Running) < Width
         /\ started' = started + 1
         /\ UNCHANGED <<submitted, finished, closed>>

Finish == \E i \in Running :
  finished' = finished \cup {i} /\ UNCHANGED <<submitted, started, closed>>

Close == /\ finished = 1 .. submitted /\ closed' = TRUE
         /\ UNCHANGED <<submitted, started, finished>>

Next == Submit \/ Start \/ Finish \/ Close

Spec == Init /\ [][Next]_<<submitted, started, finished, closed>>
=============================================================================
