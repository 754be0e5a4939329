-------------------------- MODULE PriorityService --------------------------
(***************************************************************************)
(* The service a waiting quantum gets from the priority queue of the       *)
(* cold-start worker, whatever arrives: the actor submits jobs of any      *)
(* class, finished rounds are pushed again, and the dispatch loop pops for *)
(* as long as something waits.  A job is a class and an index.             *)
(***************************************************************************)
EXTENDS PriorityQueue

CONSTANT JobsPerClass  \* bound: quanta of one class that wait at the same time

Job == Class \X (1 .. JobsPerClass)

VARIABLE queued

Init == queued = EmptyQueue

Waiting(j) == j \in QueuedJobs(queued)

(* A command is folded into the queue, or a continuation is pushed back.   *)
Arrive(j) ==
  /\ ~Waiting(j)
  /\ queued' = push(queued, j[1], j)

(* The loop that spawns children takes the next quantum.                   *)
Dispatch ==
  /\ WaitingClasses(queued) # {}
  /\ queued' = pop(queued).queue

Next == Dispatch \/ \E j \in Job : Arrive(j)

(* Children end and are joined, so a place becomes free again and again.   *)
Spec == Init /\ [][Next]_queued /\ WF_queued(Dispatch)

-----------------------------------------------------------------------------
(* Every accepted quantum is dispatched in the end, whatever the load of   *)
(* the classes above it: "guaranteeing eventual service for bootstrap and  *)
(* deferred work under a sustained high-priority load".                    *)
EventualService == \A j \in Job : Waiting(j) ~> ~Waiting(j)

(* While the most urgent class never runs empty, every quantum of another   *)
(* class is served in rotation: the burst of pop() ends and its aging       *)
(* cursor moves.  The quanta of a class are interchangeable, so the first   *)
(* one of each stands for all.                                              *)
ServiceUnderOneClass ==
  <>[](queued.by_class[1] # <<>>) => \A c \in Class : Waiting(<<c, 1>>) ~> ~Waiting(<<c, 1>>)

=============================================================================
