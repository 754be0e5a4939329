--------------------------- MODULE PriorityQueue ---------------------------
(***************************************************************************)
(* PriorityQueue<T> of cold_start_scheduler.rs: one first-in first-out     *)
(* queue per work class, served by strict priority with a bounded burst.   *)
(* A class is a number, the most urgent one first (the derived order of    *)
(* AmmWorkClass).  The queue is a record; 0 stands for no class.           *)
(***************************************************************************)
EXTENDS Integers, Sequences, FiniteSets, FiniteSetsExt, SequencesExt

CONSTANTS
  Classes,               \* number of work classes
  PRIORITY_BURST_QUANTA  \* consecutive quanta of one class while another waits

ASSUME QueueAssumption == {Classes, PRIORITY_BURST_QUANTA} \subseteq Nat \ {0}

Class == 1 .. Classes
NoClass == 0

EmptyQueue == [by_class |-> [c \in Class |-> <<>>], last_class |-> NoClass,
               consecutive |-> 0, aging_cursor |-> NoClass]

push(q, class, job) == [q EXCEPT !.by_class[class] = Append(@, job)]

WaitingClasses(q) == {c \in Class : q.by_class[c] # <<>>}
QueuedJobs(q) == UNION {ToSet(q.by_class[c]) : c \in Class}

(* Mutant: a queue that forgets where its rotation stands.                 *)
AlwaysNextLower(q, highest) ==
  LET lower == {c \in WaitingClasses(q) : c > highest}
  IN  IF lower = {} THEN NoClass ELSE Min(lower)

(* The class that is owed a turn once the burst of the highest one is used *)
(* up: the next waiting one after the cursor, around the lower classes.    *)
Aged(q, highest) ==
  LET lower == {c \in WaitingClasses(q) : c > highest}
      after == {c \in lower : q.aging_cursor <= highest \/ c > q.aging_cursor}
  IN  IF lower = {} THEN NoClass ELSE Min(IF after # {} THEN after ELSE lower)

BurstUsed(q, highest) ==
  q.last_class = highest /\ q.consecutive >= PRIORITY_BURST_QUANTA

(* pop() on a queue that is not empty: the job, and the queue it leaves.   *)
(* The counter saturates: nothing asks more of it than BurstUsed does.     *)
pop(q) ==
  LET highest == Min(WaitingClasses(q))
      aged == IF BurstUsed(q, highest) THEN Aged(q, highest) ELSE NoClass
      selected == IF aged # NoClass THEN aged ELSE highest
  IN  [job |-> Head(q.by_class[selected]),
       queue |-> [by_class |-> [q.by_class EXCEPT ![selected] = Tail(@)],
                  last_class |-> selected,
                  consecutive |-> IF q.last_class = selected
                                  THEN Min({q.consecutive + 1, PRIORITY_BURST_QUANTA})
                                  ELSE 1,
                  aging_cursor |-> IF aged # NoClass THEN aged ELSE q.aging_cursor]]

(* remove_where() takes out the first match of the first class that has one. *)
remove_where(q, job) ==
  LET holding == {c \in Class : job \in ToSet(q.by_class[c])}
  IN  IF holding = {} THEN q
      ELSE [q EXCEPT !.by_class[Min(holding)] = RemoveFirst(@, job)]

=============================================================================
