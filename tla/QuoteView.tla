------------------------------ MODULE QuoteView ------------------------------
(***************************************************************************)
(* What the runtime promises the readers of its snapshots, and no more.    *)
(* At every moment a pool is absent, exact (every cached slot holds the    *)
(* chain's value at the point), fenced (Degraded: not to be quoted),       *)
(* suspect (shown Ready although a demanded refresh was never performed)   *)
(* or inherited (Ready, but with words of an earlier registration that     *)
(* its cold start did not read).  An exact pool is never suspect or        *)
(* inherited next: state only goes wrong behind the fence or while its     *)
(* pool is absent.                                                         *)
(***************************************************************************)
EXTENDS Naturals
CONSTANTS Pool, Block, Genesis
VARIABLES point, view

View == {"absent", "exact", "fenced", "suspect", "inherited"}

Init == point = Genesis /\ view \in [Pool -> {"absent", "exact"}]

\* A block: what was exact stays exact or is fenced, and what only inheritance
\* made wrong does not become suspect.
Advance ==
  /\ point' \in Block \ {point}
  /\ view' \in [Pool -> View]
  /\ \A p \in Pool :
       /\ (view[p] = "absent") = (view'[p] = "absent")
       /\ view[p] = "exact" => view'[p] \in {"exact", "fenced"}
       /\ view[p] = "inherited" => view'[p] # "suspect"

\* A commit at the point: a fence is lifted, or a pool comes or goes.
Commit ==
  /\ UNCHANGED point
  /\ \E p \in Pool :
       \E v \in CASE view[p] = "absent" -> {"exact", "inherited"}
                  [] view[p] = "exact" -> {"absent"}
                  [] view[p] = "inherited" -> {"absent", "exact"}
                  [] OTHER -> {"absent", "exact", "suspect", "inherited"} :
         view' = [view EXCEPT ![p] = v]

Next == Advance \/ Commit
Spec == Init /\ [][Next]_<<point, view>>
=============================================================================
