------------------------- MODULE MCColdStartWorker -------------------------
(* Instances of ColdStartWorker for TLC.                                   *)
EXTENDS ColdStartWorker

(* c is more urgent than a.                                                *)
MCClassOf == [w \in Work |-> IF w = "c" THEN 1 ELSE 2]

(* Two commands, of which one may follow the other; one with two jobs; one *)
(* larger than the capacity, which is refused.                             *)
MCBatches == {<<"a">>, <<"c">>, <<"a", "c">>, <<"a", "b", "c">>}
=============================================================================
