---------------------------- MODULE MCRegistration ----------------------------
(* Three competing blocks after genesis, one with two competing children: two  *)
(* of them create the pool.                                                    *)
EXTENDS Registration
CONSTANTS g, a1, a2, d2, b1, c1, o1, o2, p1, ad
MCBlock == {g, a1, a2, d2, b1, c1}
MCParent == [b \in MCBlock |-> IF b \in {a2, d2} THEN a1 ELSE g]
MCAdapterOf == [k \in {o1, o2, p1} |-> ad]
MCLimits == {<<>>}
MCLogs == [b \in MCBlock |-> CASE b \in {a1, b1} -> {<<o1, p1>>, <<o2, p1>>} [] OTHER -> {}]
=============================================================================
