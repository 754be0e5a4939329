---------------------------- MODULE MCPoolRepair ----------------------------
(* A fork under a1 and a second block on each branch. *)
EXTENDS PoolRepair
CONSTANTS g, a1, a2, b2, p1, p2, s1, s2, s3
MCBlock == {g, a1, a2, b2}
MCParent == [b \in MCBlock |-> CASE b = a2 -> a1 [] b = b2 -> a1 [] OTHER -> g]
MCNumber == [b \in MCBlock |-> CASE b = g -> 0 [] b = a1 -> 1 [] OTHER -> 2]
MCPool == {p1, p2}
MCSlotsOf == [p \in MCPool |-> IF p = p1 THEN {s1, s2, s3} ELSE {}]
MCTouch == [b \in MCBlock |-> [p \in MCPool |->
  CASE p = p1 /\ b = a1 -> {s1} [] p = p1 /\ b = a2 -> {s2, s3} [] OTHER -> {}]]
MCKinds == [p \in MCPool |-> IF p = p1 THEN {"verify", "delta"} ELSE {}]
MCFenceKinds == [p \in MCPool |-> {"verify", "undecoded", "write", "cold"}]
MCJobs == [p \in MCPool |-> IF p = p1 THEN {1, 2} ELSE {}]
MCLazy == [p \in MCPool |-> IF p = p1 THEN {s2} ELSE {}]
MCSkipped == [p \in MCPool |-> IF p = p1 THEN {s3} ELSE {}]
MCNone == [p \in MCPool |-> {}]
MCHotSlotsOnly == [p \in MCPool |-> IF p = p1 THEN {s2, s3} ELSE {}]
MCLearned == [p \in MCPool |-> IF p = p1 THEN {s2} ELSE {}]
=============================================================================
