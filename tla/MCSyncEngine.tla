--------------------------- MODULE MCSyncEngine ---------------------------
EXTENDS SyncEngine
\* Two pools of one family on a shared vault `v' and an account `p' of its own.
KeyFamilies == [k \in Keys |-> "f"]
Symmetry == Permutations(Keys)
SlotAddresses == [s \in {"v1", "p1"} |-> IF s = "p1" THEN "p" ELSE "v"]
Declarations == {[whole |-> {}, slots |-> {"v1", "p1"}], [whole |-> {"v"}, slots |-> {}]}
===========================================================================
