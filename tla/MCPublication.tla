--------------------------- MODULE MCPublication ---------------------------
EXTENDS Publication
LiveSpec == Spec /\ Fairness
=============================================================================
