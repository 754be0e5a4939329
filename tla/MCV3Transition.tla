------------------------- MODULE MCV3Transition -------------------------
EXTENDS V3Transition
LowestTick == -3
PriceTable == <<3, 5, 7, 10, 13, 16, 20>>
PositionRanges == <<<<-1, 1>>, <<-2, 1>>, <<0, 2>>>>
Starts == {[sqrt |-> 10, tick |-> 0], [sqrt |-> 7, tick |-> -1], [sqrt |-> 11, tick |-> 0]}
===========================================================================
