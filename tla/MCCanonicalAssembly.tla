------------------------ MODULE MCCanonicalAssembly ------------------------
(* Block trees, logs and blooms on which TLC checks CanonicalAssembly. *)
EXTENDS CanonicalAssembly

\* One chain of three blocks.
LineBlocks == {"G", "A1", "A2", "A3"}
LineParent == [b \in LineBlocks |->
  CASE b = "G" -> "G" [] b = "A1" -> "G" [] b = "A2" -> "A1" [] b = "A3" -> "A2"]
LineNumber == [b \in LineBlocks |->
  CASE b = "G" -> 0 [] b = "A1" -> 1 [] b = "A2" -> 2 [] b = "A3" -> 3]

LineChain[b \in LineBlocks] ==
  IF b = "G" THEN <<b>> ELSE Append(LineChain[LineParent[b]], b)

\* Two branches above the genesis, of two blocks and of three.
ForkBlocks == {"G", "A1", "A2", "B1", "B2", "B3"}
ForkParent == [b \in ForkBlocks |->
  CASE b = "G" -> "G" [] b = "A1" -> "G" [] b = "A2" -> "A1"
    [] b = "B1" -> "G" [] b = "B2" -> "B1" [] b = "B3" -> "B2"]
ForkNumber == [b \in ForkBlocks |->
  CASE b = "G" -> 0 [] b \in {"A1", "B1"} -> 1 [] b \in {"A2", "B2"} -> 2 [] b = "B3" -> 3]

ForkChain[b \in ForkBlocks] ==
  IF b = "G" THEN <<b>> ELSE Append(ForkChain[ForkParent[b]], b)

\* A log is named after its block and its interest.
BlockOfLog(logs) == [l \in logs |-> l[1]]
StreamOfLog(logs) == [l \in logs |-> l[2]]

\* Two interests; A2 has no log of s and its bloom says so.
PairLogs == {<<"A1", "s">>, <<"A1", "t">>, <<"A2", "t">>, <<"A3", "s">>}
PairLogBlock == BlockOfLog(PairLogs)
PairLogStream == StreamOfLog(PairLogs)
PairBloom == PairLogs \cup {<<"A3", "t">>}

ForkLogs == {<<"A1", "s">>, <<"A2", "s">>, <<"B1", "s">>, <<"B2", "s">>, <<"B3", "s">>}
ForkLogBlock == BlockOfLog(ForkLogs)
ForkLogStream == StreamOfLog(ForkLogs)
ForkBloom == ForkLogs

=============================================================================
