----------------------------- MODULE MCAdapters -----------------------------
(***************************************************************************)
(* The code around one pool, explored side by side: cold starts, the       *)
(* concentrated-liquidity transitions, the logs of the other pools,        *)
(* factory discovery, and the archive of registrations.  `part' is the one *)
(* a behaviour is about; variables it does not use stay empty; Persistence *)
(* is extended, so that its property is checked as it is proved.           *)
(***************************************************************************)
EXTENDS Integers, Sequences, SequencesExt, Persistence

CONSTANTS Q, G, Denominator, Ratios, MinTick, WordTicks, Fee, UnstakedFee, RewardSeeded,
          RewardRate, MaxPerTick, GrowthMod, FeeMod, CumMod, MaxCardinality, Fees, MaxSwapFee,
          MaxSwapSteps, Amounts, Limits, Ranges, MintAmounts, Radii, MaxEvents, StartPrices
CONSTANTS Portfolios, CashMax, Managed, MaxLogs
CONSTANTS Batches, WordPositions, Radius, MaxRounds, MaxFaults
CONSTANTS Offered, Creatable(_), Asked, EventFees, MaxPools

VARIABLES part,
          chain, cache, plan, verified,
          family, wanted, time, evidenced, verdict, events,
          pools, logs, phase, metadata, owed, status, played,
          mode, pc, policy, reg, seeding, canonical, seeds, before, queue, planner, outcome,
          owned, base, rounds, replayed, patch, faults,
          discovery, hash, created, answer, pushed

\* What one part alone uses, and what two of them use.
transitions == <<family, wanted, time, evidenced, verdict, events>>
adapters    == <<pools, logs, phase, metadata, owed, status, played>>
cold_start  == <<mode, pc, policy, reg, seeding, canonical, seeds, before, queue, planner, outcome,
                 owned, base, rounds, replayed, patch, faults>>
factories   == <<discovery, hash, created, answer, pushed>>
storage     == <<chain, cache>>
plans       == <<plan, verified>>
all_parts == <<part, storage, plans, transitions, adapters, cold_start, factories, vars>>

V3 == INSTANCE MCV3Transition
PE == INSTANCE MCPoolEvents
CS == INSTANCE ColdStart
D  == INSTANCE Discovery

\* The values of MCV3Transition's and MCPoolEvents' own instances; for the cold starts a
\* pair beside an exact pool, two pools that share the external cell, and a vault pool.
LowestTick == -3
PriceTable == <<3, 5, 7, 10, 13, 16, 20>>
PositionRanges == <<<<-1, 1>>, <<-2, 1>>, <<0, 2>>>>
Starts == {[sqrt |-> 10, tick |-> 0], [sqrt |-> 7, tick |-> -1], [sqrt |-> 11, tick |-> 0]}
MCPortfolios == {{"pair"}, {"solidly", "bare"}, {"two", "twin"}, {"general"}, {"stable"},
                 {"stable_ng"}, {"crypto"}, {"tricrypto_ng"}}
MCBatches == {<<"v2", "slipstream">>, <<"slipstream", "slipstream">>, <<"uniswap", "balancer">>}
MCOffered == {<<"v2", "v3", "v2", "sushi", "slipstream", "solidly", "v3">>,
              <<"v2", "slipstream", "custom">>, <<"flat", "v2", "mapped", "misfit">>}
TieredFork == {<<"v3", "tiered">>}
Pool(driver, pair, key) == [driver |-> driver, pair |-> pair, key |-> key]
PresetPools == {Pool("v2", <<1, 2>>, 0), Pool("v2", <<2, 3>>, 0), Pool("v3", <<1, 2>>, 1),
                Pool("v3", <<1, 2>>, 3), Pool("sushi", <<1, 2>>, 2), Pool("slipstream", <<1, 3>>, 2),
                Pool("solidly", <<1, 2>>, 1), Pool("custom", <<1, 2>>, 1)}
ForkPools == {Pool("flat", <<1, 2>>, 2), Pool("mapped", <<1, 2>>, 2), Pool("misfit", <<1, 3>>, 1),
              Pool("tiered", <<1, 2>>, 1)}
MCCreatable(list) ==
  LET forks == {c \in ForkPools : c.driver \in ToSet(list)}
  IN IF forks = {} THEN PresetPools ELSE forks \cup {Pool("v2", <<1, 2>>, 0)}
Call(form, tokens, protocols) == [form |-> form, tokens |-> tokens, on |-> protocols]
MCAsked ==
  {<<Call("pair", <<2, 1>>, "any")>>, <<Call("basket", <<1, 2, 2, 3>>, "any")>>,
   <<Call("token_edge", <<3, 1, 2, 3>>, "Slipstream")>>,
   <<Call("pair", <<1, 2>>, "UniswapV3"), Call("pairs", <<2, 1>>, "any")>>,
   <<Call("pair", <<1, 2>>, "Curve")>>}

NoTransitions ==
  /\ family = <<>> /\ wanted = <<>> /\ time = <<>> /\ evidenced = <<>> /\ verdict = <<>>
  /\ events = <<>>
NoAdapters ==
  /\ pools = <<>> /\ logs = <<>> /\ phase = <<>> /\ metadata = <<>> /\ owed = <<>>
  /\ status = <<>> /\ played = <<>>
NoColdStart ==
  /\ mode = <<>> /\ pc = <<>> /\ policy = <<>> /\ reg = <<>> /\ canonical = <<>>
  /\ seeding = <<>> /\ before = <<>> /\ seeds = <<>> /\ queue = <<>> /\ planner = <<>> /\ outcome = <<>> /\ owned = <<>>
  /\ base = <<>> /\ rounds = <<>> /\ replayed = <<>> /\ patch = <<>> /\ faults = <<>>
NoFactories ==
  discovery = <<>> /\ hash = <<>> /\ created = <<>> /\ answer = <<>> /\ pushed = <<>>
NoArchive ==
  /\ registry = <<>> /\ temp = <<>> /\ savers = <<>> /\ temps = <<>> /\ dest = <<>>
  /\ survivors = <<>> /\ ranks = <<>> /\ settled = <<>> /\ resumed = NoLoad /\ spent = <<>>
NoStorage == chain = <<>> /\ cache = <<>>
NoPlans == plan = <<>> /\ verified = <<>>

AdaptersInit ==
  \/ /\ part = "transitions" /\ V3!Init
     /\ NoAdapters /\ NoColdStart /\ NoFactories /\ NoPlans /\ NoArchive
  \/ /\ part = "adapters" /\ PE!Init
     /\ NoTransitions /\ NoColdStart /\ NoFactories /\ NoPlans /\ NoArchive
  \/ /\ part = "cold start" /\ CS!Init
     /\ NoTransitions /\ NoAdapters /\ NoFactories /\ NoArchive
  \/ /\ part = "factories" /\ D!Init
     /\ NoTransitions /\ NoAdapters /\ NoColdStart /\ NoStorage /\ NoArchive
  \/ /\ part = "archive" /\ Init
     /\ NoTransitions /\ NoAdapters /\ NoColdStart /\ NoFactories /\ NoStorage /\ NoPlans

AdaptersNext ==
  /\ UNCHANGED part
  /\ \/ /\ part = "transitions" /\ V3!Next
        /\ UNCHANGED <<plans, adapters, cold_start, factories, vars>>
     \/ /\ part = "adapters" /\ PE!Next
        /\ UNCHANGED <<plans, transitions, cold_start, factories, vars>>
     \/ /\ part = "cold start" /\ CS!Next
        /\ UNCHANGED <<transitions, adapters, factories, vars>>
     \/ /\ part = "factories" /\ D!Next
        /\ UNCHANGED <<storage, transitions, adapters, cold_start, vars>>
     \/ /\ part = "archive" /\ Next
        /\ UNCHANGED <<storage, plans, transitions, adapters, cold_start, factories>>

AdaptersSpec == AdaptersInit /\ [][AdaptersNext]_all_parts
FactoriesSpec == part = "factories" /\ AdaptersInit /\ [][AdaptersNext]_all_parts

-----------------------------------------------------------------------------
(* Every cell the adapter knows after an event is the contract's cell      *)
(* (V3Transition).                                                         *)
CacheExact == part = "transitions" => V3!CacheExact

(* No event of a reviewed contract is refused (V3Transition).              *)
CanonicalAccepted == part = "transitions" => V3!CanonicalAccepted

(* Between blocks every cached word of a ready pool is the chain's word    *)
(* (PoolEvents).                                                           *)
ReadyWordsCurrent == part = "adapters" => PE!ReadyWordsCurrent

(* A pool that is ready has every cell its surface promises, at the pinned *)
(* block's value (ColdStart).                                              *)
ReadyIsExact == part = "cold start" => CS!ReadyIsExact

(* No pool runs code the chain was not seen to run (ColdStart).            *)
NoUnverifiedCode == part = "cold start" => CS!NoUnverifiedCode

(* A query finds exactly the pools that exist, each once (Discovery).      *)
DiscoveryExact == part = "factories" => D!DiscoveryExact

(* A fee-keyed fork always resolves a real, non-zero tier (Discovery).     *)
FeeKeyedIsPriced == part = "factories" => D!FeeKeyedIsPriced
=============================================================================
