----------------------------- MODULE MCServices -----------------------------
(***************************************************************************)
(* What must eventually happen in the runtime's tasks that share no state, *)
(* explored side by side: the actor's publication, the service of the      *)
(* worker's queue, and a cold start.  `part' is the one a behaviour is     *)
(* about; the others stand still in an initial state.  Publication is      *)
(* extended, so that its properties are checked as they are proved.        *)
(***************************************************************************)
EXTENDS Integers, Publication

CONSTANTS Classes, JobsPerClass, PRIORITY_BURST_QUANTA
CONSTANTS Batches, WordPositions, Radius, MaxRounds, MaxFaults

VARIABLES part,
          queued,
          mode, pc, policy, reg, seeding, canonical, chain, cache, seeds, before, queue, planner, plan,
          outcome, owned, verified, base, rounds, replayed, patch, faults

PS  == INSTANCE PriorityService
CS  == INSTANCE ColdStart

\* As in MCAdapters.
MCBatches == {<<"v2", "slipstream">>, <<"slipstream", "slipstream">>, <<"uniswap", "balancer">>}

cold_start == <<mode, pc, policy, reg, seeding, canonical, chain, cache, seeds, before, queue, planner,
                plan, outcome, owned, verified, base, rounds, replayed, patch, faults>>
services == <<part, vars, queued, cold_start>>

NoColdStart ==
  /\ mode = "idle" /\ pc = "done" /\ policy = <<>> /\ reg = <<>> /\ canonical = <<>>
  /\ seeding = <<>> /\ before = <<>>
  /\ chain = <<>> /\ cache = <<>> /\ seeds = <<>> /\ queue = <<>> /\ planner = <<>>
  /\ plan = <<>> /\ outcome = <<>> /\ owned = <<>> /\ verified = <<>> /\ base = <<>>
  /\ rounds = <<>> /\ replayed = <<>> /\ patch = <<>> /\ faults = <<>>

ServicesInit ==
  /\ Init /\ PS!Init
  /\ \/ part \in {"publication", "queue"} /\ NoColdStart
     \* A job whose claim is proved goes on like one that has none to prove, and
     \* the planners treat Eager as Strict.
     \/ /\ part = "cold start" /\ CS!Init /\ mode = "job"
        /\ seeding /\ reg[1].rendered = "claim" /\ policy # "Eager"

Publication(action) == part = "publication" /\ action /\ UNCHANGED <<part, queued, cold_start>>
Service(action) == part = "queue" /\ action /\ UNCHANGED <<part, vars, cold_start>>
ColdStart(action) == part = "cold start" /\ action /\ UNCHANGED <<part, vars, queued>>

ServicesNext == Publication(Next) \/ Service(PS!Next) \/ ColdStart(CS!Next)

\* The fairness of each part, as its own module states it.
ServicesFairness ==
  /\ WF_services(Publication(Handlers))
  /\ WF_services(Service(PS!Dispatch))
  /\ WF_services(ColdStart(CS!prepare_fast_pool)) /\ WF_services(ColdStart(CS!prepare_accounts))
  /\ WF_services(ColdStart(CS!begin_step)) /\ WF_services(ColdStart(CS!replay_round))
  /\ WF_services(ColdStart(CS!fetch_round)) /\ WF_services(ColdStart(CS!reject_unsupported_phase))

ServicesSpec == ServicesInit /\ [][ServicesNext]_services /\ ServicesFairness

-----------------------------------------------------------------------------
(* While the most urgent class never runs empty, every quantum of any      *)
(* class is dispatched in the end (PriorityService).                       *)
ServiceUnderOneClass == PS!ServiceUnderOneClass

(* A prepared job ends, although the cache moves on under its replays      *)
(* (ColdStart).                                                            *)
JobEnds == CS!JobEnds

=============================================================================
