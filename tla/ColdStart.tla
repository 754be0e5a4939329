------------------------------ MODULE ColdStart ------------------------------
(***************************************************************************)
(* Warming a pool's storage before it is served.                           *)
(*                                                                         *)
(* Every adapter gives a planner that asks for cells round by round; three *)
(* drivers run planners: AdapterRegistry::cold_start against the cache,    *)
(* cold_start_many, which first tries one storage program for each pool,   *)
(* and PreparedPoolJob, which runs off the actor over an immutable         *)
(* snapshot and replays the planner from a transcript on every step.       *)
(*                                                                         *)
(* A cell is <<account, name, index>>.  The pinned block's value of a cell *)
(* is 0, 1 or 2; Unknown is a cell the cache does not hold, and the        *)
(* outcome of a read that failed or was not attempted.  A tick-bitmap word *)
(* has at most one initialised tick, and one cell stands for the words of  *)
(* a Tick.Info.                                                            *)
(***************************************************************************)
EXTENDS Integers, Sequences, FiniteSets, SequencesExt

CONSTANTS Batches,    \* the families of the pools of a cold_start_many call
          WordPositions,  \* the tick-bitmap words of a pool
          Radius,     \* V3Metadata::warm_word_radius
          MaxRounds,  \* ResumableColdStartConfig::max_rounds
          MaxFaults   \* how many reads may fail in one run

Unknown == -1
Exact == {"uniswap", "slipstream"}
V3 == Exact \cup {"pancake"}
Discovering == {"balancer", "curve"}
Pair == {"v2", "solidly"}
Families == V3 \cup Discovering \cup Pair
Policies == {"Strict", "Eager", "Lazy", "HotSlotsOnly"}
Warming == {"Strict", "Eager"}

VARIABLES mode,     \* the driver: "single", "many", "job"
          pc,       \* its next step
          policy,
          reg,      \* the registrations, in input order
          seeding,  \* code_seeding is on and the cache has an account fetcher
          canonical, \* whether the chain runs the code a pool's seed claims
          chain,    \* the cells at the pinned block
          cache,    \* the cells the actor's cache holds
          seeds,    \* the account code of each pool in the cache
          before,   \* history: that code when the driver was called
          queue,    \* pools still to be finalised by the planner
          planner, plan,
          outcome,  \* of each pool: None until it is classified
          owned,    \* the cells its registration declares as its own
          verified, \* the cells its report says were verified
          base,     \* the snapshot a job was queued with
          rounds,   \* the transcript of the job
          replayed, \* how much of the transcript this quantum has replayed
          patch,    \* what the job accumulated
          faults

vars == <<mode, pc, policy, reg, seeding, canonical, chain, cache, seeds, before, queue, planner,
          plan, outcome, owned, verified, base, rounds, replayed, patch, faults>>

None == "none"
fixed == <<mode, policy, seeding, canonical, chain, before, base>>

-----------------------------------------------------------------------------
(* The cells of a registration. *)

slot0(r) == <<r.key, "slot0", 0>>
liquidity(r) == <<r.key, "liquidity", 0>>
transition_globals(r) == <<r.key, "globals", 0>>
observation(r) == <<r.key, "observation", 0>>
word(r, w) == <<r.key, "word", w>>
tick(r, w) == <<r.key, "tick", w>>
token(r, i) == <<r.key, "token", i>>
reserve(r, i) == <<r.key, "reserve", i>>
reserves(r) == IF r.kind = "v2" THEN {reserve(r, 0)} ELSE {reserve(r, 0), reserve(r, 1)}
tokens(r) == {token(r, 0), token(r, 1)}
\* What getPoolTokens reads in the vault, and get_dy in a Curve pool.
read_set(r) == {<<IF r.kind = "balancer" THEN 0 ELSE r.key, "hot", 10 * r.key + i>> : i \in 0 .. 1}
\* Only the Slipstream pools that were reviewed have cells outside the pool.
verified_storage_targets(r) == IF r.kind = "slipstream" /\ r.reviewed THEN {<<0, "fee", 0>>} ELSE {}

CellsOf(r) ==
  CASE r.kind \in V3 -> {slot0(r), liquidity(r), transition_globals(r), observation(r)}
                        \cup {word(r, w) : w \in WordPositions} \cup {tick(r, w) : w \in WordPositions}
                        \cup verified_storage_targets(r)
    [] r.kind \in Pair -> reserves(r) \cup tokens(r)
    [] OTHER -> read_set(r)
AllCells(rs) == UNION {CellsOf(rs[i]) : i \in DOMAIN rs}

is_exact_slot(r, c) == r.kind \in Exact /\ (c[1] = r.key \/ c \in verified_storage_targets(r))
resolve_window(w) == {v \in WordPositions : v - w <= Radius /\ w - v <= Radius}

\* What state_dependencies declares before any planner has finished.
DeclaredOwned(r) ==
  CASE r.kind \in V3 -> {slot0(r), liquidity(r)} \cup verified_storage_targets(r)
    [] r.kind \in Pair -> reserves(r) \cup tokens(r)
    [] OTHER -> r.slots

-----------------------------------------------------------------------------
(* The planners.  A planner is pure: it sees results and a view, nothing else. *)

Planner(phase, cells) ==
  [phase |-> phase, verified |-> cells, zeros |-> {}, failed |-> {}, window |-> {}, cold |-> FALSE,
   deferred |-> {}, verdict |-> None, tokens |-> {}, next |-> {}]

v3_planner == Planner("Slot0Liquidity", {})
v2_planner == Planner("Only", {})
solidly_planner == Planner("Only", {})
\* A read-set that is already known selects the verify-only mode.
balancer_planner(r) == IF r.slots = {} THEN Planner("Discover", {}) ELSE Planner("Verify", r.slots)
curve_planner(r) == IF r.slots = {} THEN Planner("Discover", {}) ELSE Planner("Verify", r.slots)

cold_start_planner(r) ==
  CASE r.kind \in V3 -> v3_planner
    [] r.kind = "v2" -> v2_planner
    [] r.kind = "solidly" -> solidly_planner
    [] r.kind = "balancer" -> balancer_planner(r)
    [] OTHER -> curve_planner(r)

v3_initial_plan(r) ==
  {slot0(r), liquidity(r)} \cup verified_storage_targets(r)
  \cup (IF r.kind \in Exact THEN {transition_globals(r)} ELSE {})
v2_initial_plan(r) == reserves(r) \cup (IF policy \in Warming THEN tokens(r) ELSE {})
solidly_initial_plan(r) == reserves(r) \cup (IF policy \in Warming THEN tokens(r) ELSE {})
balancer_initial_plan(r) == r.slots
curve_initial_plan(r) == r.slots

initial_plan(r) ==
  CASE r.kind \in V3 -> v3_initial_plan(r)
    [] r.kind = "v2" -> v2_initial_plan(r)
    [] r.kind = "solidly" -> solidly_initial_plan(r)
    [] r.kind = "balancer" -> balancer_initial_plan(r)
    [] OTHER -> curve_initial_plan(r)

\* A planner's answer: it goes on with `next', or it is done.
Continue(pl, phase, cells) ==
  [pl EXCEPT !.phase = phase, !.next = cells, !.verified = pl.verified \cup cells]
Done(pl) == [pl EXCEPT !.phase = "Done", !.next = {}]

\* Proven zeros and failed reads of the exact surface, kept from every round.
Classified(r, pl, fetched) ==
  [pl EXCEPT !.zeros = pl.zeros \cup {c \in DOMAIN fetched : is_exact_slot(r, c) /\ fetched[c] = 0},
             !.failed = pl.failed \cup {c \in DOMAIN fetched :
                                          is_exact_slot(r, c) /\ fetched[c] = Unknown}]

on_slot0(r, pl, fetched) ==
  IF fetched[slot0(r)] \in {Unknown, 0} THEN Done([pl EXCEPT !.cold = TRUE])
  ELSE IF pl.failed # {} THEN Done(pl)
  ELSE LET window == resolve_window(fetched[slot0(r)] - 1)
           words == {word(r, w) : w \in window}
           seen == [pl EXCEPT !.window = window]
       IN CASE policy \in Warming ->
                 Continue(seen, "BitmapWord",
                          words \cup (IF r.kind \in Exact THEN {observation(r)} ELSE {}))
            [] policy = "Lazy" -> Done([seen EXCEPT !.deferred = words])
            [] OTHER -> Done(seen)

\* A bitmap word whose read failed is looked up in the view before it is given up.
on_bitmap(r, pl, fetched, view) ==
  LET bitmap(w) == IF fetched[word(r, w)] # Unknown THEN fetched[word(r, w)] ELSE view[word(r, w)]
      missing == {word(r, w) : w \in {v \in pl.window : bitmap(v) = Unknown}}
      ticks == {tick(r, w) : w \in {v \in pl.window : bitmap(v) > 0}}
      seen == [pl EXCEPT !.failed = pl.failed \cup missing]
  IN IF pl.failed # {} THEN Done(pl)
     ELSE IF ticks = {} THEN Done(seen)
     ELSE Continue(seen, "TickInfo", ticks)

v3_on_results(r, pl, fetched, view) ==
  LET seen == Classified(r, pl, fetched)
  IN CASE pl.phase = "Slot0Liquidity" -> on_slot0(r, seen, fetched)
       [] pl.phase = "BitmapWord" -> on_bitmap(r, seen, fetched, view)
       [] OTHER -> Done(seen)

\* The verdict of the mandatory reserves: a failed read dominates a genuine zero.
classify_slots(fetched, cells) ==
  CASE \E c \in cells : fetched[c] = Unknown -> "FetchFailed"
    [] \E c \in cells : fetched[c] = 0 -> "DegenerateZero"
    [] OTHER -> "Ready"

v2_on_results(r, pl, fetched, view) ==
  Done([pl EXCEPT !.verdict = classify_slots(fetched, reserves(r)),
                  !.tokens = {i \in 0 .. 1 : view[token(r, i)] # Unknown},
                  !.verified = DOMAIN fetched])
solidly_on_results(r, pl, fetched, view) ==
  Done([pl EXCEPT !.verdict = classify_slots(fetched, reserves(r)),
                  !.tokens = {i \in 0 .. 1 : view[token(r, i)] # Unknown},
                  !.verified = DOMAIN fetched])

\* `found': the slots the discovery call touched; none when it failed or touched none.
on_discovered(pl, found) ==
  IF found = {} THEN Done([pl EXCEPT !.verdict = "ColdStart"])
  ELSE [Continue(pl, "Verify", found) EXCEPT !.verified = found]
on_verified(pl, fetched) ==
  Done([pl EXCEPT !.verdict = IF \E c \in pl.verified : fetched[c] = Unknown THEN "VerifySlots" ELSE None])
balancer_on_results(pl, fetched, found) ==
  IF pl.phase = "Discover" THEN on_discovered(pl, found) ELSE on_verified(pl, fetched)
curve_on_results(pl, fetched, found) ==
  IF pl.phase = "Discover" THEN on_discovered(pl, found) ELSE on_verified(pl, fetched)

on_results(r, pl, fetched, view, found) ==
  CASE r.kind \in V3 -> v3_on_results(r, pl, fetched, view)
    [] r.kind = "v2" -> v2_on_results(r, pl, fetched, view)
    [] r.kind = "solidly" -> solidly_on_results(r, pl, fetched, view)
    [] r.kind = "balancer" -> balancer_on_results(pl, fetched, found)
    [] OTHER -> curve_on_results(pl, fetched, found)

\* finish: the outcome, the registration it leaves, and the cells that one owns.
\* Only the V3 family lowers the status of a pool that needs repair.
Result(name, r, cells) == [outcome |-> name, r |-> r, owned |-> cells]

record_v3_warmed_slots(r, pl) ==
  {c \in pl.verified : c[1] = r.key} \cup verified_storage_targets(r)

v3_finish(r, pl) ==
  IF pl.cold \/ pl.failed # {} THEN Result("NeedsRepair", [r EXCEPT !.status = "Degraded"], DeclaredOwned(r))
  ELSE Result(IF pl.deferred = {} THEN "Ready" ELSE "ReadyWithDeferred",
              [r EXCEPT !.status = "Ready"], record_v3_warmed_slots(r, pl))

v2_finish(r, pl) ==
  IF pl.verdict # "Ready" THEN Result("NeedsRepair", r, DeclaredOwned(r))
  ELSE Result(IF policy = "Lazy" THEN "ReadyWithDeferred" ELSE "Ready",
              [r EXCEPT !.status = "Ready", !.tokens = pl.tokens], DeclaredOwned(r))
solidly_finish(r, pl) ==
  IF pl.verdict # "Ready" THEN Result("NeedsRepair", r, DeclaredOwned(r))
  ELSE Result(IF policy = "Lazy" THEN "ReadyWithDeferred" ELSE "Ready",
              [r EXCEPT !.status = "Ready", !.tokens = pl.tokens], DeclaredOwned(r))

balancer_finish(r, pl) ==
  IF pl.verdict # None THEN Result("NeedsRepair", r, DeclaredOwned(r))
  ELSE Result("Ready", [r EXCEPT !.status = "Ready", !.slots = pl.verified], pl.verified)
curve_finish(r, pl) ==
  IF pl.verdict # None THEN Result("NeedsRepair", r, DeclaredOwned(r))
  ELSE Result("Ready", [r EXCEPT !.status = "Ready", !.slots = pl.verified], pl.verified)

finish(r, pl) ==
  CASE r.kind \in V3 -> v3_finish(r, pl)
    [] r.kind = "v2" -> v2_finish(r, pl)
    [] r.kind = "solidly" -> solidly_finish(r, pl)
    [] r.kind = "balancer" -> balancer_finish(r, pl)
    [] OTHER -> curve_finish(r, pl)

\* The proven zeros are left out of the cache.
materialise_nothing(pl) == {}

materialization_updates(pl) == IF pl.cold THEN {} ELSE pl.zeros

-----------------------------------------------------------------------------
(* Reads, and the storage programs. *)

\* One batch of reads at the pinned block; the cells of `lost' fail.
Fetch(cells, lost) == [c \in cells |-> IF c \in lost THEN Unknown ELSE chain[c]]
Losses(cells) == {lost \in SUBSET cells : Cardinality(lost) <= MaxFaults - faults}

Over(view, update) == [c \in DOMAIN view |-> IF c \in DOMAIN update THEN update[c] ELSE view[c]]
Absent(v) == IF v = Unknown THEN 0 ELSE v

\* EvmCache::run_cold_start injects a verified cell only when its value changed.
Changed(view, fetched) ==
  [c \in {d \in DOMAIN fetched : fetched[d] # Unknown /\ Absent(view[d]) # fetched[d]} |-> fetched[c]]
Known(fetched) == [c \in {d \in DOMAIN fetched : fetched[d] # Unknown} |-> fetched[c]]

hydration_kind(r) == r.kind \in V3 \cup Pair \/ r.slots # {}
fast_metadata_complete(r) ==
  CASE r.kind \in Pair -> r.tokens = {0, 1}
    [] r.kind \in Discovering -> r.slots # {}
    [] OTHER -> r.complete

\* A full sync loads every word of the bitmap, the empty ones as zero, and the
\* ticks they set.
full_sync_program(r) ==
  {slot0(r), liquidity(r), transition_globals(r), observation(r)}
  \cup {word(r, w) : w \in WordPositions} \cup {tick(r, w) : w \in {v \in WordPositions : chain[word(r, v)] > 0}}
storage_sync_spec_for_pool(r) == IF r.kind \in Pair THEN reserves(r) \cup tokens(r) ELSE r.slots
Program(r) == IF r.kind \in V3 THEN full_sync_program(r) ELSE storage_sync_spec_for_pool(r)

\* finalize_prepared_registration: only the prepared path rejects a degenerate pair.
finalize_prepared_registration(r) ==
  r.kind = "v2" => \A c \in reserves(r) \cup tokens(r) : chain[c] # 0

-----------------------------------------------------------------------------
(* Code seeds. *)

\* What the adapter makes of a registration: a claim, none, or a render error.
\* A V2 pair has one runtime.  A V3 pool's is rendered from its metadata, which
\* may lack an immutable.  A Curve pool's is what the caller supplied, if anything.
code_seeds(r) ==
  CASE r.kind = "v2" -> "claim"
    [] r.kind = "uniswap" /\ r.complete -> r.rendered
    [] r.kind = "curve" /\ r.rendered = "claim" -> "claim"
    [] OTHER -> "none"
claims(r) == code_seeds(r) = "claim"

\* seed_account_code: the cache's own code wins over a claim that differs.
seed_account_code(s, i) ==
  CASE s[i] = "none" -> [s EXCEPT ![i] = "Pending"]
    [] s[i] = "real" /\ canonical[i] -> [s EXCEPT ![i] = "Verified"]
    [] OTHER -> s

seed_batch(s, indices) ==
  [i \in DOMAIN s |-> IF i \in indices /\ claims(reg[i]) THEN seed_account_code(s, i)[i] ELSE s[i]]

\* `answered' is the set of claims the account fetch answers, or the call fails.
verify_code_seeds(s, answered) ==
  [i \in DOMAIN s |-> IF s[i] = "Pending" /\ i \in answered
                      THEN IF canonical[i] THEN "Verified" ELSE "none"
                      ELSE s[i]]

\* Unverifiable claims keep the code they seeded.
verify_leaving_pending(s, answered) == verify_code_seeds(s, answered)

\* Whatever is still pending is purged, and its real code is fetched lazily.
verify_pending_seeds(s, answered) ==
  [i \in DOMAIN s |-> IF verify_code_seeds(s, answered)[i] = "Pending" THEN "none"
                      ELSE verify_code_seeds(s, answered)[i]]

seed_and_verify(indices) ==
  LET seeded == seed_batch(seeds, indices)
      pending == {i \in indices : claims(reg[i]) /\ seeded[i] = "Pending"}
  IN IF pending = {} THEN seeds' = seeded
     ELSE \E answered \in SUBSET DOMAIN seeds : seeds' = verify_pending_seeds(seeded, answered)

-----------------------------------------------------------------------------
(* The drivers. *)

Fast == {i \in DOMAIN reg : hydration_kind(reg[i]) /\ fast_metadata_complete(reg[i])}

\* AdapterRegistry::cold_start: seeding, if the registry and the cache allow it,
\* then the first round of the planner.  No claim and a claim that cannot be
\* rendered are skipped alike.
BeginPool(i) ==
  /\ IF seeding THEN seed_and_verify({i}) ELSE UNCHANGED seeds
  /\ planner' = cold_start_planner(reg[i])
  /\ plan' = initial_plan(reg[i])
  /\ pc' = "round"
  /\ UNCHANGED <<fixed, replayed, reg, cache, queue, outcome, owned, verified, rounds, patch, faults>>

cold_start == mode \in {"single", "many"} /\ pc = "fallback" /\ queue # <<>> /\ BeginPool(Head(queue))

Finished(i, pl) ==
  LET result == finish(reg[i], pl)
  IN /\ reg' = [reg EXCEPT ![i] = result.r]
     /\ outcome' = [outcome EXCEPT ![i] = result.outcome]
     /\ owned' = [owned EXCEPT ![i] = result.owned]
     /\ verified' = [verified EXCEPT ![i] = pl.verified]

\* One round of EvmCache::run_cold_start, and the planner's answer to it.
run_cold_start ==
  /\ mode \in {"single", "many"} /\ pc = "round"
  /\ LET i == Head(queue)
         r == reg[i]
         discovering == planner.phase = "Discover"
     IN \E lost \in Losses(plan), found \in {read_set(r), {}} :
          LET fetched == Fetch(plan, lost)
              view == Over(cache, Changed(cache, fetched))
              pl == on_results(r, planner, fetched, view, found)
              done == pl.phase = "Done"
              zeros == [c \in materialization_updates(pl) |-> 0]
          IN /\ found = {} => discovering
             /\ faults' = faults + Cardinality(lost) + (IF found = {} THEN 1 ELSE 0)
             /\ cache' = IF done /\ r.kind \in V3 THEN Over(view, zeros) ELSE view
             /\ planner' = pl
             /\ plan' = pl.next
             /\ IF done
                THEN Finished(i, pl) /\ queue' = Tail(queue) /\ pc' = "fallback"
                ELSE UNCHANGED <<reg, outcome, owned, verified, queue, pc>>
  /\ faults' <= MaxFaults
  /\ UNCHANGED <<fixed, replayed, seeds, rounds, patch>>

\* Step 2 of cold_start_many: the claims of all fast pools, verified in one call.
seed_fast_pools ==
  /\ mode = "many" /\ pc = "seed"
  /\ IF seeding THEN seed_and_verify(Fast) ELSE UNCHANGED seeds
  /\ pc' = "hydrate"
  /\ UNCHANGED <<fixed, replayed, reg, cache, queue, planner, plan, outcome, owned, verified, rounds, patch, faults>>

\* Step 3: one bundled call; a program that fails leaves its pool to the planner.
hydrate ==
  /\ mode = "many" /\ pc = "hydrate"
  /\ \E lost \in SUBSET Fast :
       LET loaded == Fast \ lost
           cells == UNION {Program(reg[i]) : i \in loaded}
       IN /\ cache' = Over(cache, [c \in cells |-> chain[c]])
          /\ reg' = [i \in DOMAIN reg |-> IF i \in loaded THEN [reg[i] EXCEPT !.status = "Ready"] ELSE reg[i]]
          /\ outcome' = [i \in DOMAIN reg |-> IF i \in loaded THEN "Ready" ELSE None]
          /\ verified' = [i \in DOMAIN reg |-> IF i \in loaded THEN Program(reg[i]) ELSE {}]
          /\ faults' = faults + Cardinality(lost)
  /\ faults' <= MaxFaults
  /\ pc' = "external"
  /\ UNCHANGED <<fixed, replayed, seeds, queue, planner, plan, owned, rounds, patch>>

\* Step 4: the cells outside the pools, in one more batch.  A short answer
\* (`malformed') or a failed cell sends the pool to the planner.
prewarm_external ==
  /\ mode = "many" /\ pc = "external"
  /\ LET hydrated == {i \in DOMAIN reg : outcome[i] # None}
         targets == UNION {verified_storage_targets(reg[i]) : i \in hydrated}
     IN \E lost \in Losses(targets), malformed \in BOOLEAN :
          LET dropped == {i \in hydrated : /\ verified_storage_targets(reg[i]) # {}
                                           /\ malformed \/ verified_storage_targets(reg[i]) \cap lost # {}}
              kept == hydrated \ dropped
          IN /\ malformed => targets # {}
             /\ cache' = Over(cache, Known(Fetch(targets, lost)))
             /\ outcome' = [i \in DOMAIN reg |-> IF i \in dropped THEN None ELSE outcome[i]]
             /\ verified' = [i \in DOMAIN reg |->
                              IF i \in kept THEN verified[i] \cup verified_storage_targets(reg[i]) ELSE {}]
             /\ queue' = SelectSeq([i \in DOMAIN reg |-> i], LAMBDA i : i \notin kept)
             /\ faults' = faults + Cardinality(lost)
  /\ pc' = "fallback"
  /\ UNCHANGED <<fixed, replayed, reg, seeds, planner, plan, owned, rounds, patch>>

finish_call ==
  /\ mode \in {"single", "many"} /\ pc = "fallback" /\ queue = <<>>
  /\ pc' = "done"
  /\ UNCHANGED <<fixed, replayed, reg, cache, seeds, queue, planner, plan, outcome, owned, verified, rounds, patch, faults>>

\* An upstream error (no batch fetcher) leaves the call with `?'.
fail_call ==
  /\ mode \in {"single", "many"} /\ pc = "round"
  /\ pc' = "error"
  /\ UNCHANGED <<fixed, replayed, reg, cache, seeds, queue, planner, plan, outcome, owned, verified, rounds, patch, faults>>

-----------------------------------------------------------------------------
(* PreparedPoolJob: one pool, off the actor. *)

Ends(result) ==
  /\ pc' = result
  /\ UNCHANGED <<fixed, replayed, cache, seeds, queue, planner, plan>>

\* Code a job installs is proved against the chain: the claims of the adapter,
\* and the real runtime of the forks that have no template.
\* A claim that cannot be rendered ends a job.
prepare_code_seeds(r) ==
  CASE ~seeding \/ code_seeds(r) = "none" -> {TRUE}
    [] code_seeds(r) = "error" -> {FALSE}
    [] OTHER -> BOOLEAN
prepare_verified_code_targets(r) == IF r.kind \in {"pancake", "slipstream"} THEN BOOLEAN ELSE {TRUE}

Eligible(r) ==
  /\ fast_metadata_complete(r) /\ hydration_kind(r)
  /\ verified_storage_targets(r) = {}
  /\ finalize_prepared_registration(r)

\* A pool that cannot be hydrated, or whose program fails, is left to the planner;
\* code that cannot be proved ends the job.
prepare_fast_pool ==
  /\ mode = "job" /\ pc = "seed"
  /\ LET r == reg[1]
     IN \/ /\ Eligible(r)
           /\ TRUE \in prepare_code_seeds(r) \cap prepare_verified_code_targets(r)
           /\ patch' = [c \in Program(r) |-> chain[c]]
           /\ reg' = [reg EXCEPT ![1].status = "Ready"]
           /\ outcome' = [outcome EXCEPT ![1] = "Ready"]
           /\ verified' = [verified EXCEPT ![1] = Program(r)]
           /\ owned' = [owned EXCEPT ![1] = IF r.kind \in V3 THEN Program(r) ELSE @]
           /\ Ends("done")
           /\ UNCHANGED <<rounds, faults>>
        \/ /\ Eligible(r)
           /\ FALSE \in prepare_code_seeds(r) \cup prepare_verified_code_targets(r)
           /\ Ends("failed")
           /\ UNCHANGED <<reg, outcome, owned, verified, rounds, patch, faults>>
        \/ /\ faults' = IF Eligible(r) THEN faults + 1 ELSE faults
           /\ faults' <= MaxFaults
           /\ Ends("prove")
           /\ UNCHANGED <<reg, outcome, owned, verified, rounds, patch>>

\* prepare_pool_from_view, PreparedPoolJob::new: the proofs come before the first round.
prepare_accounts ==
  /\ mode = "job" /\ pc = "prove"
  /\ \E seeded \in prepare_code_seeds(reg[1]), fetched \in prepare_verified_code_targets(reg[1]) :
       Ends(IF seeded /\ fetched THEN "step" ELSE "failed")
  /\ UNCHANGED <<reg, outcome, owned, verified, rounds, patch, faults>>

\* A replay over the live cache instead of the snapshot.
LiveStateView(storage) == Over(cache, storage)

\* The view a step of the job gives its planner.
WorkerStateView(storage) == Over(base, storage)

same_prepared_plan(left, right) == left = right

\* A quantum starts from a fresh planner.
begin_step ==
  /\ mode = "job" /\ pc = "step"
  /\ planner' = cold_start_planner(reg[1])
  /\ plan' = initial_plan(reg[1])
  /\ replayed' = 0
  /\ pc' = IF Len(rounds) >= MaxRounds THEN "budget" ELSE "replay"
  /\ UNCHANGED <<fixed, reg, cache, seeds, queue, outcome, owned, verified, rounds, patch, faults>>

\* One historical round: its plan must come out again, and its results must not finish.
replay_round ==
  /\ mode = "job" /\ pc = "replay" /\ replayed < Len(rounds)
  /\ LET round == rounds[replayed + 1]
         pl == on_results(reg[1], planner, round.fetched, WorkerStateView(round.storage), {})
     IN /\ planner' = pl
        /\ plan' = pl.next
        /\ pc' = IF same_prepared_plan(plan, round.plan) /\ pl.phase # "Done" THEN "replay" ELSE "diverged"
  /\ replayed' = replayed + 1
  /\ UNCHANGED <<fixed, reg, cache, seeds, queue, outcome, owned, verified, rounds, patch, faults>>

\* The new round: fetched, absorbed, appended to the transcript and answered.
fetch_round ==
  /\ mode = "job" /\ pc = "replay" /\ replayed = Len(rounds)
  /\ planner.phase # "Discover"
  /\ \E lost \in Losses(plan) :
       LET fetched == Fetch(plan, lost)
           known == Known(fetched)
           storage == IF rounds = <<>> THEN known ELSE known @@ Last(rounds).storage
           pl == on_results(reg[1], planner, fetched, WorkerStateView(storage), {})
       IN /\ rounds' = Append(rounds, [plan |-> plan, fetched |-> fetched, storage |-> storage])
          /\ patch' = known @@ patch
          /\ faults' = faults + Cardinality(lost)
          /\ pc' = CASE pl.phase # "Done" -> "step"
                     [] finish(reg[1], pl).outcome = "NeedsRepair" -> "failed"
                     [] OTHER -> "done"
          /\ IF pl.phase = "Done" /\ finish(reg[1], pl).outcome # "NeedsRepair" THEN Finished(1, pl)
             ELSE UNCHANGED <<reg, outcome, owned, verified>>
  /\ UNCHANGED <<fixed, cache, seeds, queue, planner, plan, replayed>>

\* A worker has no facility for discovery calls.
reject_unsupported_phase ==
  /\ mode = "job" /\ pc = "replay" /\ planner.phase = "Discover"
  /\ Ends("failed")
  /\ UNCHANGED <<reg, outcome, owned, verified, rounds, patch, faults>>

\* The actor goes on writing its cache while the job runs.
LiveWrite ==
  /\ mode = "job" /\ pc \in {"step", "replay"} /\ rounds # <<>>
  /\ \E c \in CellsOf(reg[1]), v \in 0 .. 1 :
       /\ c[2] = "word" /\ cache[c] # v
       /\ cache' = [cache EXCEPT ![c] = v]
  /\ UNCHANGED <<fixed, replayed, pc, reg, seeds, queue, planner, plan, outcome, owned, verified, rounds, patch, faults>>

-----------------------------------------------------------------------------
(* Runs. *)

Registration(i, kind, known, rendered, reviewed) ==
  LET r == [key |-> i, kind |-> kind, status |-> "Cold", complete |-> known,
            rendered |-> rendered, reviewed |-> reviewed,
            tokens |-> IF known THEN {0, 1} ELSE {}, slots |-> {}]
  IN [r EXCEPT !.slots = IF known /\ kind \in Discovering THEN read_set(r) ELSE {}]

\* The pinned state: the current tick's word, the words with a tick, and
\* whether the remaining cells are zero.
ChainOf(cells, at, set, rest) ==
  [c \in cells |-> CASE c[2] = "slot0" -> at
                     [] c[2] = "word" -> IF c[3] \in set THEN 1 ELSE 0
                     [] c[2] = "tick" -> IF c[3] \in set THEN rest ELSE 0
                     [] c[2] = "token" -> 1
                     [] OTHER -> rest]

\* Some claim will be made; otherwise the code of a pool makes no difference.
Settling == seeding /\ \E i \in DOMAIN reg : claims(reg[i])

Init ==
  /\ mode \in {"single", "many", "job"}
  /\ policy \in Policies
  /\ \E kinds \in IF mode = "many" THEN Batches ELSE {<<f>> : f \in Families}, known \in BOOLEAN :
       \E rendered \in {"claim", "none", "error"},
          reviewed \in SUBSET {i \in DOMAIN kinds : kinds[i] = "slipstream"} :
            /\ rendered # "claim" => ToSet(kinds) \cap {"uniswap", "curve"} # {}
            /\ reg = [i \in DOMAIN kinds |->
                        Registration(i, kinds[i], known, rendered, i \in reviewed)]
  /\ \E at \in 0 .. 1 + Cardinality(WordPositions), set \in SUBSET WordPositions, rest \in 0 .. 1 :
       chain = ChainOf(AllCells(reg), IF at > Cardinality(WordPositions) THEN 0 ELSE at, set, rest)
  /\ \E warm \in BOOLEAN : cache = [c \in AllCells(reg) |-> IF warm THEN 1 ELSE Unknown]
  \* Claims are made and verified in the cache, which a job does not touch.
  /\ seeding \in BOOLEAN
  /\ \E all \in IF mode # "job" /\ Settling THEN BOOLEAN ELSE {TRUE} :
       canonical = [i \in DOMAIN reg |-> all]
  /\ \E code \in CASE mode = "job" -> {"none"}
                   [] mode # "job" /\ Settling -> {"none", "real", "Pending", "Etched"}
                   [] OTHER -> {"none", "Pending"} :
       seeds = [i \in DOMAIN reg |-> code]
  /\ before = seeds
  /\ base = cache
  /\ pc = IF mode = "single" THEN "fallback" ELSE "seed"
  /\ queue = IF mode = "single" THEN <<1>> ELSE <<>>
  /\ planner = cold_start_planner(reg[1])
  /\ plan = {}
  /\ outcome = [i \in DOMAIN reg |-> None]
  /\ owned = [i \in DOMAIN reg |-> DeclaredOwned(reg[i])]
  /\ verified = [i \in DOMAIN reg |-> {}]
  /\ rounds = <<>>
  /\ replayed = 0
  /\ patch = <<>>
  /\ faults = 0

Next == \/ cold_start \/ run_cold_start \/ seed_fast_pools \/ hydrate \/ prewarm_external
        \/ finish_call \/ fail_call \/ prepare_fast_pool \/ prepare_accounts
        \/ begin_step \/ replay_round \/ fetch_round \/ reject_unsupported_phase \/ LiveWrite

Fairness == WF_vars(prepare_fast_pool) /\ WF_vars(prepare_accounts) /\ WF_vars(begin_step)
            /\ WF_vars(replay_round) /\ WF_vars(fetch_round) /\ WF_vars(reject_unsupported_phase)

-----------------------------------------------------------------------------
(* Properties. *)

\* What a pool served under `policy' must have in the cache.
Required(r) ==
  LET window == IF chain[slot0(r)] = 0 THEN {} ELSE resolve_window(chain[slot0(r)] - 1)
  IN CASE r.kind \in Exact ->
            {slot0(r), liquidity(r), transition_globals(r)} \cup verified_storage_targets(r)
            \cup (IF policy \in Warming /\ window # {}
                  THEN {observation(r)} \cup {word(r, w) : w \in window}
                       \cup {tick(r, w) : w \in {v \in window : chain[word(r, v)] > 0}}
                  ELSE {})
       [] r.kind = "pancake" -> {slot0(r)}
       [] r.kind \in Pair -> reserves(r)
       [] OTHER -> r.slots

Held == IF mode = "job" THEN patch ELSE cache

\* A pool that any driver finishes as ready has every cell its surface promises,
\* at the pinned block's value.  On the exact surfaces a cell that is zero on
\* chain is held as zero: an absent cell never stands for it.
ReadyIsExact ==
  pc = "done" =>
    \A i \in DOMAIN reg : outcome[i] \in {"Ready", "ReadyWithDeferred"} =>
      \A c \in Required(reg[i]) :
        \/ c \in DOMAIN Held /\ Held[c] = chain[c]
        \/ reg[i].kind \notin Exact /\ chain[c] = 0 /\ c \in DOMAIN Held /\ Held[c] = Unknown

\* A cold start serves no code the chain was not seen to run.  However the call
\* ends, a claim that is still unverified was there before it, and what counts
\* as verified is what the chain runs.  When it returns with seeding on, every
\* pool the adapter has a claim for is settled: verified, purged, or the
\* caller's own etch.  With seeding off it neither makes nor settles a claim.
NoUnverifiedCode ==
  mode # "job" /\ pc \in {"done", "error"} =>
    \A i \in DOMAIN reg :
      /\ seeds[i] = "Pending" => before[i] = "Pending"
      /\ seeds[i] = "Verified" => canonical[i]
      /\ pc = "done" /\ seeding /\ claims(reg[i]) => seeds[i] # "Pending"
      /\ ~seeding => seeds[i] = before[i]

\* A prepared job ends with a prepared pool or a provider's failure.  Its
\* replays never diverge from its transcript, although the cache moves on,
\* and it never runs out of rounds.
JobEnds == <>(mode # "job" \/ pc \in {"done", "failed"})

=============================================================================
