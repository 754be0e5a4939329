--------------------------- MODULE V3Transition ---------------------------
(***************************************************************************)
(* Event-only replay of concentrated-liquidity pools                       *)
(* (src/adapters/v3_transition.rs, src/adapters/uniswap_v3.rs).  The chain *)
(* runs the pool contract; the adapter sees each event and the part of the *)
(* pool's storage its cache holds, and either derives every cell the       *)
(* contract wrote, drops the cells it cannot derive and asks for them, or  *)
(* drops the pool's storage.  A cell the cache lacks is unknown, not zero. *)
(***************************************************************************)
EXTENDS V3Contract
CONSTANTS Fees,           \* the fees a Slipstream fee module may answer
          MaxSwapFee,     \* the largest fee the inference searches (100_000)
          MaxSwapSteps, Amounts, Limits, Ranges, MintAmounts, Radii, MaxEvents,
          StartPrices     \* [sqrt, tick] pairs the pool may be initialised at

VARIABLES family,     \* which of the two reviewed contract families the pool is
          chain,      \* the contract's storage: every cell
          cache,      \* the adapter's storage: the cells it knows
          wanted,     \* cells dropped by a partial transition, to be re-read
          time,       \* the timestamp of the newest block
          evidenced,  \* every Slipstream swap so far came with fee evidence
          verdict,    \* what the adapter made of the last event
          events      \* events so far, bounded by MaxEvents

vars == <<family, chain, cache, wanted, time, evidenced, verdict, events>>

Mandatory == {<<"slot0", 0>>, <<"liq", 0>>, <<"fg0", 0>>, <<"fg1", 0>>}
             \cup (IF family = "uniswap" THEN {<<"pf", 0>>}
                   ELSE {<<k, 0>> : k \in {"staked", "last", "reward", "gauge", "reserve", "rollover"}})

\* Results of a derivation: the cells it writes and the cells it gives up.
Ok(writes) == [ok |-> TRUE, writes |-> writes, cold |-> {}, why |-> ""]
Fail(why)  == [ok |-> FALSE, writes |-> <<>>, cold |-> {}, why |-> why]
Has(c, cells) == cells \subseteq DOMAIN c

-----------------------------------------------------------------------------
(* Reading the parent *)

\* The price of the parent lies in the parent's tick, its upper edge included.
validate_parent_slot0(s0) ==
  /\ s0.sqrt >= sqrt_ratio_at_tick(MinTick) /\ s0.sqrt < sqrt_ratio_at_tick(MaxTick)
  /\ s0.tick \in MinTick .. (MaxTick - 1)
  /\ sqrt_ratio_at_tick(s0.tick) <= s0.sqrt /\ s0.sqrt <= sqrt_ratio_at_tick(s0.tick + 1)

\* The event's price lies in its tick; a downward swap may end on the upper edge.
validate_final_tick(sqrt, tick, zfo) ==
  /\ sqrt \in Prices /\ tick \in Ticks
  /\ sqrt_ratio_at_tick(tick) <= sqrt
  /\ tick = MaxTick \/ sqrt < sqrt_ratio_at_tick(tick + 1) \/ (zfo /\ sqrt = sqrt_ratio_at_tick(tick + 1))

\* The next boundary of a walk, read from one bitmap word of the cache.
next_step_boundary(c, tick, zfo) ==
  LET from == IF zfo THEN tick ELSE tick + 1
      word == <<"bm", v3_word_position(from)>>
      bits == {t \in c[word] : IF zfo THEN t <= from ELSE t >= from}
      edge == IF zfo THEN from - (from % WordTicks) ELSE from + (WordTicks - 1 - (from % WordTicks))
  IN  IF ~Has(c, {word}) THEN [missing |-> TRUE]
      ELSE [missing |-> FALSE, initialized |-> bits # {},
            tick |-> IF bits = {} THEN Max({MinTick, Min({MaxTick, edge})}) ELSE IF zfo THEN Max(bits) ELSE Min(bits)]

\* Slipstream reads its own bitmap, by the same search over one word.
next_slipstream_step_boundary(c, tick, zfo) ==
  LET from == IF zfo THEN tick ELSE tick + 1
      word == v3_word_position(from)
      set == {t \in c[<<"bm", word>>] : IF zfo THEN t <= from ELSE t >= from}
  IN  IF ~Has(c, {<<"bm", word>>}) THEN [missing |-> TRUE]
      ELSE IF set # {} THEN [missing |-> FALSE, initialized |-> TRUE, tick |-> IF zfo THEN Max(set) ELSE Min(set)]
      ELSE [missing |-> FALSE, initialized |-> FALSE,
            tick |-> IF zfo THEN Max({MinTick, word * WordTicks}) ELSE Min({MaxTick, word * WordTicks + WordTicks - 1})]

step_boundary(c, tick, zfo) ==
  IF family = "uniswap" THEN next_step_boundary(c, tick, zfo) ELSE next_slipstream_step_boundary(c, tick, zfo)

\* An initialised tick must be held whole and agree with its bit.
load_initialized_tick(c, t) ==
  IF ~Has(c, {<<"tick", t>>, <<"out", t>>}) THEN "missing"
  ELSE IF c[<<"out", t>>].initialized /\ c[<<"tick", t>>].gross # 0 THEN "" ELSE "contradiction"

\* The ring entry the contract writes at `now', and the reading it is made of.
advance_oracle(c, s0, liq, now) ==
  LET cell == <<"ob", s0.idx>>
      last == c[cell]
      read == [ts |-> now, cum |-> (last.cum + s0.tick * (now - last.ts)) % CumMod,
               spl |-> (last.spl + ((now - last.ts) * G) \div (IF liq = 0 THEN 1 ELSE liq)) % CumMod, init |-> TRUE]
      card == IF s0.next > s0.card /\ s0.idx = s0.card - 1 THEN s0.next ELSE s0.card
      at   == (s0.idx + 1) % card
  IN  IF s0.card = 0 \/ s0.idx >= s0.card \/ s0.next < s0.card THEN [why |-> "contradiction"]
      ELSE IF ~Has(c, {cell}) THEN [why |-> "missing"]
      ELSE IF ~last.init THEN [why |-> "contradiction"]
      ELSE IF last.ts = now THEN [why |-> "", idx |-> s0.idx, card |-> s0.card, ring |-> <<>>, now |-> read]
      ELSE [why |-> "", idx |-> at, card |-> card, ring |-> (<<"ob", at>> :> read), now |-> read]

\* Crossing moves the outside words to the other side of the tick.
cross_tick_word(o, fg0, fg1, reward, obs, now) ==
  [o EXCEPT !.fg0 = (fg0 - @) % GrowthMod, !.fg1 = (fg1 - @) % GrowthMod, !.reward = (reward - @) % GrowthMod,
            !.cum = (obs.cum - @) % CumMod, !.spl = (obs.spl - @) % CumMod, !.seconds = now - @]

-----------------------------------------------------------------------------
(* The walk of a swap *)

Segment(w, sqrt, reached, crossed) ==
  [start |-> w.sqrt, stop |-> sqrt, liq |-> w.liq, staked |-> w.staked, reached |-> reached, crossed |-> crossed]
  @@ segment_amounts(w.sqrt, sqrt, w.liq, w.zfo)

\* Leaving a segment at boundary b: liquidity and staked liquidity cross with it.
apply_liquidity_net(c, w, b, crossed) ==
  LET sign == IF w.zfo THEN -1 ELSE 1
      liq == IF crossed THEN w.liq + sign * c[<<"tick", b.tick>>].net ELSE w.liq
      staked == IF crossed THEN w.staked + sign * c[<<"tick", b.tick>>].staked ELSE w.staked
  IN  [w EXCEPT !.liq = liq, !.staked = staked, !.tick = IF w.zfo THEN b.tick - 1 ELSE b.tick,
                !.why = IF liq < 0 \/ staked < 0 \/ staked > liq THEN "contradiction" ELSE @]

\* A downward swap that does not move the price may still cross the boundary it stands on.
replay_boundary_at(c, w, b) ==
  LET bad == IF b.initialized THEN load_initialized_tick(c, b.tick) ELSE ""
      seg == Segment(w, w.sqrt, TRUE, IF b.initialized THEN b.tick ELSE MaxTick + 1)
  IN  IF b.missing THEN [w EXCEPT !.why = "missing"]
      ELSE IF sqrt_ratio_at_tick(b.tick) # w.sqrt THEN w
      ELSE IF bad # "" THEN [w EXCEPT !.why = bad]
      ELSE apply_liquidity_net(c, [w EXCEPT !.segs = Append(@, seg)], b, b.initialized)

replay_boundary(c, w) == replay_boundary_at(c, w, step_boundary(c, w.tick, TRUE))

\* One segment of the walk: to the next boundary b or to the event's price.
walk_to(c, w, event, b, target, reached) ==
  LET crossed == reached /\ b.initialized
      bad == IF crossed THEN load_initialized_tick(c, b.tick) ELSE ""
      moved == [w EXCEPT !.sqrt = target,
                         !.segs = Append(@, Segment(w, target, reached, IF crossed THEN b.tick ELSE MaxTick + 1))]
  IN  IF bad # "" THEN [w EXCEPT !.why = bad]
      ELSE IF reached THEN apply_liquidity_net(c, moved, b, crossed)
      ELSE [moved EXCEPT !.tick = event.tick]

walk_towards(c, w, event, b, edge) ==
  IF w.zfo THEN walk_to(c, w, event, b, Max({edge, event.sqrt}), edge >= event.sqrt)
  ELSE walk_to(c, w, event, b, Min({edge, event.sqrt}), edge <= event.sqrt)

walk_from(c, w, event, b) ==
  IF b.missing THEN [w EXCEPT !.why = "missing"] ELSE walk_towards(c, w, event, b, sqrt_ratio_at_tick(b.tick))

walk_step(c, w, event) ==
  IF Len(w.segs) >= MaxSwapSteps THEN [w EXCEPT !.why = "limit"]
  ELSE walk_from(c, w, event, step_boundary(c, w.tick, w.zfo))

RECURSIVE walk(_, _, _)
walk(c, w, event) ==
  IF w.why # "" \/ w.sqrt = event.sqrt THEN w ELSE walk(c, walk_step(c, w, event), event)

\* The whole path of a swap, ending in the event's price, tick and liquidity.
path_end(event, w, tiny) ==
  IF w.why # "" THEN w
  ELSE IF \/ w.segs = <<>> /\ ~tiny
          \/ w.liq # event.liq \/ w.tick # event.tick THEN [w EXCEPT !.why = "contradiction"]
  ELSE IF w.segs = <<>> THEN [w EXCEPT !.segs = <<Segment(w, w.sqrt, FALSE, MaxTick + 1)>>]
  ELSE w

path_from(c, event, start) ==
  path_end(event,
           walk(c, IF event.zfo /\ start.sqrt = event.sqrt THEN replay_boundary(c, start) ELSE start, event),
           event.got = 0 /\ event.sqrt = start.sqrt)

path(c, event) ==
  path_from(c, event,
    [zfo |-> event.zfo, sqrt |-> c[<<"slot0", 0>>].sqrt, tick |-> c[<<"slot0", 0>>].tick, liq |-> c[<<"liq", 0>>],
     staked |-> IF family = "slipstream" THEN c[<<"staked", 0>>] ELSE 0, segs |-> <<>>, why |-> ""])

-----------------------------------------------------------------------------
(* The fees of a path *)

SumOf(segs, Val(_)) == FoldFunction(LAMBDA a, b : a + b, 0, [i \in DOMAIN segs |-> Val(segs[i])])

FullFees(segs, fee) == SumOf(segs, LAMBDA s : fee_for_full_step(s.amount_in, fee))

\* Exact output may give less than the final segment holds: "capped", "plain" or a mismatch.
output_is_capped(w, actual) ==
  LET last == w.segs[Len(w.segs)]
      derived == SumOf(w.segs, LAMBDA s : s.amount_out)
      left == actual - (derived - last.amount_out)
  IN  IF actual = derived THEN "plain"
      ELSE IF left > 0 /\ left < last.amount_out /\ next_sqrt_from_output(last.start, last.liq, left, w.zfo) = last.stop
      THEN "capped" ELSE "contradiction"

\* A final step's fee: the full-step fee, or what exact input left over of its budget.
valid_final_step_fee(start, stop, liq, amount_in, amount, fee, zfo) ==
  \/ amount = fee_for_full_step(amount_in, fee)
  \/ /\ amount > fee_for_full_step(amount_in, fee)
     /\ next_sqrt_from_input(start, liq, mul_div(amount_in + amount, Denominator - fee, Denominator), zfo) = stop

\* Mutant of with_remainder: the fee-only final step is forgotten.
with_no_remainder(w, total, fee, capped) == w.segs

\* An exact-input remainder that cannot move the price is a fee-only step of its own.
with_remainder(w, total, fee, capped) ==
  LET left == total - FullFees(w.segs, fee)
  IN  IF /\ ~capped /\ w.segs[Len(w.segs)].reached /\ left > 0
         /\ valid_final_step_fee(w.sqrt, w.sqrt, w.liq, 0, left, fee, w.zfo)
      THEN Append(w.segs, Segment(w, w.sqrt, FALSE, MaxTick + 1)) ELSE w.segs

\* The fee of every segment; empty when the event's input is not explained by them.
step_fees(segs, total, fee, zfo, capped) ==
  LET n == Len(segs)
      last == segs[n]
      before == FullFees(SubSeq(segs, 1, n - 1), fee)
      rest == total - before
      full == fee_for_full_step(last.amount_in, fee)
      final == IF last.reached THEN full ELSE rest
  IN  IF \/ rest # final
         \/ capped /\ rest # full
         \/ ~last.reached /\ ~valid_final_step_fee(last.start, last.stop, last.liq, last.amount_in, rest, fee, zfo)
      THEN <<>>
      ELSE [i \in 1 .. n |-> IF i = n THEN final ELSE fee_for_full_step(segs[i].amount_in, fee)]

-----------------------------------------------------------------------------
(* Slipstream: the fee is not in the event and is inferred from it *)

\* The largest input whose rounded price does not pass the event's.
maximum_input_budget(start, stop, liq, zfo) ==
  IF liq = 0 THEN 0
  ELSE (IF zfo THEN amount0_delta(stop - 1, start, liq, TRUE) ELSE amount1_delta(start, stop + 1, liq, TRUE)) - 1

maximum_partial_fee(amount_in, budget, fee) ==
  Max({0, mul_div_round_up(budget + 1, Denominator, Denominator - fee) - 1 - amount_in})

\* The least and the greatest total fee that a fee could have produced on the path.
slipstream_fee_interval(segs, fee, budget, capped) ==
  LET last == segs[Len(segs)]
      before == FullFees(SubSeq(segs, 1, Len(segs) - 1), fee)
      least == fee_for_full_step(last.amount_in, fee)
      most == IF capped THEN least
              ELSE IF last.reached THEN least + maximum_partial_fee(0, budget, fee)
              ELSE Max({maximum_partial_fee(last.amount_in, budget, fee), least})
  IN  <<before + least, before + most>>

\* The unique fee whose interval holds the total; -1 for none, -2 for several.
infer_slipstream_fee(w, total, capped) ==
  LET last == w.segs[Len(w.segs)]
      budget == IF capped THEN 0
                ELSE IF last.reached THEN maximum_input_budget(w.sqrt, w.sqrt, w.liq, w.zfo)
                ELSE maximum_input_budget(last.start, last.stop, last.liq, w.zfo)
      span(f) == slipstream_fee_interval(w.segs, f, budget, capped)
      reach == {f \in 0 .. MaxSwapFee : span(f)[2] >= total}
      start == {f \in 0 .. MaxSwapFee : span(f)[1] <= total}
  IN  IF reach = {} \/ start = {} THEN -1
      ELSE IF Min(reach) > Max(start) THEN -1
      ELSE IF Min(reach) < Max(start) THEN -2
      ELSE Min(reach)

\* LP growth and the gauge's part of one step's fee.
slipstream_fee_growth(amount, liq, staked) ==
  IF liq = 0 THEN <<0, 0>>
  ELSE IF liq = staked THEN <<0, amount>>
  ELSE LET base == IF staked = 0 THEN 0 ELSE mul_div_round_up(amount, staked, liq)
           levy == mul_div_round_up(amount - base, UnstakedFee, Denominator)
       IN  <<mul_div(amount - base - levy, G, liq - staked), base + levy>>

\* The reward clock, advanced once, at the first crossing.
update_slipstream_rewards(c, staked, now) ==
  LET d == now - c[<<"last", 0>>]
      reserve == c[<<"reserve", 0>>]
      reward == Min({RewardRate * d, reserve})
  IN  IF d = 0 THEN <<>>
      ELSE IF reserve = 0 THEN (<<"last", 0>> :> now)
      ELSE IF staked = 0
      THEN (<<"last", 0>> :> now) @@ (<<"reserve", 0>> :> (reserve - reward)) @@ (<<"rollover", 0>> :> (c[<<"rollover", 0>>] + reward))
      ELSE (<<"last", 0>> :> now) @@ (<<"reserve", 0>> :> (reserve - reward))
           @@ (<<"reward", 0>> :> ((c[<<"reward", 0>>] + mul_div(reward, G, staked)) % GrowthMod))

-----------------------------------------------------------------------------
(* Deriving the cells of each event *)

\* Direction and price sanity of a swap.
swap_refused(c, event) ==
  LET s0 == c[<<"slot0", 0>>]   tiny == event.got = 0 /\ event.sqrt = s0.sqrt
  IN  \/ ~validate_parent_slot0(s0)
      \/ event.paid = 0
      \/ ~tiny /\ (IF event.zfo THEN event.sqrt >= s0.sqrt ELSE event.sqrt <= s0.sqrt)
      \/ ~validate_final_tick(event.sqrt, event.tick, event.zfo)

\* Slipstream also refuses a parent with more staked than active liquidity.
slipstream_swap_refused(c, event) == c[<<"staked", 0>>] > c[<<"liq", 0>>] \/ swap_refused(c, event)

\* Evidence that declares the unstaked fee unused holds only while all liquidity is staked.
slipstream_path(w, evidence) ==
  IF w.why = "" /\ evidence = "unused" /\ \E i \in DOMAIN w.segs : w.segs[i].liq # w.segs[i].staked
  THEN [w EXCEPT !.why = "evidence"] ELSE w

\* The oracle is read only when the tick changes.
swap_oracle(c, event, now) ==
  LET s0 == c[<<"slot0", 0>>]
  IN  IF s0.tick # event.tick THEN advance_oracle(c, s0, c[<<"liq", 0>>], now)
      ELSE [why |-> "", idx |-> s0.idx, card |-> s0.card, ring |-> <<>>, now |-> [cum |-> 0, spl |-> 0]]

final_slot0(c, event, o) ==
  [c[<<"slot0", 0>>] EXCEPT !.sqrt = event.sqrt, !.tick = event.tick, !.idx = o.idx, !.card = o.card]

\* Growth of the input token after the first i segments, and the protocol's part.
Accrued(segs, fees, i, Share(_, _)) ==
  FoldFunction(LAMBDA a, b : a + b, 0, [j \in 1 .. i |-> Share(segs[j], fees[j])])

\* The outside words of the ticks a path crossed; fg(i, g) is growth g after segment i.
crossed_words(c, segs, crossed, fg(_, _), reward, obs, now) ==
  [cell \in {<<"out", segs[i].crossed>> : i \in crossed} |->
     LET i == CHOOSE j \in crossed : segs[j].crossed = cell[2]
     IN  cross_tick_word(c[cell], fg(i, "fg0"), fg(i, "fg1"), reward, obs, now)]

Crossings(segs) == {i \in DOMAIN segs : segs[i].crossed <= MaxTick}

\* The writes of a Uniswap swap, once its oracle entry, path and fees are known.
uniswap_swap_writes(c, event, now, o, w, segs, fees, d) ==
  LET taken(s, f) == IF d = 0 THEN 0 ELSE f \div d
      lp(s, f) == IF s.liq = 0 THEN 0 ELSE mul_div(f - taken(s, f), G, s.liq)
      fg(i, which) == (c[<<which, 0>>] + (IF (which = "fg0") = event.zfo THEN Accrued(segs, fees, i, lp) ELSE 0)) % GrowthMod
  IN  IF fees = <<>> THEN Fail("contradiction")
      ELSE IF \E i \in DOMAIN segs : segs[i].liq = 0 /\ fees[i] - taken(segs[i], fees[i]) # 0 THEN Fail("contradiction")
      ELSE Ok((<<"slot0", 0>> :> final_slot0(c, event, o)) @@ (<<"liq", 0>> :> w.liq)
              @@ (<<"fg0", 0>> :> fg(Len(segs), "fg0")) @@ (<<"fg1", 0>> :> fg(Len(segs), "fg1"))
              @@ (<<"pf", 0>> :> [c[<<"pf", 0>>] EXCEPT ![IF event.zfo THEN 1 ELSE 2] =
                                    (@ + Accrued(segs, fees, Len(segs), taken)) % FeeMod])
              @@ o.ring
              @@ crossed_words(c, segs, Crossings(segs), fg, 0, o.now, now))

uniswap_swap_fees(c, event, now, o, w, total, segs) ==
  uniswap_swap_writes(c, event, now, o, w, segs, step_fees(segs, total, Fee, event.zfo, FALSE),
                      IF event.zfo THEN c[<<"slot0", 0>>].fp0 ELSE c[<<"slot0", 0>>].fp1)

uniswap_swap_total(c, event, now, o, w, total, capped) ==
  IF capped = "contradiction" \/ total < 0 THEN Fail("contradiction")
  ELSE IF capped = "capped" /\ total # FullFees(w.segs, Fee) THEN Fail("contradiction")
  ELSE uniswap_swap_fees(c, event, now, o, w, total, with_remainder(w, total, Fee, capped = "capped"))

\* What the event paid beyond the inputs of a path's segments.
FeePaid(w, event) == event.paid - SumOf(w.segs, LAMBDA s : s.amount_in)

uniswap_swap_path(c, event, now, o, w) ==
  IF o.why # "" THEN Fail(o.why)
  ELSE IF w.why # "" THEN Fail(w.why)
  ELSE uniswap_swap_total(c, event, now, o, w, FeePaid(w, event), output_is_capped(w, event.got))

derive_uniswap_v3_swap(c, event, now) ==
  IF ~Has(c, Mandatory) THEN Fail("missing")
  ELSE IF swap_refused(c, event) THEN Fail("contradiction")
  ELSE uniswap_swap_path(c, event, now, swap_oracle(c, event, now), path(c, event))

\* The cells a later quote reads, and those that evidence lets a swap also account for.
slipstream_quote(c, event, o, w) ==
  (<<"slot0", 0>> :> final_slot0(c, event, o)) @@ (<<"liq", 0>> :> w.liq) @@ (<<"staked", 0>> :> w.staked) @@ o.ring

slipstream_accounting(c, event, now, o, segs, fees, rewards) ==
  LET lp(s, f) == slipstream_fee_growth(f, s.liq, s.staked)[1]
      gauge(s, f) == slipstream_fee_growth(f, s.liq, s.staked)[2]
      fg(i, which) == (c[<<which, 0>>] + (IF (which = "fg0") = event.zfo THEN Accrued(segs, fees, i, lp) ELSE 0)) % GrowthMod
      reward == IF <<"reward", 0>> \in DOMAIN rewards THEN rewards[<<"reward", 0>>] ELSE c[<<"reward", 0>>]
  IN  rewards @@ (<<"fg0", 0>> :> fg(Len(segs), "fg0")) @@ (<<"fg1", 0>> :> fg(Len(segs), "fg1"))
      @@ (<<"gauge", 0>> :> [c[<<"gauge", 0>>] EXCEPT ![IF event.zfo THEN 1 ELSE 2] =
                               (@ + Accrued(segs, fees, Len(segs), gauge)) % FeeMod])
      @@ crossed_words(c, segs, Crossings(segs), fg, reward, o.now, now)

\* Without evidence only the cells a later quote reads are written.
slipstream_swap_writes(c, event, evidence, claimed, now, o, w, fee, segs, fees) ==
  IF fees = <<>> THEN Fail("contradiction")
  ELSE IF evidence = "none" THEN Ok(slipstream_quote(c, event, o, w))
  ELSE IF fee # claimed THEN Fail("contradiction")
  ELSE Ok(slipstream_quote(c, event, o, w)
          @@ slipstream_accounting(c, event, now, o, segs, fees,
               IF Crossings(segs) = {} THEN <<>>
               ELSE update_slipstream_rewards(c, segs[Min(Crossings(segs))].staked, now)))

slipstream_swap_fees(c, event, evidence, claimed, now, o, w, total, fee, capped, segs) ==
  slipstream_swap_writes(c, event, evidence, claimed, now, o, w, fee, segs, step_fees(segs, total, fee, event.zfo, capped))

slipstream_swap_fee(c, event, evidence, claimed, now, o, w, total, capped, fee) ==
  IF fee = -1 THEN Fail("contradiction")
  ELSE IF fee = -2 THEN Fail("ambiguous")
  ELSE slipstream_swap_fees(c, event, evidence, claimed, now, o, w, total, fee, capped, with_remainder(w, total, fee, capped))

slipstream_swap_total(c, event, evidence, claimed, now, o, w, total, capped) ==
  IF capped = "contradiction" \/ total < 0 THEN Fail("contradiction")
  ELSE slipstream_swap_fee(c, event, evidence, claimed, now, o, w, total, capped = "capped",
                           infer_slipstream_fee(w, total, capped = "capped"))

slipstream_swap_path(c, event, evidence, claimed, now, o, w) ==
  IF o.why # "" THEN Fail(o.why)
  ELSE IF w.why # "" THEN Fail(w.why)
  ELSE slipstream_swap_total(c, event, evidence, claimed, now, o, w, FeePaid(w, event), output_is_capped(w, event.got))

derive_slipstream_swap(c, event, evidence, claimed, now) ==
  IF ~Has(c, {<<"slot0", 0>>, <<"liq", 0>>, <<"staked", 0>>}) THEN Fail("missing")
  ELSE IF evidence # "none" /\ ~Has(c, Mandatory) THEN Fail("missing")
  ELSE IF slipstream_swap_refused(c, event) THEN Fail("contradiction")
  ELSE slipstream_swap_path(c, event, evidence, claimed, now, swap_oracle(c, event, now),
                            slipstream_path(path(c, event), evidence))

\* One boundary of a liquidity change, a clear bit proving the tick empty.
update_canonical_liquidity_tick(c, t, amount, upper, seed) ==
  LET bit == t \in c[<<"bm", v3_word_position(t)>>]
      old == IF bit THEN c[<<"tick", t>>] ELSE EmptyTick
      out == IF bit THEN c[<<"out", t>>] ELSE EmptyOutside
      gross == old.gross + amount
      fresh == IF t <= c[<<"slot0", 0>>].tick THEN seed ELSE [EmptyOutside EXCEPT !.initialized = TRUE]
  IN  IF bit /\ ~Has(c, {<<"tick", t>>, <<"out", t>>}) THEN [why |-> "missing"]
      ELSE IF \/ ~bit /\ Has(c, {<<"tick", t>>}) /\ c[<<"tick", t>>].gross # 0
              \/ (old.gross # 0) # out.initialized \/ bit # (old.gross # 0)
              \/ gross < 0 \/ gross > MaxPerTick
      THEN [why |-> "contradiction"]
      ELSE [why |-> "", flipped |-> (old.gross = 0) # (gross = 0),
            tick |-> IF gross = 0 THEN EmptyTick
                     ELSE [old EXCEPT !.gross = gross, !.net = @ + (IF upper THEN -amount ELSE amount)],
            out |-> IF gross = 0 THEN EmptyOutside ELSE IF old.gross = 0 THEN fresh ELSE out]

\* What a new tick at or below the current one is seeded with.
outside_seed(c, o, now) ==
  [fg0 |-> c[<<"fg0", 0>>], fg1 |-> c[<<"fg1", 0>>],
   reward |-> IF family = "slipstream" /\ RewardSeeded THEN c[<<"reward", 0>>] ELSE 0,
   cum |-> o.now.cum, spl |-> o.now.spl, seconds |-> now, initialized |-> TRUE]

\* Mutant of in_range_writes: the upper boundary counts as in range.
in_range_closed(c, event, o) ==
  LET s0 == c[<<"slot0", 0>>]
  IN  IF event.lower <= s0.tick /\ s0.tick <= event.upper
      THEN (IF o.ring = <<>> THEN <<>> ELSE o.ring @@ (<<"slot0", 0>> :> [s0 EXCEPT !.idx = o.idx, !.card = o.card]))
           @@ (<<"liq", 0>> :> (c[<<"liq", 0>>] + event.amount))
      ELSE <<>>

\* The cells an in-range change writes besides its boundaries.
in_range_writes(c, event, o) ==
  LET s0 == c[<<"slot0", 0>>]
  IN  IF event.lower <= s0.tick /\ s0.tick < event.upper
      THEN (IF o.ring = <<>> THEN <<>> ELSE o.ring @@ (<<"slot0", 0>> :> [s0 EXCEPT !.idx = o.idx, !.card = o.card]))
           @@ (<<"liq", 0>> :> (c[<<"liq", 0>>] + event.amount))
      ELSE <<>>

\* Two boundaries may share a word: their flips are merged, never written twice.
flipped_words(c, flips) ==
  [cell \in {<<"bm", v3_word_position(t)>> : t \in flips} |->
     LET here == {t \in flips : v3_word_position(t) = cell[2]} IN (c[cell] \ here) \cup (here \ c[cell])]

\* Each boundary is resolved on its own; a word shared with an unresolved one is given up.
derive_uniswap_v3_liquidity(c, event, now) ==
  LET s0 == c[<<"slot0", 0>>]
      o == advance_oracle(c, s0, c[<<"liq", 0>>], now)
      seed == outside_seed(c, o, now)
      at(t) == <<"bm", v3_word_position(t)>>
      done(t) == IF ~Has(c, {at(t)}) THEN [why |-> "missing"]
                 ELSE update_canonical_liquidity_tick(c, t, event.amount, t = event.upper, seed)
      ends == {event.lower, event.upper}
      known == {t \in ends : done(t).why = ""}
      lost == {t \in ends : done(t).why = "missing"}
      cold == UNION {{<<"tick", t>>, <<"out", t>>, at(t)} : t \in lost}
      flips == {t \in known : done(t).flipped /\ at(t) \notin cold}
  IN  IF event.amount = 0 THEN Ok(<<>>)
      ELSE IF ~Has(c, {<<"slot0", 0>>, <<"liq", 0>>}) THEN Fail("missing")
      ELSE IF ~validate_parent_slot0(s0) THEN Fail("contradiction")
      ELSE IF o.why # "" THEN Fail(o.why)
      ELSE IF ~Has(c, {<<"fg0", 0>>, <<"fg1", 0>>}) THEN Fail("missing")
      ELSE IF \E t \in ends : done(t).why = "contradiction" THEN Fail("contradiction")
      ELSE [ok |-> TRUE, cold |-> cold, why |-> "",
            writes |-> in_range_writes(c, event, o)
                       @@ flipped_words(c, flips)
                       @@ [cell \in {<<"tick", t>> : t \in known} |-> done(cell[2]).tick]
                       @@ [cell \in {<<"out", t>> : t \in known} |-> done(cell[2]).out]]

\* Slipstream reads the boundary tick whatever its bit, and then checks the bit.
update_slipstream_liquidity_tick(c, t, amount, upper, seed) ==
  LET old == c[<<"tick", t>>]
      out == c[<<"out", t>>]
      gross == old.gross + amount
      fresh == IF t <= c[<<"slot0", 0>>].tick THEN seed ELSE [EmptyOutside EXCEPT !.initialized = TRUE]
  IN  IF \/ (old.gross # 0) # out.initialized \/ (old.gross = 0 /\ (old # EmptyTick \/ out # EmptyOutside))
         \/ gross < 0 \/ gross > MaxPerTick
         \/ (t \in c[<<"bm", v3_word_position(t)>>]) # (old.gross # 0)
      THEN [why |-> "contradiction"]
      ELSE [why |-> "", flipped |-> (old.gross = 0) # (gross = 0),
            tick |-> IF gross = 0 THEN EmptyTick
                     ELSE [old EXCEPT !.gross = gross, !.net = @ + (IF upper THEN -amount ELSE amount)],
            out |-> IF gross = 0 THEN EmptyOutside ELSE IF old.gross = 0 THEN fresh ELSE out]

\* Slipstream reads both boundary ticks and their words, and fails if one is absent.
derive_slipstream_liquidity(c, event, now) ==
  LET s0 == c[<<"slot0", 0>>]
      o == advance_oracle(c, s0, c[<<"liq", 0>>], now)
      seed == outside_seed(c, o, now)
      ends == {event.lower, event.upper}
      at(t) == <<"bm", v3_word_position(t)>>
      done(t) == update_slipstream_liquidity_tick(c, t, event.amount, t = event.upper, seed)
      flips == {t \in ends : done(t).flipped}
  IN  IF event.amount = 0 THEN Ok(<<>>)
      ELSE IF ~Has(c, {<<"slot0", 0>>, <<"liq", 0>>}) THEN Fail("missing")
      ELSE IF ~validate_parent_slot0(s0) THEN Fail("contradiction")
      ELSE IF o.why # "" THEN Fail(o.why)
      ELSE IF ~Has(c, {<<"fg0", 0>>, <<"fg1", 0>>} \cup (IF RewardSeeded THEN {<<"reward", 0>>} ELSE {})
                      \cup UNION {{<<"tick", t>>, <<"out", t>>, at(t)} : t \in ends}) THEN Fail("missing")
      ELSE IF \E t \in ends : done(t).why # "" THEN Fail("contradiction")
      ELSE Ok(in_range_writes(c, event, o)
              @@ flipped_words(c, flips)
              @@ [cell \in {<<"tick", t>> : t \in ends} |-> done(cell[2]).tick]
              @@ [cell \in {<<"out", t>> : t \in ends} |-> done(cell[2]).out])

\* A payment below the quoted fee contradicts a canonical flash.
derive_uniswap_v3_flash(c, event) ==
  LET s0 == c[<<"slot0", 0>>]   liq == c[<<"liq", 0>>]
      cut(i) == LET d == IF i = 1 THEN s0.fp0 ELSE s0.fp1 IN IF d = 0 THEN 0 ELSE event.paid[i] \div d
      grown(g, i) == (g + mul_div(event.paid[i] - cut(i), G, liq)) % GrowthMod
  IN  IF ~Has(c, Mandatory) THEN Fail("missing")
      ELSE IF liq = 0 \/ \E i \in {1, 2} : event.paid[i] < mul_div_round_up(event.lent[i], Fee, Denominator)
      THEN Fail("contradiction")
      ELSE Ok((<<"fg0", 0>> :> grown(c[<<"fg0", 0>>], 1)) @@ (<<"fg1", 0>> :> grown(c[<<"fg1", 0>>], 2))
              @@ (<<"pf", 0>> :> [i \in {1, 2} |-> (c[<<"pf", 0>>][i] + cut(i)) % FeeMod]))

\* The old split of the event must be the parent's.
derive_uniswap_v3_set_fee_protocol(c, event) ==
  IF ~Has(c, {<<"slot0", 0>>}) THEN Fail("missing")
  ELSE IF <<c[<<"slot0", 0>>].fp0, c[<<"slot0", 0>>].fp1>> # event.old THEN Fail("contradiction")
  ELSE Ok(<<"slot0", 0>> :> [c[<<"slot0", 0>>] EXCEPT !.fp0 = event.new[1], !.fp1 = event.new[2]])

derive_uniswap_v3_collect_protocol(c, event) ==
  IF ~Has(c, {<<"pf", 0>>}) THEN Fail("missing")
  ELSE IF \E i \in {1, 2} : event.amounts[i] > c[<<"pf", 0>>][i] THEN Fail("contradiction")
  ELSE Ok(<<"pf", 0>> :> [i \in {1, 2} |-> c[<<"pf", 0>>][i] - event.amounts[i]])

\* Reserved ring slots are known without reading them.
derive_uniswap_v3_observation_growth(c, event) ==
  IF ~Has(c, {<<"slot0", 0>>}) THEN Fail("missing")
  ELSE IF event.new <= event.old \/ c[<<"slot0", 0>>].card = 0 \/ c[<<"slot0", 0>>].next # event.old THEN Fail("contradiction")
  ELSE Ok([cell \in {<<"ob", i>> : i \in event.old .. (event.new - 1)} |-> [ts |-> 1, cum |-> 0, spl |-> 0, init |-> FALSE]]
          @@ (<<"slot0", 0>> :> [c[<<"slot0", 0>>] EXCEPT !.next = event.new]))

-----------------------------------------------------------------------------
(* The adapter's handlers *)

Positions == {<<"pos", i>> : i \in DOMAIN Ranges}

\* A derivation that fails costs the pool's whole storage and a purge repair.
swap_invalidation(why) == [cache |-> <<>>, wanted |-> {}, verdict |-> why]

\* What an event does to the cache: exact writes, dropped positions, cold cells to re-read.
applied(r, positions) ==
  IF ~r.ok THEN swap_invalidation(r.why)
  ELSE LET gone == r.cold \cup (IF family = "uniswap" THEN positions ELSE {})
           next == r.writes @@ cache
       IN  [cache |-> [cell \in DOMAIN next \ gone |-> next[cell]],
            wanted |-> (wanted \ DOMAIN r.writes) \cup r.cold,
            verdict |-> IF r.cold = {} THEN "exact" ELSE "repair"]

\* Without a complete event context every mutation is an invalidation.
deliver(a) == cache' = a.cache /\ wanted' = a.wanted /\ verdict' = a.verdict

decode_event(complete, r, positions) ==
  deliver(IF complete THEN applied(r, positions) ELSE swap_invalidation("context"))

\* An upward swap that leaves the price on the upper edge of the parent's tick.
Standing(event) ==
  LET s0 == chain[<<"slot0", 0>>]
  IN  ~event.zfo /\ event.sqrt = s0.sqrt /\ s0.sqrt = sqrt_ratio_at_tick(s0.tick + 1)

\* One event is delivered, in the block `time' or in the next one.
Event(now) == events < MaxEvents /\ now \in {time, time + 1} /\ time' = now /\ events' = events + 1 /\ UNCHANGED family

\* The derivation of a swap, a refused standing swap marked.
SwapVerdict(event, r) == IF r.why = "contradiction" /\ Standing(event) THEN Fail("standing") ELSE r

DeliverSwap(now, complete, evidence, fee, x) ==
  /\ x.ok
  /\ chain' = x.store
  /\ evidenced' = (evidenced /\ (family = "uniswap" \/ evidence # "none"))
  /\ decode_event(complete,
       SwapVerdict(x.event, IF family = "uniswap" THEN derive_uniswap_v3_swap(cache, x.event, now)
                            ELSE derive_slipstream_swap(cache, x.event, evidence, fee, now)), {})

SwapEvent(now, complete) ==
  /\ Event(now)
  /\ \E zfo, exactIn \in BOOLEAN, amount \in Amounts, limit \in Limits,
        fee \in (IF family = "uniswap" THEN {Fee} ELSE Fees),
        evidence \in (IF family = "uniswap" THEN {"none"} ELSE {"none", "evaluated", "unused"}) :
       /\ IF zfo THEN limit < chain[<<"slot0", 0>>].sqrt ELSE limit > chain[<<"slot0", 0>>].sqrt
       /\ evidence = "unused" => chain[<<"liq", 0>>] = chain[<<"staked", 0>>]
       /\ DeliverSwap(now, complete, evidence, fee,
            Swap(chain, [family |-> family, zfo |-> zfo, exactIn |-> exactIn, amount |-> amount, limit |-> limit, fee |-> fee], now))

\* Mint, Burn and the zero-amount Burn that only settles a position's fees.
LiquidityEvent(now, complete) ==
  /\ Event(now)
  /\ \E i \in DOMAIN Ranges, amount \in MintAmounts \cup {-m : m \in MintAmounts} \cup {0} :
       LET lower == Ranges[i][1]   upper == Ranges[i][2]
           pos == chain[<<"pos", i>>]
           moved == IF amount = 0 THEN chain ELSE Modify(chain, family, lower, upper, amount, now)
           event == [lower |-> lower, upper |-> upper, amount |-> amount]
       IN  /\ pos.liq + amount >= 0 /\ (amount = 0 => pos.liq > 0)
           /\ \A t \in {lower, upper} : chain[<<"tick", t>>].gross + amount <= MaxPerTick
           /\ chain' = [moved EXCEPT ![<<"pos", i>>] = [liq |-> pos.liq + amount, stamp |-> 1 - pos.stamp]]
           /\ evidenced' = evidenced
           /\ decode_event(complete,
                IF family = "uniswap" THEN derive_uniswap_v3_liquidity(cache, event, now)
                ELSE derive_slipstream_liquidity(cache, event, now), {<<"pos", i>>})

\* Collect moves a position's balance and nothing a quote reads.
CollectEvent(now, complete) ==
  /\ Event(now)
  /\ \E i \in DOMAIN Ranges :
       /\ chain[<<"pos", i>>].liq > 0
       /\ chain' = [chain EXCEPT ![<<"pos", i>>].stamp = 1 - @]
       /\ evidenced' = evidenced
       /\ decode_event(complete, Ok(<<>>), {<<"pos", i>>})

\* Flash, SetFeeProtocol, CollectProtocol and observation growth of a canonical pool.
AccountingEvent(now, complete) ==
  /\ Event(now) /\ family = "uniswap" /\ evidenced' = evidenced
  /\ LET s0 == chain[<<"slot0", 0>>]
     IN  \/ \E lent \in {<<0, 0>>, <<4, 1>>}, extra \in {0, 3} :
              LET paid == [i \in {1, 2} |-> mul_div_round_up(lent[i], Fee, Denominator) + extra]
              IN  /\ chain[<<"liq", 0>>] > 0
                  /\ chain' = Flash(chain, paid)
                  /\ decode_event(complete, derive_uniswap_v3_flash(cache, [lent |-> lent, paid |-> paid]), {})
         \/ \E new \in {<<0, 0>>, <<4, 5>>} :
              /\ chain' = [chain EXCEPT ![<<"slot0", 0>>].fp0 = new[1], ![<<"slot0", 0>>].fp1 = new[2]]
              /\ decode_event(complete,
                   derive_uniswap_v3_set_fee_protocol(cache, [old |-> <<s0.fp0, s0.fp1>>, new |-> new]), {})
         \/ LET got == Collected(chain, <<FeeMod, 1>>)
            IN  /\ got # [i \in {1, 2} |-> 0]
                /\ chain' = [chain EXCEPT ![<<"pf", 0>>] = [i \in {1, 2} |-> @[i] - got[i]]]
                /\ decode_event(complete, derive_uniswap_v3_collect_protocol(cache, [amounts |-> got]), {})
         \/ \E next \in (s0.next + 1) .. MaxCardinality :
              /\ chain' = Grow(chain, next)
              /\ decode_event(complete, derive_uniswap_v3_observation_growth(cache, [old |-> s0.next, new |-> next]), {})

\* The engine re-reads the cells a partial transition gave up, or the pool's window after a purge.
Window(s, radius) ==
  LET near == {w \in Words : w - v3_word_position(s[<<"slot0", 0>>].tick) \in (-radius) .. radius}
  IN  Mandatory \cup Positions \cup {<<"ob", s[<<"slot0", 0>>].idx>>} \cup {<<"bm", w>> : w \in near}
      \cup UNION {{<<"tick", t>>, <<"out", t>>} : t \in UNION {s[<<"bm", w>>] : w \in near}}

Reread ==
  /\ wanted # {} \/ cache = <<>>
  /\ \E radius \in Radii :
     LET want == IF cache = <<>> THEN Window(chain, radius) ELSE wanted
     IN  /\ cache' = [cell \in want |-> chain[cell]] @@ cache
         /\ evidenced' = (evidenced \/ cache = <<>>)
  /\ wanted' = {}
  /\ UNCHANGED <<family, chain, time, verdict, events>>

\* A pool with one deployed position over the first range, its first observation taken at 1
\* and protocol fees left from its earlier life.
Deployed(f, at, staked) ==
  LET lower == Ranges[1][1]   upper == Ranges[1][2]   amount == CHOOSE m \in MintAmounts : TRUE
      zero == [cell \in {<<"slot0", 0>>, <<"liq", 0>>, <<"fg0", 0>>, <<"fg1", 0>>, <<"pf", 0>>, <<"staked", 0>>, <<"last", 0>>,
                         <<"reward", 0>>, <<"gauge", 0>>, <<"reserve", 0>>, <<"rollover", 0>>}
                        \cup {<<"bm", w>> : w \in Words} \cup {<<"tick", t>> : t \in Ticks} \cup {<<"out", t>> : t \in Ticks}
                        \cup {<<"ob", 0>>} \cup Positions |->
                 CASE cell[1] = "slot0" -> [sqrt |-> at.sqrt, tick |-> at.tick, idx |-> 0, card |-> 1, next |-> 1, fp0 |-> 4, fp1 |-> 0]
                   [] cell[1] = "pf" -> <<2, 2>>
                   [] cell[1] = "gauge" -> <<0, 0>>
                   [] cell[1] = "bm" -> {}
                   [] cell[1] = "tick" -> EmptyTick
                   [] cell[1] = "out" -> EmptyOutside
                   [] cell[1] = "ob" -> [ts |-> 1, cum |-> 0, spl |-> 0, init |-> TRUE]
                   [] cell[1] = "pos" -> [liq |-> IF cell[2] = 1 THEN amount ELSE 0, stamp |-> 0]
                   [] cell[1] = "last" -> 1
                   [] cell[1] = "reserve" -> 5
                   [] OTHER -> 0]
      minted == Modify(zero, f, lower, upper, amount, 1)
      inside == lower <= at.tick /\ at.tick < upper
      part == IF staked THEN amount \div 2 ELSE 0
  IN  IF f = "uniswap" THEN minted
      ELSE [minted EXCEPT ![<<"staked", 0>>] = IF inside THEN part ELSE 0,
                          ![<<"tick", lower>>].staked = part, ![<<"tick", upper>>].staked = -part]

Init ==
  /\ family \in {"uniswap", "slipstream"}
  /\ \E at \in StartPrices, staked \in {FALSE, family = "slipstream"} : chain = Deployed(family, at, staked)
  /\ \E radius \in Radii : cache = [cell \in Window(chain, radius) |-> chain[cell]]
  /\ wanted = {} /\ time = 1 /\ evidenced = TRUE /\ verdict = "" /\ events = 0

Next == \/ \E now \in {time, time + 1}, complete \in BOOLEAN :
             \/ SwapEvent(now, complete)
             \/ LiquidityEvent(now, complete)
             \/ CollectEvent(now, complete)
             \/ AccountingEvent(now, complete)
        \/ Reread

Spec == Init /\ [][Next]_vars

-----------------------------------------------------------------------------
\* Cells whose value decides what a later swap pays.
QuoteCells == {"slot0", "liq", "staked", "bm", "tick", "ob"}

\* Every cell the adapter keeps is the contract's, whatever sequence of events led
\* there: derive_* writes all that changed and drops what it could not derive.  A
\* Slipstream pool replayed without fee evidence promises only the cells quotes read,
\* and never the positions.
CacheExact ==
  \A cell \in DOMAIN cache :
     (cell[1] \in QuoteCells \/ (evidenced /\ (family = "uniswap" \/ cell[1] # "pos"))) => cache[cell] = chain[cell]

\* An event of the contract is refused only for state the cache lacks, for a fee the
\* event does not determine, or for evidence that does not apply: the checks of the
\* derivations never contradict what the contract does.  The one exception is the
\* standing swap of StandingSwapReplays.
CanonicalAccepted ==
  verdict \in {"", "exact", "repair", "missing", "ambiguous", "evidence", "context", "standing"}

\* docs/v3-event-transitions.md:77-79: replay handles both directions and tiny
\* exact-input swaps whose entire input becomes a fee without moving price.  Violated:
\* after a downward swap that ends on a boundary the parent's tick lies below its price,
\* and an upward tiny swap from there is refused by validate_final_tick.
StandingSwapReplays == verdict # "standing"
===========================================================================
