---------------------------- MODULE V3Contract ----------------------------
(***************************************************************************)
(* The deployed pool contract whose events src/adapters/v3_transition.rs   *)
(* replays: what one call does to the pool's storage cells and the event   *)
(* it emits.  The contract is not part of the repository; it is modelled   *)
(* from the canonical bodies the adapter's comments name (swap,            *)
(* _modifyPosition, Tick.update and Tick.clear, Oracle.write and grow,     *)
(* flash, setFeeProtocol, collectProtocol) and, for Slipstream, the staked *)
(* fee split and the reward clock.  A cell is <<kind, index>>.             *)
(***************************************************************************)
EXTENDS V3Math, FiniteSets, FiniteSetsExt, TLC
CONSTANTS Fee,              \* the Uniswap pool fee, in units of 1/Denominator
          UnstakedFee,      \* the Slipstream levy on unstaked liquidity's fees
          RewardSeeded,     \* a Slipstream runtime that seeds rewardGrowthOutside
          RewardRate, MaxPerTick, GrowthMod, FeeMod, CumMod, MaxCardinality

Ticks == MinTick .. MaxTick

Words == {v3_word_position(t) : t \in Ticks}

TicksOf(w) == {t \in Ticks : v3_word_position(t) = w}

EmptyTick == [gross |-> 0, net |-> 0, staked |-> 0]

EmptyOutside == [fg0 |-> 0, fg1 |-> 0, reward |-> 0, cum |-> 0, spl |-> 0, seconds |-> 0, initialized |-> FALSE]

\* Oracle.transform.
Observe(o, now, tick, liq) ==
  LET d == now - o.ts
  IN  [ts |-> now, cum |-> (o.cum + tick * d) % CumMod,
       spl |-> (o.spl + (d * G) \div (IF liq = 0 THEN 1 ELSE liq)) % CumMod, init |-> TRUE]

\* Oracle.write: the slot0 and the ring after an observation at `now'.
OracleWrite(s, s0, liq, now) ==
  LET last == s[<<"ob", s0.idx>>]
      card == IF s0.next > s0.card /\ s0.idx = s0.card - 1 THEN s0.next ELSE s0.card
      at   == (s0.idx + 1) % card
  IN  IF last.ts = now THEN [slot0 |-> s0, ring |-> <<>>]
      ELSE [slot0 |-> [s0 EXCEPT !.idx = at, !.card = card],
            ring |-> (<<"ob", at>> :> Observe(last, now, s0.tick, liq))]

\* nextInitializedTickWithinOneWord, clamped to the tick bounds.
NextTick(s, tick, zfo) ==
  LET from == IF zfo THEN tick ELSE tick + 1
      bits == {t \in s[<<"bm", v3_word_position(from)>>] : IF zfo THEN t <= from ELSE t >= from}
      edge == IF zfo THEN v3_word_position(from) * WordTicks ELSE (v3_word_position(from) + 1) * WordTicks - 1
  IN  IF bits # {} THEN [tick |-> IF zfo THEN Max(bits) ELSE Min(bits), init |-> TRUE]
      ELSE [tick |-> Max({MinTick, Min({MaxTick, edge})}), init |-> FALSE]

\* SwapMath.computeSwapStep; `left' is what is still to be taken or given, `full' what
\* the whole way to the target takes and gives, `got' what the way to `next' does.
StepPrice(sqrt, target, liq, left, exactIn, net, zfo, full) ==
  IF exactIn THEN IF net >= full.amount_in THEN target ELSE next_sqrt_from_input(sqrt, liq, net, zfo)
  ELSE IF left >= full.amount_out THEN target ELSE next_sqrt_from_output(sqrt, liq, left, zfo)

StepAmounts(next, target, left, exactIn, fee, got) ==
  [next |-> next, amount_in |-> got.amount_in,
   out |-> IF ~exactIn /\ got.amount_out > left THEN left ELSE got.amount_out,
   fee |-> IF exactIn /\ next # target THEN left - got.amount_in ELSE fee_for_full_step(got.amount_in, fee)]

StepTo(sqrt, next, target, liq, left, exactIn, fee, zfo) ==
  StepAmounts(next, target, left, exactIn, fee, segment_amounts(sqrt, next, liq, zfo))

ComputeSwapStep(sqrt, target, liq, left, exactIn, fee, zfo) ==
  StepTo(sqrt, StepPrice(sqrt, target, liq, left, exactIn, mul_div(left, Denominator - fee, Denominator), zfo,
                         segment_amounts(sqrt, target, liq, zfo)),
         target, liq, left, exactIn, fee, zfo)

\* calculateFees of a Slipstream pool: LP growth and the gauge's part.
SplitFees(amount, liq, staked) ==
  IF liq = staked THEN [growth |-> 0, gauge |-> amount]
  ELSE LET base == IF staked = 0 THEN 0 ELSE mul_div_round_up(amount, staked, liq)
           levy == mul_div_round_up(amount - base, UnstakedFee, Denominator)
       IN  [growth |-> mul_div(amount - base - levy, G, liq - staked), gauge |-> base + levy]

\* _updateRewardsGrowthGlobal.
Rewards(s, now) ==
  LET d == now - s[<<"last", 0>>]   reserve == s[<<"reserve", 0>>]
      reward == Min({RewardRate * d, reserve})   staked == s[<<"staked", 0>>]
  IN  IF d = 0 THEN s
      ELSE IF reserve = 0 THEN [s EXCEPT ![<<"last", 0>>] = now]
      ELSE IF staked = 0
      THEN [s EXCEPT ![<<"last", 0>>] = now, ![<<"reserve", 0>>] = @ - reward, ![<<"rollover", 0>>] = @ + reward]
      ELSE [s EXCEPT ![<<"last", 0>>] = now, ![<<"reserve", 0>>] = @ - reward,
                     ![<<"reward", 0>>] = (@ + mul_div(reward, G, staked)) % GrowthMod]

\* Tick.cross: the outside words of a crossed tick.
Cross(o, s, obs, now) ==
  [o EXCEPT !.fg0 = (s[<<"fg0", 0>>] - @) % GrowthMod, !.fg1 = (s[<<"fg1", 0>>] - @) % GrowthMod,
            !.reward = (s[<<"reward", 0>>] - @) % GrowthMod, !.cum = (obs.cum - @) % CumMod,
            !.spl = (obs.spl - @) % CumMod, !.seconds = now - @]

\* The protocol's part of a step's fee, and how the rest is split.
ProtocolCut(q, start, fee) ==
  LET d == IF q.zfo THEN start.fp0 ELSE start.fp1
  IN  IF q.family # "uniswap" \/ d = 0 THEN 0 ELSE fee \div d

StepSplit(k, q, fee, proto) ==
  IF k.liq = 0 THEN [growth |-> 0, gauge |-> 0]
  ELSE IF q.family = "uniswap" THEN [growth |-> mul_div(fee - proto, G, k.liq), gauge |-> 0]
  ELSE SplitFees(fee, k.liq, k.staked)

\* The storage after a step, and after the crossing that ends it.
Accrue(s, q, growth) == [s EXCEPT ![IF q.zfo THEN <<"fg0", 0>> ELSE <<"fg1", 0>>] = (@ + growth) % GrowthMod]

CrossInto(s, t, obs, now) == [s EXCEPT ![<<"out", t>>] = Cross(@, s, obs, now)]

StepStore(s, q, start, now, split, crossed, t) ==
  IF ~crossed THEN Accrue(s, q, split.growth)
  ELSE CrossInto(IF q.family = "slipstream" THEN Rewards(Accrue(s, q, split.growth), now) ELSE Accrue(s, q, split.growth),
                 t, Observe(s[<<"ob", start.idx>>], now, start.tick, q.liq), now)

\* The local state of the loop after a step that ended in the next tick (hit) or before it.
StepLocal(s, k, q, nt, step, taken, hit) ==
  LET sign == IF ~(hit /\ nt.init) THEN 0 ELSE IF q.zfo THEN -1 ELSE 1
  IN  [k EXCEPT !.sqrt = step.next,
                !.left = IF q.exactIn THEN @ - step.amount_in - step.fee ELSE @ - step.out,
                !.paid = @ + step.amount_in + step.fee, !.got = @ + step.out,
                !.fees = (@ + taken) % FeeMod,
                !.liq = @ + sign * s[<<"tick", nt.tick>>].net,
                !.staked = @ + sign * s[<<"tick", nt.tick>>].staked,
                !.tick = IF hit THEN IF q.zfo THEN nt.tick - 1 ELSE nt.tick
                         ELSE IF step.next # k.sqrt THEN Max({t \in Ticks : sqrt_ratio_at_tick(t) <= step.next})
                         ELSE @]

\* One turn of the swap loop over storage s; k carries the loop's local state.
TurnSplit(s, k, q, start, now, nt, step, proto, split, hit) ==
  [store |-> StepStore(s, q, start, now, split, hit /\ nt.init, nt.tick),
   local |-> StepLocal(s, k, q, nt, step, IF q.family = "uniswap" THEN proto ELSE split.gauge, hit)]

TurnStep(s, k, q, start, now, nt, step) ==
  TurnSplit(s, k, q, start, now, nt, step, ProtocolCut(q, start, step.fee),
            StepSplit(k, q, step.fee, ProtocolCut(q, start, step.fee)), step.next = sqrt_ratio_at_tick(nt.tick))

TurnTo(s, k, q, start, now, nt, next) ==
  TurnStep(s, k, q, start, now, nt,
           ComputeSwapStep(k.sqrt, IF q.zfo THEN Max({next, q.limit}) ELSE Min({next, q.limit}),
                           k.liq, k.left, q.exactIn, q.fee, q.zfo))

TurnAt(s, k, q, start, now, nt) == TurnTo(s, k, q, start, now, nt, sqrt_ratio_at_tick(nt.tick))

SwapTurn(s, k, q, start, now) == TurnAt(s, k, q, start, now, NextTick(s, k.tick, q.zfo))

RECURSIVE SwapLoop(_, _, _, _)
SwapLoop(at, q, start, now) ==
  IF at.local.left = 0 \/ at.local.sqrt = q.limit \/ at.local.sqrt = 0 THEN at
  ELSE SwapLoop(SwapTurn(at.store, at.local, q, start, now), q, start, now)

\* The end of a swap: slot0, liquidity, the protocol's or the gauge's fees, and the event.
SwapEnd(q, s0, o, store, k) ==
  [ok |-> (IF q.zfo THEN q.limit < s0.sqrt ELSE q.limit > s0.sqrt) /\ k.sqrt # 0 /\ k.paid > 0,
   store |-> (IF k.tick # s0.tick THEN o.ring ELSE <<>>)
             @@ [store EXCEPT ![<<"slot0", 0>>] = [(IF k.tick # s0.tick THEN o.slot0 ELSE s0) EXCEPT !.sqrt = k.sqrt, !.tick = k.tick],
                              ![<<"liq", 0>>] = k.liq, ![<<"staked", 0>>] = k.staked,
                              ![IF q.family = "uniswap" THEN <<"pf", 0>> ELSE <<"gauge", 0>>] =
                                 [@ EXCEPT ![IF q.zfo THEN 1 ELSE 2] = (@ + k.fees) % FeeMod]],
   event |-> [zfo |-> q.zfo, paid |-> k.paid, got |-> k.got, sqrt |-> k.sqrt, liq |-> k.liq, tick |-> k.tick]]

SwapEnded(q, s0, o, at) == SwapEnd(q, s0, o, at.store, at.local)

\* swap(): q = [family, zfo, exactIn, amount, limit, fee]; refused when reverted.
SwapFrom(s, q, s0, liq, now) ==
  SwapEnded(q, s0, OracleWrite(s, s0, liq, now),
            SwapLoop([store |-> s,
                      local |-> [sqrt |-> s0.sqrt, tick |-> s0.tick, liq |-> liq, staked |-> s[<<"staked", 0>>],
                                 left |-> q.amount, paid |-> 0, got |-> 0, fees |-> 0]],
                     [liq |-> liq] @@ q, s0, now))

Swap(s, q, now) == SwapFrom(s, q, s[<<"slot0", 0>>], s[<<"liq", 0>>], now)

\* Tick.update and, when a tick empties, Tick.clear.
UpdateTick(s, t, amount, upper, seed, family) ==
  LET old == s[<<"tick", t>>]   gross == old.gross + amount
      net == old.net + (IF upper THEN -amount ELSE amount)
      below == t <= s[<<"slot0", 0>>].tick
      fresh == IF below THEN seed ELSE [EmptyOutside EXCEPT !.initialized = TRUE]
  IN  IF gross = 0 THEN [tick |-> EmptyTick, out |-> EmptyOutside, flipped |-> old.gross # 0]
      ELSE [tick |-> [old EXCEPT !.gross = gross, !.net = net],
            out |-> IF old.gross = 0 THEN fresh ELSE s[<<"out", t>>], flipped |-> old.gross = 0]

\* mint() and burn(): a signed amount over [lower, upper).
Modify(s, family, lower, upper, amount, now) ==
  LET s0   == s[<<"slot0", 0>>]   liq == s[<<"liq", 0>>]
      obs  == Observe(s[<<"ob", s0.idx>>], now, s0.tick, liq)
      seed == [fg0 |-> s[<<"fg0", 0>>], fg1 |-> s[<<"fg1", 0>>],
               reward |-> IF family = "slipstream" /\ RewardSeeded THEN s[<<"reward", 0>>] ELSE 0,
               cum |-> obs.cum, spl |-> obs.spl, seconds |-> now, initialized |-> TRUE]
      a    == UpdateTick(s, lower, amount, FALSE, seed, family)
      b    == UpdateTick(s, upper, amount, TRUE, seed, family)
      flip == {t \in {lower, upper} : (t = lower /\ a.flipped) \/ (t = upper /\ b.flipped)}
      bm   == [c \in {<<"bm", v3_word_position(t)>> : t \in flip} |->
                 LET here == {t \in flip : v3_word_position(t) = c[2]} IN (s[c] \ here) \cup (here \ s[c])]
      o    == OracleWrite(s, s0, liq, now)
      inside == lower <= s0.tick /\ s0.tick < upper
  IN  (IF inside THEN o.ring @@ (<<"slot0", 0>> :> o.slot0) @@ (<<"liq", 0>> :> (liq + amount)) ELSE <<>>)
      @@ bm @@ (<<"tick", lower>> :> a.tick) @@ (<<"tick", upper>> :> b.tick)
      @@ (<<"out", lower>> :> a.out) @@ (<<"out", upper>> :> b.out) @@ s

\* flash(): the fees paid, split between the protocol and liquidity.
Flash(s, paid) ==
  LET s0 == s[<<"slot0", 0>>]
      cut(d, p) == IF d = 0 THEN 0 ELSE p \div d
      c0 == cut(s0.fp0, paid[1])   c1 == cut(s0.fp1, paid[2])
  IN  [s EXCEPT ![<<"pf", 0>>] = <<(@[1] + c0) % FeeMod, (@[2] + c1) % FeeMod>>,
                ![<<"fg0", 0>>] = (@ + mul_div(paid[1] - c0, G, s[<<"liq", 0>>])) % GrowthMod,
                ![<<"fg1", 0>>] = (@ + mul_div(paid[2] - c1, G, s[<<"liq", 0>>])) % GrowthMod]

\* collectProtocol(): what is transferred, one unit kept when all is asked.
Collected(s, asked) ==
  [i \in {1, 2} |-> LET have == s[<<"pf", 0>>][i]   want == Min({asked[i], have})
                    IN  IF want > 0 /\ want = have THEN want - 1 ELSE want]

\* increaseObservationCardinalityNext(): reserved slots carry only a timestamp of 1.
Grow(s, next) ==
  [c \in {<<"ob", i>> : i \in s[<<"slot0", 0>>].next .. (next - 1)} |-> [ts |-> 1, cum |-> 0, spl |-> 0, init |-> FALSE]]
  @@ [s EXCEPT ![<<"slot0", 0>>].next = next]
===========================================================================
