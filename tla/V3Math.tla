------------------------------ MODULE V3Math ------------------------------
(***************************************************************************)
(* The fixed-point arithmetic that src/adapters/v3_transition.rs carries   *)
(* for replaying concentrated-liquidity events.  The scales are constants, *)
(* so the rounding is exact at a size TLC can enumerate: Q stands for      *)
(* 2^96, G for 2^128, Denominator for 1_000_000, Ratios for the TickMath   *)
(* table and WordTicks for the 256 ticks of a bitmap word (spacing 1).     *)
(***************************************************************************)
EXTENDS Integers, Sequences
CONSTANTS Q, G, Denominator, Ratios, MinTick, WordTicks

\* Zero, or the rounding of a quotient up: div_512 with round_up.
CeilDiv(a, b) == (a + b - 1) \div b

mul_div(a, b, d) == (a * b) \div d

mul_div_round_up(a, b, d) == CeilDiv(a * b, d)

MaxTick == MinTick + Len(Ratios) - 1

sqrt_ratio_at_tick(t) == Ratios[t - MinTick + 1]

\* The price bounds within which a swap may end, both excluded.
Prices == (sqrt_ratio_at_tick(MinTick) + 1) .. (sqrt_ratio_at_tick(MaxTick) - 1)

\* Amounts between two prices of one liquidity segment, rounded up for input.
amount0_delta(lo, hi, liq, up) ==
  IF up THEN CeilDiv(liq * (hi - lo) * Q, hi * lo) ELSE (liq * (hi - lo) * Q) \div (hi * lo)

amount1_delta(lo, hi, liq, up) ==
  IF up THEN CeilDiv(liq * (hi - lo), Q) ELSE (liq * (hi - lo)) \div Q

\* What a segment takes in and gives out.
segment_amounts(a, b, liq, zfo) ==
  LET lo == IF a < b THEN a ELSE b   hi == IF a < b THEN b ELSE a
  IN  IF zfo THEN [amount_in |-> amount0_delta(lo, hi, liq, TRUE), amount_out |-> amount1_delta(lo, hi, liq, FALSE)]
             ELSE [amount_in |-> amount1_delta(lo, hi, liq, TRUE), amount_out |-> amount0_delta(lo, hi, liq, FALSE)]

fee_for_full_step(amount_in, fee) == mul_div_round_up(amount_in, fee, Denominator - fee)

\* The price an input moves to; 0 stands for the arithmetic error of empty liquidity.
next_sqrt_from_input(sqrt, liq, amount, zfo) ==
  IF liq = 0 THEN 0
  ELSE IF zfo THEN IF amount = 0 THEN sqrt ELSE CeilDiv(liq * Q * sqrt, liq * Q + amount * sqrt)
  ELSE sqrt + mul_div(amount, Q, liq)

\* The price an output moves to; 0 when the output exhausts the virtual reserves.
next_sqrt_from_output(sqrt, liq, amount, zfo) ==
  IF liq = 0 THEN 0
  ELSE IF zfo THEN LET taken == mul_div_round_up(amount, Q, liq) IN IF taken < sqrt THEN sqrt - taken ELSE 0
  ELSE IF amount = 0 THEN sqrt
  ELSE LET left == liq * Q - amount * sqrt IN IF left > 0 THEN CeilDiv(liq * Q * sqrt, left) ELSE 0

\* The bitmap word of a tick.
v3_word_position(t) == t \div WordTicks
===========================================================================
