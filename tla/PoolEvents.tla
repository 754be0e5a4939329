----------------------------- MODULE PoolEvents -----------------------------
(***************************************************************************)
(* How the log adapters keep the cached words of a pool equal to the       *)
(* chain's: Uniswap V2 and Solidly write the reserves of a Sync, Balancer  *)
(* V2 applies a swap to the two vault balances its cold start located by   *)
(* value and reads the rest again, and Curve reads its discovered slots    *)
(* again after every event of its dialect.                                 *)
(*                                                                         *)
(* A block is played by the contracts (external), which change storage and *)
(* emit logs; its logs are handled in order, then the words the handlers   *)
(* asked for are read at that block, each read succeeding or not.  A word  *)
(* is <<low field, high field>>: both reserves of a pair, one reserve, a   *)
(* vault balance <<cash, managed>> or the two cash fields of a TWO_TOKEN   *)
(* pool.  The top 32 bits (a timestamp or a block number), which no event  *)
(* carries and no quote reads, are left out.                               *)
(***************************************************************************)
EXTENDS Integers, Sequences, FiniteSets, SequencesExt

CONSTANTS Portfolios,  \* the sets of pools that are tracked together
          CashMax,     \* the largest value of a field of 112 bits
          Managed,     \* the balances asset managers may hold
          MaxLogs      \* bound: logs emitted

Cold == <<>>
Fields == 0 .. CashMax
Vault == "vault"

Solidly == {"solidly", "bare"}
Balancer == {"two", "twin", "general"}
Curve == {"stable", "stable_ng", "crypto", "tricrypto_ng"}

\* The contract that emits a pool's logs and the words of its quote.
emitter(p) == IF p \in Balancer THEN Vault ELSE p
slots(p) ==
  CASE p \in Solidly -> {"reserve0", "reserve1"}
    [] p = "general" -> {"a", "b", "c"}
    [] OTHER -> {"word"}
\* The storage layout a Solidly registration carries, and "bare" has none.
solidly_layout(p) == IF p = "solidly" THEN slots(p) ELSE {}

tokens(p) == IF p = "general" THEN {"a", "b", "c"} ELSE {"a", "b"}
is_two_token_pool(p) == p \in {"two", "twin"}

\* Where the vault keeps a token's cash.
cell(p, t) == IF is_two_token_pool(p) THEN <<"word", t = "b">> ELSE <<t, FALSE>>

VARIABLES pools,     \* the tracked pools
          chain,     \* the contracts' words
          logs,      \* the logs of the block, not yet handled
          phase,     \* "chain", "logs" or "resync"
          cache,     \* the cached words; Cold is a word that is not cached
          metadata,  \* what a cold start recorded: known slots, token_cash
          owed,      \* the words handlers asked to be read at this block
          status,    \* Ready or Degraded
          played     \* logs emitted

vars == <<pools, chain, logs, phase, cache, metadata, owed, status, played>>

-----------------------------------------------------------------------------
(* Packed fields. *)

cash_field(word, high) == IF high THEN word[2] ELSE word[1]
set_cash_field(word, high, cash) ==
  IF high THEN <<word[1], cash>> ELSE <<cash, word[2]>>

\* The word after a change of one field, Cold when the field would leave its
\* 112 bits.
apply_cash_delta(word, high, add, amount) ==
  LET new == IF add THEN cash_field(word, high) + amount
                    ELSE cash_field(word, high) - amount
  IN IF word = Cold \/ new \notin Fields THEN Cold ELSE set_cash_field(word, high, new)

-----------------------------------------------------------------------------
(* Cold start: what it leaves in the metadata of a pool. *)

\* getPoolTokens: a token's balance is its cash and what is managed.
balance_of(p, t) ==
  LET at == cell(p, t)
      word == chain[p][at[1]]
  IN IF is_two_token_pool(p) THEN cash_field(word, at[2]) ELSE word[1] + word[2]

\* A probe that keeps one of several fields that hold the balance.
probe_any_match(p) ==
  LET matches(t) ==
        {at \in slots(p) \X (IF is_two_token_pool(p) THEN BOOLEAN ELSE {FALSE}) :
           cash_field(chain[p][at[1]], at[2]) = balance_of(p, t)}
      first(t) == CHOOSE at \in matches(t) : TRUE
  IN {[token |-> t, slot |-> first(t)[1], high |-> first(t)[2]] :
        t \in {x \in tokens(p) : balance_of(p, x) # 0 /\ matches(x) # {}}}

\* A token is located by the one field that holds its balance; a zero balance,
\* or a balance found in no field or in several, is left to be read again.
probe_token_cash(p) ==
  LET matches(t) ==
        {at \in slots(p) \X (IF is_two_token_pool(p) THEN BOOLEAN ELSE {FALSE}) :
           cash_field(chain[p][at[1]], at[2]) = balance_of(p, t)}
  IN {[token |-> t, slot |-> at[1], high |-> at[2]] :
        <<t, at>> \in {x \in tokens(p) \X (slots(p) \X BOOLEAN) :
                         balance_of(p, x[1]) # 0 /\ matches(x[1]) = {x[2]}}}

token_cash_location(p, t) == {l \in metadata[p].token_cash : l.token = t}

Unstarted == [known |-> {}, token_cash |-> {}]

\* Cold start verifies the words of a pool; the first one also discovers them
\* and probes, a later one keeps what is known.
cold_start(p) ==
  /\ phase = "chain" /\ logs = <<>>
  /\ status[p] = "Degraded"
  /\ p \in Solidly => solidly_layout(p) # {}
  /\ metadata' = [metadata EXCEPT ![p] =
       IF @.known # {} THEN @
       ELSE [known |-> slots(p),
             token_cash |-> IF p \in Balancer THEN probe_token_cash(p) ELSE {}]]
  /\ cache' = [cache EXCEPT ![p] = chain[p]]
  /\ status' = [status EXCEPT ![p] = "Ready"]
  /\ UNCHANGED <<pools, chain, logs, phase, owed, played>>

-----------------------------------------------------------------------------
(* Which logs reach a pool.  A topic is an event's name, the shape of its  *)
(* arguments and the arity its signature spells.                           *)

n_coins == [p \in Curve |-> IF p \in {"crypto", "tricrypto_ng"} THEN 3 ELSE 2]
pool_variant ==
  [p \in Curve |-> CASE p = "crypto" -> "CryptoSwap"
                     [] p = "tricrypto_ng" -> "CryptoSwapNG"
                     [] OTHER -> "StableSwap"]

add_liquidity_topic(n) == <<"AddLiquidity", "fees,invariant,supply", n>>
crypto_add_liquidity_topic(n) == <<"AddLiquidity", "fee,supply", n>>
crypto_ng_add_liquidity_topic(n) == <<"AddLiquidity", "fee,supply,scale", n>>
RemoveOne == [classic |-> <<"RemoveLiquidityOne", "2", 0>>,
              crypto |-> <<"RemoveLiquidityOne", "3", 0>>,
              ng |-> <<"RemoveLiquidityOne", "6", 0>>]
TokenExchange == [StableSwap |-> <<"TokenExchange", "int128", 0>>,
                  CryptoSwap |-> <<"TokenExchange", "uint256", 0>>,
                  CryptoSwapNG |-> <<"TokenExchange", "uint256,fee,scale", 0>>]
ClaimAdminFee == <<"ClaimAdminFee", "", 0>>
crypto_remove_liquidity(n) == <<"RemoveLiquidity", "supply", n>>
Sync == <<"Sync", "", 0>>
Swap == <<"Swap", "", 0>>
PoolBalanceChanged == <<"PoolBalanceChanged", "", 0>>

curve_event_topics(n, variant) ==
  {TokenExchange[variant]} \cup
  CASE variant = "CryptoSwap" ->
         {RemoveOne.crypto, crypto_add_liquidity_topic(n), crypto_remove_liquidity(n)}
    [] variant = "CryptoSwapNG" ->
         {RemoveOne.ng, ClaimAdminFee, crypto_ng_add_liquidity_topic(n),
          crypto_remove_liquidity(n)}
    [] variant = "StableSwap" ->
         {RemoveOne.classic, RemoveOne.crypto, add_liquidity_topic(n),
          <<"RemoveLiquidity", "fees,supply", n>>,
          <<"RemoveLiquidityImbalance", "fees,invariant,supply", n>>}

\* The subscription of a pool: emitter, topics, and whether the pool is named
\* by the first indexed topic.
v2_event_sources(p) == {[emitter |-> p, topics |-> {Sync}, indexed |-> FALSE]}
solidly_event_sources(p) == {[emitter |-> p, topics |-> {Sync}, indexed |-> FALSE]}
balancer_event_sources(p) ==
  {[emitter |-> Vault, topics |-> {Swap, PoolBalanceChanged}, indexed |-> TRUE]}
curve_event_sources(p) ==
  {[emitter |-> p, topics |-> curve_event_topics(n_coins[p], pool_variant[p]),
    indexed |-> FALSE]}

event_sources_for(p) ==
  CASE p = "pair" -> v2_event_sources(p)
    [] p \in Solidly -> solidly_event_sources(p)
    [] p \in Balancer -> balancer_event_sources(p)
    [] OTHER -> curve_event_sources(p)

event_source_matches(source, p, log) ==
  /\ source.emitter = log.emitter
  /\ log.topic \in source.topics
  /\ source.indexed => log.id = p

pool_source_matches(p, log) ==
  \E source \in event_sources_for(p) : event_source_matches(source, p, log)

\* The exact keys under which the reactive runtime files a pool's handler.
log_route_index(p) ==
  {IF source.indexed THEN <<"topic", p>> ELSE <<"emitter", source.emitter>> :
     source \in event_sources_for(p)}

\* The runtime offers a log to the handlers filed under its keys, and the
\* handler looks at its sources again.
routed(p, log) ==
  /\ log_route_index(p) \cap {<<"topic", log.id>>, <<"emitter", log.emitter>>} # {}
  /\ pool_source_matches(p, log)

-----------------------------------------------------------------------------
(* Decoding.  A result is the writes, the words to read again, whether the *)
(* event's effect is known once they are, and whether it failed to decode. *)
(* A write is <<slot, value, masked>>; a masked write to a word that is    *)
(* not cached is skipped.                                                  *)

ignored == [writes |-> {}, verify |-> {}, quality |-> "Ignored", error |-> FALSE]
malformed == [ignored EXCEPT !.error = TRUE]
event(writes, verify, quality) ==
  [writes |-> writes, verify |-> verify, quality |-> quality, error |-> FALSE]

v2_decode_event(p, log) ==
  IF log.topic # Sync THEN ignored
  ELSE IF ~log.wellformed THEN malformed
  ELSE event({<<"word", <<log.args[1], log.args[2]>>, TRUE>>}, {}, "ExactIfApplied")

v2_after_apply(p, result) ==
  IF \E w \in result.writes : w[3] /\ cache[p][w[1]] = Cold THEN {"word"} ELSE {}

solidly_decode_event(p, log) ==
  IF log.topic # Sync THEN ignored
  ELSE IF ~log.wellformed THEN malformed
  ELSE IF solidly_layout(p) = {} THEN ignored
  ELSE event({<<"reserve0", <<log.args[1], 0>>, FALSE>>,
              <<"reserve1", <<log.args[2], 0>>, FALSE>>}, {}, "ExactIfApplied")

resync_repair(p) ==
  event({}, metadata[p].known,
        IF metadata[p].known = {} THEN "ConservativeInvalidation" ELSE "RequiresRepair")

\* The exact writes of a swap, none when a token is not located, its word is
\* not cached, or a field would leave its range.
event_source_swap(p, swap) ==
  LET ins == token_cash_location(p, swap.token_in)
      outs == token_cash_location(p, swap.token_out)
      at(i) == cache[p][i.slot]
      both(i, o) == apply_cash_delta(apply_cash_delta(at(i), i.high, TRUE, swap.amount_in),
                                     o.high, FALSE, swap.amount_out)
      written(i, o) ==
        IF i.slot = o.slot
        THEN IF i.high = o.high THEN {} ELSE {<<i.slot, both(i, o), FALSE>>}
        ELSE {<<i.slot, apply_cash_delta(at(i), i.high, TRUE, swap.amount_in), FALSE>>,
              <<o.slot, apply_cash_delta(at(o), o.high, FALSE, swap.amount_out), FALSE>>}
      all == UNION {written(i, o) : i \in ins, o \in outs}
  IN IF \E w \in all : w[2] = Cold THEN {} ELSE all

decode_swap(p, log) ==
  IF ~log.wellformed THEN malformed
  ELSE LET writes == event_source_swap(p, log.args)
       IN IF writes # {} THEN event(writes, {}, "Exact") ELSE resync_repair(p)

decode_liquidity_change(p, log) ==
  IF ~log.wellformed THEN malformed ELSE resync_repair(p)

balancer_decode_event(p, log) ==
  CASE log.topic = Swap -> decode_swap(p, log)
    [] log.topic = PoolBalanceChanged -> decode_liquidity_change(p, log)
    [] OTHER -> ignored

curve_decode_event(p, log) ==
  IF log.topic \notin curve_event_topics(n_coins[p], pool_variant[p]) THEN ignored
  ELSE IF log.topic = TokenExchange[pool_variant[p]] /\ ~log.wellformed THEN malformed
  ELSE event({}, metadata[p].known, "ConservativeInvalidation")

decode_event(p, log) ==
  CASE p = "pair" -> v2_decode_event(p, log)
    [] p \in Solidly -> solidly_decode_event(p, log)
    [] p \in Balancer -> balancer_decode_event(p, log)
    [] OTHER -> curve_decode_event(p, log)

predict_cold_skips(p, result) ==
  {w[1] : w \in {x \in result.writes : x[3] /\ cache[p][x[1]] = Cold}}

event_is_unresolved(result, verify) ==
  verify = {} /\ result.quality \in {"RequiresRepair", "ConservativeInvalidation"}

\* What a log does to a pool: its writes, the words owed, and whether the pool
\* is left degraded (it did not decode, or nothing will resolve its effect).
handle_routed_log(p, log) ==
  LET result == decode_event(p, log)
      skipped == predict_cold_skips(p, result)
      verify == result.verify \cup skipped \cup
                (IF p = "pair" THEN v2_after_apply(p, result) ELSE {})
  IN [cache |-> [s \in slots(p) |->
        IF s \in skipped \/ ~\E w \in result.writes : w[1] = s THEN cache[p][s]
        ELSE (CHOOSE w \in result.writes : w[1] = s)[2]],
      verify |-> verify,
      degrade |-> result.error \/ event_is_unresolved(result, verify)]

untouched(p) == [cache |-> cache[p], verify |-> {}, degrade |-> FALSE]

handle ==
  /\ phase = "logs" /\ logs # <<>>
  /\ LET log == Head(logs)
         done == [p \in pools |-> IF routed(p, log)
                                  THEN handle_routed_log(p, log) ELSE untouched(p)]
     IN /\ cache' = [p \in pools |-> done[p].cache]
        /\ owed' = owed \cup UNION {{p} \X done[p].verify : p \in pools}
        /\ status' = [p \in pools |-> IF done[p].degrade THEN "Degraded" ELSE status[p]]
  /\ logs' = Tail(logs)
  /\ UNCHANGED <<pools, chain, phase, metadata, played>>

finish_logs ==
  /\ phase = "logs" /\ logs = <<>>
  /\ phase' = "resync"
  /\ UNCHANGED <<pools, chain, logs, cache, metadata, owed, status, played>>

\* One owed word is read at the block's hash, or its read fails.
verify_slot ==
  /\ phase = "resync"
  /\ \E o \in owed :
       /\ owed' = owed \ {o}
       /\ \/ /\ cache' = [cache EXCEPT ![o[1]][o[2]] = chain[o[1]][o[2]]]
             /\ UNCHANGED status
          \/ /\ status' = [status EXCEPT ![o[1]] = "Degraded"]
             /\ UNCHANGED cache
  /\ UNCHANGED <<pools, chain, logs, phase, metadata, played>>

next_block ==
  /\ phase = "resync" /\ owed = {}
  /\ phase' = "chain"
  /\ UNCHANGED <<pools, chain, logs, cache, metadata, owed, status, played>>

\* A word is dropped from the cache, for instance by the eviction of another
\* pool that listed it.
purge ==
  /\ phase = "chain" /\ logs = <<>>
  /\ \E p \in pools : \E s \in slots(p) : cache' = [cache EXCEPT ![p][s] = Cold]
  /\ UNCHANGED <<pools, chain, logs, phase, metadata, owed, status, played>>

-----------------------------------------------------------------------------
(* The contracts (external). *)

emit(p, topic, args, wellformed) ==
  logs' = Append(logs, [emitter |-> emitter(p), topic |-> topic, id |-> p,
                        args |-> args, wellformed |-> wellformed])

pair_sync(p) ==
  \E r0, r1 \in {1, CashMax}, w \in BOOLEAN :
    /\ chain' = [chain EXCEPT ![p] =
         IF p = "pair" THEN [s \in slots(p) |-> <<r0, r1>>]
         ELSE [s \in slots(p) |-> IF s = "reserve0" THEN <<r0, 0>> ELSE <<r1, 0>>]]
    /\ emit(p, Sync, <<r0, r1>>, w)

vault_swap(p) ==
  \E i, o \in tokens(p), ain \in 1 .. 2, w \in BOOLEAN :
    LET aout == 3 - ain
        ci == cell(p, i)
        co == cell(p, o)
        word1 == apply_cash_delta(chain[p][ci[1]], ci[2], TRUE, ain)
        taken == [chain[p] EXCEPT ![ci[1]] = word1]
    IN /\ i # o /\ word1 # Cold
       /\ LET word2 == apply_cash_delta(taken[co[1]], co[2], FALSE, aout)
          IN /\ word2 # Cold
             /\ chain' = [chain EXCEPT ![p] = [taken EXCEPT ![co[1]] = word2]]
       /\ emit(p, Swap, [token_in |-> i, amount_in |-> ain,
                         token_out |-> o, amount_out |-> aout], w)

vault_join(p) ==
  \E t \in tokens(p), add \in BOOLEAN, w \in BOOLEAN :
    LET c == cell(p, t)
        word == apply_cash_delta(chain[p][c[1]], c[2], add, 1)
    IN /\ word # Cold
       /\ chain' = [chain EXCEPT ![p][c[1]] = word]
       /\ emit(p, PoolBalanceChanged, <<>>, w)

\* The events of each dialect's contract.
curve_emits(p) ==
  LET n == IF p \in {"crypto", "tricrypto_ng"} THEN 3 ELSE 2
      stable == {TokenExchange.StableSwap, add_liquidity_topic(n),
                 <<"RemoveLiquidity", "fees,supply", n>>,
                 <<"RemoveLiquidityImbalance", "fees,invariant,supply", n>>}
  IN CASE p = "stable" -> stable \cup {RemoveOne.classic}
       [] p = "stable_ng" -> stable \cup {RemoveOne.crypto}
       [] p = "crypto" -> {TokenExchange.CryptoSwap, crypto_add_liquidity_topic(n),
                           crypto_remove_liquidity(n), RemoveOne.crypto}
       [] p = "tricrypto_ng" -> {TokenExchange.CryptoSwapNG, ClaimAdminFee, RemoveOne.ng,
                                 crypto_ng_add_liquidity_topic(n), crypto_remove_liquidity(n)}

curve_change(p) ==
  \E topic \in curve_emits(p), v \in {1, CashMax}, w \in BOOLEAN :
    /\ chain' = [chain EXCEPT ![p] = [s \in slots(p) |-> <<v, 0>>]]
    /\ emit(p, topic, <<>>, w)

trade ==
  /\ phase = "chain" /\ played < MaxLogs
  /\ \E p \in pools :
       \/ p \in {"pair"} \cup Solidly /\ pair_sync(p)
       \/ p \in Balancer /\ vault_swap(p)
       \/ p \in Balancer /\ vault_join(p)
       \/ p \in Curve /\ curve_change(p)
  /\ played' = played + 1
  /\ UNCHANGED <<pools, phase, cache, metadata, owed, status>>

seal ==
  /\ phase = "chain" /\ logs # <<>>
  /\ phase' = "logs"
  /\ UNCHANGED <<pools, chain, logs, cache, metadata, owed, status, played>>

-----------------------------------------------------------------------------
Words(p) ==
  CASE p = "general" -> [slots(p) -> {1, 2, CashMax} \X Managed]
    [] p \in Balancer \cup {"pair"} -> [slots(p) -> {0, 2} \X {2, CashMax}]
    [] OTHER -> [slots(p) -> {<<1, 0>>}]

\* Tracked pools start unready, as a registration does.
Init ==
  /\ pools \in Portfolios
  /\ chain \in {c \in [pools -> UNION {Words(p) : p \in pools}] :
                  \A p \in pools : c[p] \in Words(p)}
  /\ logs = <<>> /\ phase = "chain" /\ owed = {} /\ played = 0
  /\ cache = [p \in pools |-> [s \in slots(p) |-> Cold]]
  /\ metadata = [p \in pools |-> Unstarted]
  /\ status = [p \in pools |-> "Degraded"]

Next == \/ trade \/ seal \/ handle \/ finish_logs \/ verify_slot \/ next_block \/ purge
        \/ \E p \in pools : cold_start(p)

Spec == Init /\ [][Next]_vars

-----------------------------------------------------------------------------
(* Between two blocks a pool that is served as Ready holds no stale word:  *)
(* whatever mixture of swaps, joins and liquidity events a block had, in   *)
(* whatever order, and whichever of its words were not cached when they    *)
(* were handled, each cached word is the chain's, and no log of a pool     *)
(* that shares the emitter has moved it.                                   *)
ReadyWordsCurrent ==
  phase = "chain" /\ logs = <<>> =>
    \A p \in pools : status[p] = "Ready" =>
      \A s \in slots(p) : cache[p][s] \in {Cold, chain[p][s]}

=============================================================================
