------------------------------ MODULE Discovery ------------------------------
(***************************************************************************)
(* Factory discovery: which pools a token query finds.                     *)
(*                                                                         *)
(* A driver stands for one factory contract and knows the storage layout   *)
(* of its pool mapping.  PoolDiscovery asks every matching driver for the  *)
(* words it needs, has them read in one batch, at once (find_many) or by a *)
(* worker at an earlier block (prepare_reads, assemble_prepared), and      *)
(* builds registrations from them.  The same drivers turn creation logs    *)
(* into registrations.                                                     *)
(*                                                                         *)
(* Each block creates one pool (external), so a block is a length of the   *)
(* history.  A word holds 0, a pool, a tick spacing or a fee.  A pool's    *)
(* innermost key is a fee tier, a tick spacing, or the stable flag (0 or   *)
(* 1); a fee tier k has the spacing 10 * k.                                *)
(***************************************************************************)
EXTENDS Integers, Sequences, FiniteSets, SequencesExt

CONSTANTS Offered,    \* the lists of drivers a PoolDiscovery is built from
          Creatable(_), \* the pools factories may create beside these drivers: [driver, pair, key]
          Asked,      \* the lists of queries that are asked together, as constructor calls
          EventFees,  \* the fee a Slipstream creation event carries
          MaxPools    \* bound: pools created

\* FeeSource: the key itself, one fee for all pools, or a mapping of the factory.
FromKey == [kind |-> "Key", fee |-> 0, mapping |-> "none"]
Fixed(n) == [kind |-> "Fixed", fee |-> n, mapping |-> "none"]
FactoryMapping(base) == [kind |-> "FactoryMapping", fee |-> 0, mapping |-> base]

\* A driver: its protocol, how getPool is keyed, the keys that are probed, where
\* the fee comes from, and whether it knows its factory's creation event.
Driver(p, keying, keys, source, topic) ==
  [protocol |-> p, keying |-> keying, keys |-> keys, fee_source |-> source, creation_topic0 |-> topic]

\* The presets, one driver from outside this library, and the forks a caller may
\* specify: a fee-keyed one with one fee, a spacing-keyed one with a fee
\* mapping, one whose fee source does not fit its keying, and a fee-keyed one
\* with a fee mapping.
spec(d) ==
  CASE d = "v2" -> Driver("UniswapV2", "pair", <<0>>, Fixed(0), TRUE)
    [] d \in {"v3", "sushi"} -> Driver("UniswapV3", "fee", <<1, 2>>, FromKey, TRUE)
    [] d = "slipstream" -> Driver("Slipstream", "spacing", <<1, 2>>, Fixed(0), TRUE)
    [] d = "solidly" -> Driver("SolidlyV2", "stable", <<0, 1>>, Fixed(0), TRUE)
    [] d = "custom" -> Driver("Custom", "legacy", <<1>>, Fixed(0), FALSE)
    [] d = "flat" -> Driver("UniswapV3", "fee", <<1, 2>>, Fixed(3), FALSE)
    [] d = "mapped" -> Driver("Slipstream", "spacing", <<1, 2>>, FactoryMapping("fees"), FALSE)
    [] d = "misfit" -> Driver("Slipstream", "spacing", <<1, 2>>, FromKey, FALSE)
    [] d = "tiered" -> Driver("UniswapV3", "fee", <<1, 2>>, FactoryMapping("fees"), FALSE)
protocol(d) == spec(d).protocol

\* Drivers are de-duplicated by protocol and address; the first one stays.
push_unique(list, d) == IF d \in ToSet(list) THEN list ELSE Append(list, d)
drivers_of(offered) == FoldLeft(push_unique, <<>>, offered)
\* Another PoolDiscovery, to which a plan may be handed by mistake.
OtherDrivers == drivers_of(<<"v3", "v2", "sushi", "slipstream", "solidly">>)

VARIABLES discovery, \* the drivers in use
          hash,      \* the init-code hash configured: "none", "right", "wrong"
          verified,  \* drivers whose derivation was confirmed once
          created,   \* the pools created, oldest first
          plan,      \* a prepared plan: queries, its entries, the block it is read at
          answer,    \* the outcome of a query that has just ended
          pushed     \* the registration a creation log has just made

vars == <<discovery, hash, verified, created, plan, answer, pushed>>

None == <<>>

-----------------------------------------------------------------------------
(* Queries. *)

sort_tokens(a, b) == IF a <= b THEN <<a, b>> ELSE <<b, a>>
pairs_among(tokens) ==
  {sort_tokens(tokens[x[1]], tokens[x[2]]) :
     x \in {x \in (DOMAIN tokens) \X (DOMAIN tokens) :
              x[1] < x[2] /\ tokens[x[1]] # tokens[x[2]]}}
pair(a, b) == [pairs |-> {sort_tokens(a, b)}, protocol |-> "any"]
basket(tokens) == [pairs |-> pairs_among(tokens), protocol |-> "any"]
pairs(set) == [pairs |-> {sort_tokens(p[1], p[2]) : p \in set}, protocol |-> "any"]
on(query, p) == [query EXCEPT !.protocol = p]
\* The pools between a token and its connectors, never the token itself.
token_edge(token, connectors) == pairs({<<token, c>> : c \in connectors \ {token}})
\* The constructor calls of a caller: which one, its tokens, and a restriction to one protocol.
Query(call) ==
  on(CASE call.form = "pair" -> pair(call.tokens[1], call.tokens[2])
       [] call.form = "basket" -> basket(call.tokens)
       [] call.form = "token_edge" -> token_edge(Head(call.tokens), ToSet(Tail(call.tokens)))
       [] OTHER -> pairs({<<call.tokens[1], call.tokens[2]>>, <<call.tokens[2], call.tokens[1]>>}),
     call.on)
Queries == {[i \in DOMAIN calls |-> Query(calls[i])] : calls \in Asked}
matching(query, d) == query.protocol \in {"any", protocol(d)}

-----------------------------------------------------------------------------
(* The storage of a factory at a block (external): getPool in both token   *)
(* orders, feeAmountTickSpacing, and the fee mapping of a fork.            *)

PoolSlot(d, p, k) == <<d, "getPool", p, k>>
MappingSlot(d, mapping, k) == <<d, mapping, <<0, 0>>, k>>
SpacingSlot(d, k) == MappingSlot(d, "feeAmountTickSpacing", k)
MappedFee(k) == 5 * k

Held(d, p, k, block) ==
  {i \in 1 .. block : /\ created[i].driver = d /\ created[i].key = k
                      /\ p \in {created[i].pair, Reverse(created[i].pair)}}
Word(slot, block) ==
  CASE slot[2] = "feeAmountTickSpacing" -> 10 * slot[4]
    [] slot[2] = "fees" -> MappedFee(slot[4])
    [] OTHER -> LET held == Held(slot[1], slot[3], slot[4], block)
                IN IF held = {} THEN 0 ELSE CHOOSE i \in held : TRUE

-----------------------------------------------------------------------------
(* Drivers. *)

v2_candidate_reads(d, ps) == {PoolSlot(d, p, 0) : p \in ps}
solidly_candidate_reads(d, ps) == {PoolSlot(d, p, k) : p \in ps, k \in {0, 1}}
\* A fee-keyed driver reads the spacings of its tiers, pairs or none; a
\* spacing-keyed one reads its fee mapping with the pools.
cl_candidate_reads(d, ps) ==
  LET keys == ToSet(spec(d).keys)
      source == spec(d).fee_source
  IN {PoolSlot(d, p, k) : p \in ps, k \in keys} \cup
     CASE spec(d).keying = "fee" -> {SpacingSlot(d, k) : k \in keys}
       [] source.kind = "FactoryMapping" /\ ps # {} -> {MappingSlot(d, source.mapping, k) : k \in keys}
       [] OTHER -> {}

candidate_reads(d, ps) ==
  CASE spec(d).keying = "pair" -> v2_candidate_reads(d, ps)
    [] spec(d).keying = "stable" -> solidly_candidate_reads(d, ps)
    [] spec(d).keying = "legacy" -> {}
    [] OTHER -> cl_candidate_reads(d, ps)

\* A registration: the pool, its tokens, and what quoting it needs.
v2_registration(d, pool, p) ==
  [protocol |-> protocol(d), pool |-> pool, tokens |-> p, fee |-> 0, spacing |-> 0,
   stable |-> FALSE]
solidly_registration(d, pool, p, stable) ==
  [v2_registration(d, pool, p) EXCEPT !.stable = (stable = 1)]
cl_registration(d, pool, p, fee, spacing) ==
  [v2_registration(d, pool, p) EXCEPT !.fee = fee, !.spacing = spacing]

\* A mapping word that was not read counts as zero, the mark of an unset fee.
Malformed == -1
fee_for_key(d, k, words) ==
  LET source == spec(d).fee_source
      slot == MappingSlot(d, source.mapping, k)
  IN CASE source.kind = "Key" -> IF spec(d).keying = "fee" THEN k ELSE Malformed
       [] source.kind = "Fixed" -> source.fee
       [] OTHER -> IF slot \in DOMAIN words THEN words[slot] ELSE 0

\* The first answer of a driver is compared with the CREATE2 address.
ensure_derivation_matches(d) == hash # "wrong" \/ d \in verified
confirms(d) == IF hash = "right" THEN {d} ELSE {}

\* What a driver builds from the words: a sequence, or the error that stops
\* the whole query.  A pool of 0 is skipped; Junk is a word that is no address.
Junk == -1
probes(d, ps) == {<<p, k>> : p \in ps, k \in ToSet(spec(d).keys)}
built_from(held, valid(_), build(_)) ==
  IF \A x \in held : valid(x)
  THEN [ok |-> TRUE, found |-> [i \in 1 .. Cardinality(held) |-> build(SetToSeq(held)[i])]]
  ELSE [ok |-> FALSE, found |-> <<>>]

v2_assemble_pairs(d, ps, words) ==
  LET pool(x) == words[PoolSlot(d, x[1], x[2])]
      valid(x) == pool(x) # Junk /\ ensure_derivation_matches(d)
      build(x) == v2_registration(d, pool(x), x[1])
  IN built_from({x \in probes(d, ps) : pool(x) # 0}, valid, build)

solidly_assemble_pairs(d, ps, words) ==
  LET pool(x) == words[PoolSlot(d, x[1], x[2])]
      valid(x) == pool(x) # Junk /\ ensure_derivation_matches(d)
      build(x) == solidly_registration(d, pool(x), x[1], x[2])
  IN built_from({x \in probes(d, ps) : pool(x) # 0}, valid, build)

\* A fee tier without a positive spacing is malformed, and so is a fee source
\* that does not fit the keying.
cl_assemble_pairs(d, ps, words) ==
  LET pool(x) == words[PoolSlot(d, x[1], x[2])]
      spacing(x) == IF spec(d).keying = "fee" THEN words[SpacingSlot(d, x[2])] ELSE x[2]
      fee(x) == fee_for_key(d, x[2], words)
      valid(x) == /\ pool(x) # Junk /\ ensure_derivation_matches(d)
                  /\ spacing(x) > 0 /\ fee(x) # Malformed
      build(x) == cl_registration(d, pool(x), x[1], fee(x), spacing(x))
  IN built_from({x \in probes(d, ps) : pool(x) # 0}, valid, build)

assemble_pairs(d, ps, words) ==
  CASE spec(d).keying = "pair" -> v2_assemble_pairs(d, ps, words)
    [] spec(d).keying = "stable" -> solidly_assemble_pairs(d, ps, words)
    [] OTHER -> cl_assemble_pairs(d, ps, words)

\* A driver outside this library, asked pair by pair.
find_pools(d, ps) ==
  LET held == {x \in probes(d, ps) : Held(d, x[1], x[2], Len(created)) # {}}
      pool(x) == CHOOSE i \in Held(d, x[1], x[2], Len(created)) : TRUE
  IN [ok |-> TRUE,
      found |-> [i \in 1 .. Cardinality(held) |->
                   LET x == SetToSeq(held)[i] IN v2_registration(d, pool(x), x[1])]]

-----------------------------------------------------------------------------
(* PoolDiscovery. *)

\* One entry for each query and matching driver; none when a query names a
\* protocol without a driver or, in a prepared plan, meets a legacy driver.
prepare_reads_with_mode(list, queries, allow_legacy) ==
  LET entries(q) == LET ds == SelectSeq(list, LAMBDA d : matching(q, d))
                    IN [i \in 1 .. Len(ds) |->
                          [index |-> CHOOSE j \in DOMAIN list : list[j] = ds[i],
                           driver |-> ds[i], pairs |-> q.pairs,
                           reads |-> candidate_reads(ds[i], q.pairs)]]
      all == FlattenSeq([i \in DOMAIN queries |-> entries(queries[i])])
  IN IF \/ \E i \in DOMAIN queries : \A d \in ToSet(list) :
             queries[i].protocol \notin {"any", protocol(d)}
        \/ ~allow_legacy /\ \E i \in DOMAIN all : all[i].pairs # {} /\ all[i].reads = {}
     THEN [ok |-> FALSE, entries |-> <<>>]
     ELSE [ok |-> TRUE, entries |-> all]

reads(entries) == UNION {entries[i].reads : i \in DOMAIN entries}

\* A union that keeps what two overlapping queries both found.
union_of_entries(found) == FlattenSeq(found)

\* The first registration of each pool stays.
first_of_each_pool(found) ==
  LET all == FlattenSeq(found)
      fresh == {i \in DOMAIN all : \A j \in 1 .. i - 1 : all[j].pool # all[i].pool}
      order == SetToSortSeq(fresh, <)
  IN [i \in DOMAIN order |-> all[order[i]]]

built(entries, words) ==
  [i \in DOMAIN entries |->
     IF entries[i].reads = {} THEN find_pools(entries[i].driver, entries[i].pairs)
     ELSE assemble_pairs(entries[i].driver, entries[i].pairs, words)]

assemble_plan(list, entries, words) ==
  LET parts == built(entries, words)
      same(e) == e.index \in DOMAIN list /\ list[e.index] = e.driver
  IN IF \E i \in DOMAIN entries : ~same(entries[i]) \/ ~parts[i].ok
     THEN [ok |-> FALSE, found |-> <<>>]
     ELSE [ok |-> TRUE,
           found |-> first_of_each_pool([i \in DOMAIN parts |-> parts[i].found])]

\* Drivers whose derivation an answer confirmed.
confirmed_by(result, entries, words) ==
  UNION {IF result.ok /\ built(entries, words)[i].found # <<>>
         THEN confirms(entries[i].driver) ELSE {} : i \in DOMAIN entries}

Answer(queries, block, result) ==
  [queries |-> queries, block |-> block, ok |-> result.ok, found |-> result.found]

find_many(queries) ==
  LET prepared == prepare_reads_with_mode(discovery, queries, TRUE)
      words == [s \in reads(prepared.entries) |-> Word(s, Len(created))]
      result == assemble_plan(discovery, prepared.entries, words)
  IN /\ answer' = Answer(queries, Len(created),
                         IF prepared.ok THEN result ELSE [ok |-> FALSE, found |-> <<>>])
     /\ verified' = verified \cup confirmed_by(answer', prepared.entries, words)
     /\ pushed' = {}
     /\ UNCHANGED <<discovery, hash, created, plan>>

prepare_reads(queries) ==
  LET prepared == prepare_reads_with_mode(discovery, queries, FALSE)
  IN /\ plan = None
     /\ IF prepared.ok
        THEN /\ plan' = [queries |-> queries, entries |-> prepared.entries,
                         block |-> Len(created)]
             /\ answer' = None
        ELSE /\ answer' = Answer(queries, Len(created),
                                 [ok |-> FALSE, found |-> <<>>])
             /\ UNCHANGED plan
     /\ pushed' = {}
     /\ UNCHANGED <<discovery, hash, verified, created>>

\* The worker has read the plan's words at its block; a word may be lost,
\* arrive twice, or hold no address.
fetched(fault) ==
  [s \in reads(plan.entries) |->
     IF fault = "junk" /\ Word(s, plan.block) # 0 THEN Junk ELSE Word(s, plan.block)]

assemble_prepared(list, fault) ==
  /\ plan # None
  /\ LET result == IF fault \in {"lost", "twice"} THEN [ok |-> FALSE, found |-> <<>>]
                   ELSE assemble_plan(list, plan.entries, fetched(fault))
     IN /\ answer' = Answer(plan.queries, plan.block, result)
        /\ verified' = verified \cup confirmed_by(result, plan.entries, fetched(fault))
  /\ plan' = None /\ pushed' = {}
  /\ UNCHANGED <<discovery, hash, created>>

-----------------------------------------------------------------------------
(* Creation logs. *)

v2_decode_creation(d, i) == v2_registration(d, i, created[i].pair)
solidly_decode_creation(d, i) == solidly_registration(d, i, created[i].pair, created[i].key)
cl_decode_creation(d, i, fee) ==
  IF spec(d).keying = "fee"
  THEN cl_registration(d, i, created[i].pair, created[i].key, 10 * created[i].key)
  ELSE cl_registration(d, i, created[i].pair, fee, created[i].key)

\* A log may be delivered late, again, or out of order; a factory nobody
\* drives, or a derivation that does not match, makes nothing of it.
decode_creation(i) ==
  LET d == created[i].driver
  IN /\ d \in ToSet(discovery) /\ spec(d).creation_topic0
     /\ ensure_derivation_matches(d)
     /\ \E fee \in EventFees :
          pushed' =
            {CASE spec(d).keying = "pair" -> v2_decode_creation(d, i)
               [] spec(d).keying = "stable" -> solidly_decode_creation(d, i)
               [] OTHER -> cl_decode_creation(d, i, fee)}
     /\ verified' = verified \cup confirms(d)
     /\ answer' = None
     /\ UNCHANGED <<discovery, hash, created, plan>>

create(c) ==
  /\ Len(created) < MaxPools /\ c \notin ToSet(created)
  /\ created' = Append(created, c)
  /\ answer' = None /\ pushed' = {}
  /\ UNCHANGED <<discovery, hash, verified, plan>>

-----------------------------------------------------------------------------
Init ==
  /\ discovery \in {drivers_of(list) : list \in Offered}
  /\ hash \in {"none", "right", "wrong"}
  /\ verified = {} /\ created = <<>> /\ plan = None
  /\ answer = None /\ pushed = {}

Next ==
  \/ \E c \in Creatable(discovery) : create(c)
  \/ \E queries \in Queries : find_many(queries) \/ prepare_reads(queries)
  \/ \E list \in {discovery, OtherDrivers}, fault \in {"none", "junk", "lost", "twice"} :
       assemble_prepared(list, fault)
  \/ \E i \in DOMAIN created : decode_creation(i)

Spec == Init /\ [][Next]_vars

-----------------------------------------------------------------------------
(* What a query should find at a block, from the pools themselves: those   *)
(* of a driver in use, of the protocol asked for, of a pair asked for, and *)
(* of a key the driver probes.  The fee is what the pool's factory charges *)
(* for its key, 0 where it charges none by key.                            *)
FeeOf(c) ==
  LET source == spec(c.driver).fee_source
  IN CASE source.kind = "Key" -> c.key
       [] source.kind = "Fixed" -> source.fee
       [] OTHER -> MappedFee(c.key)

Facts(i) ==
  LET c == created[i]
      keying == spec(c.driver).keying
  IN [protocol |-> protocol(c.driver), pool |-> i, tokens |-> sort_tokens(c.pair[1], c.pair[2]),
      fee |-> FeeOf(c),
      spacing |-> CASE keying = "fee" -> 10 * c.key [] keying = "spacing" -> c.key [] OTHER -> 0,
      stable |-> keying = "stable" /\ c.key = 1]

Expected(queries, block) ==
  {Facts(i) : i \in {i \in 1 .. block :
     /\ created[i].driver \in ToSet(discovery)
     /\ created[i].key \in ToSet(spec(created[i].driver).keys)
     /\ \E j \in DOMAIN queries : /\ matching(queries[j], created[i].driver)
                                  /\ created[i].pair \in queries[j].pairs}}

(* A query that is answered names exactly the pools the factories held at  *)
(* its block, each of them once and with its spacing and fee, whether it   *)
(* ran at once or through a worker's reads while the chain moved on; no    *)
(* fault of the reads, no other list of drivers, no wrong init-code hash   *)
(* and no fee source that does not fit turns into a partial answer.  A     *)
(* creation log gives the same key and geometry.                           *)
DiscoveryExact ==
  /\ answer # None /\ answer.ok =>
       /\ ToSet(answer.found) = Expected(answer.queries, answer.block)
       /\ Len(answer.found) = Cardinality(ToSet(answer.found))
       /\ hash = "wrong" => \A r \in ToSet(answer.found) : r.protocol = "Custom"
  /\ \A r \in pushed : [r EXCEPT !.fee = 0] = [Facts(r.pool) EXCEPT !.fee = 0]

(* `Fee-keyed forks always resolve a real, non-zero tier'                  *)
(* (factory.rs:1905).                                                      *)
FeeKeyedIsPriced ==
  answer # None =>
    \A r \in ToSet(answer.found) :
      spec(created[r.pool].driver).keying = "fee" => r.fee # 0

=============================================================================
