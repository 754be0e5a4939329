----------------------------- MODULE Registration -----------------------------
(***************************************************************************)
(* Which pools the runtime actor serves and why: adapters, factory         *)
(* watchers and pools with their generations, the evidence each pool's     *)
(* registration rests on, and what a reorganisation does to that evidence. *)
(* Sources: live_runtime.rs, runtime.rs, ownership.rs, sync_manager.rs.    *)
(*                                                                         *)
(* One action is one command of the actor or one report of the worker.     *)
(* Handlers call each other, so the actor's state is one record and every  *)
(* handler an operator from record to record.  The subscriber is detached: *)
(* its fences are LifecycleFence's.  A work the actor no longer holds is   *)
(* refused as StaleWork and changes nothing, so a cancelled job needs no   *)
(* state; what the provider answers at a block is the chain's own answer.  *)
(***************************************************************************)
EXTENDS Naturals, Sequences, FiniteSets, SequencesExt, FiniteSetsExt

CONSTANTS
  Block, Genesis, Parent,   \* the block tree
  Adapter, Owner, Pool,     \* logical keys
  AdapterOf,                \* AdapterOf[k]: the adapter family of owner or pool k
  Logs,                     \* Logs[b]: the <<owner, pool>> creation logs of block b
  Limits,                   \* max_candidates of a request: <<>> or <<n>>
  MaxGen,                   \* bound on generations per key
  MaxPending,               \* MAX_PENDING_FACTORY_CANDIDATES
  Budget                    \* bound on commands

ASSUME RegistrationAssumption ==
  /\ Genesis \in Block /\ Parent \in [Block -> Block]
  \* Every block descends from Genesis: no set of other blocks has all its own parents.
  /\ \A Z \in SUBSET Block : (\A x \in Z : x # Genesis /\ Parent[x] \in Z) => Z = {}
  /\ Adapter \cap (Owner \cup Pool) = {} /\ Owner \cap Pool = {}
  /\ IsFiniteSet(Owner) /\ IsFiniteSet(Pool)
  /\ AdapterOf \in [Owner \cup Pool -> Adapter]
  /\ Logs \in [Block -> SUBSET (Owner \X Pool)]
  \* A factory creates pools of its own family.
  /\ \A b \in Block : \A l \in Logs[b] : AdapterOf[l[1]] = AdapterOf[l[2]]
  /\ \A l \in Limits : l = <<>> \/ l[1] \in Nat
  /\ MaxGen \in Nat \ {0} /\ MaxPending \in Nat \ {0} /\ Budget \in Nat

VARIABLES
  rt,          \* the actor
  delivered,   \* blocks delivered so far: each is delivered once
  spent,       \* commands so far
  withdrawn,   \* ghost: pools whose running revalidation was cancelled
  stripped     \* ghost: pools whose stale retry kept the evidence of a dropped supporter

vars == <<rt, delivered, spent, withdrawn, stripped>>

None == <<>>   \* no id, no limit
Lineage[b \in Block] == IF b = Genesis THEN {b} ELSE {b} \cup Lineage[Parent[b]]

\* The pools a query of owner o's factory finds at block b.
Found(o, b) == {p \in Pool : \E w \in Lineage[b] : <<o, p>> \in Logs[w]}

OwnerId == Owner \X (1..MaxGen)
PoolId  == Pool \X (1..MaxGen)

-----------------------------------------------------------------------------
(* RegistrationEvidenceSet.                                                *)

Stable == [kind |-> "stable", owner |-> None, block |-> "none"]
StateQuery(o, b) == [kind |-> "query", owner |-> o, block |-> b]
FactoryLog(o, b) == [kind |-> "log", owner |-> o, block |-> b]
Evidence == {Stable} \cup {StateQuery(o, b) : o \in OwnerId, b \in Block}
                     \cup {FactoryLog(o, b) : o \in OwnerId, b \in Block}

evidence_without_dropped_hashes(E, dropped) == {e \in E : e.block \notin dropped}
evidence_without_owner(E, o) == {e \in E : e.owner # o}
evidence_contains_owner(E, o) == \E e \in E : e.owner = o
evidence_contains_state_query_owner(E, o) == \E e \in E : e.kind = "query" /\ e.owner = o

reorg_action(E, dropped) ==
  CASE evidence_without_dropped_hashes(E, dropped) # {} -> "keep"
    [] OTHER -> IF \E e \in E : e.kind = "query" THEN "revalidate" ELSE "remove"

-----------------------------------------------------------------------------
(* AmmOwnershipIndex and RuntimeGenerationLedger, as far as lifetimes go.  *)

Absent == [gen |-> 0, adapter |-> 0]

active_pool(S, id)      == S.pools[id[1]].gen = id[2]
active_discovery(S, id) == S.owners[id[1]].gen = id[2]
active_adapter(S, k)    == S.adapters[AdapterOf[k]]
next_generation(S, k)   == S.issued[k] + 1

pools_for_adapter(S, a) == {p \in Pool : AdapterOf[p] = a /\ S.pools[p].gen > 0}
discovery_for_adapter(S, a) == {o \in Owner : AdapterOf[o] = a /\ S.owners[o].gen > 0}

mark_untrusted(S) == [S EXCEPT !.trusted = FALSE]

NoWork == [gen |-> 0, adapter |-> 0, owner |-> None, support |-> {}, evidence |-> {},
           revalidations |-> {}, baseline |-> "none"]

-----------------------------------------------------------------------------
(* Pools.                                                                  *)

\* install_prepared_pools, after its checks.
install(S, p, gen, E) ==
  [S EXCEPT !.pools[p] = [gen |-> gen, adapter |-> active_adapter(S, p)],
            !.issued[p] = gen, !.evidence[<<p, gen>>] = E]

\* remove_pool_serialized: an untrusted runtime refuses it.
remove_pool_serialized(S, id) ==
  [S EXCEPT !.pools[id[1]] = Absent, !.evidence[id] = {}, !.revalidation[id] = {},
            !.pending = {x \in @ : x[1] # id}]

\* Why queue_cold_start refuses: "worker" is retried, "other" is not.
queue_refusal(S, p, ok) ==
  CASE ~S.trusted -> "other"
    [] S.trusted /\ ~S.attached -> "worker"
    [] S.trusted /\ S.attached /\ (S.work[p] # NoWork \/ S.pools[p].gen > 0
                                   \/ active_adapter(S, p) = 0 \/ S.issued[p] >= MaxGen) -> "other"
    [] OTHER -> IF ok THEN "none" ELSE "worker"

\* queue_cold_start: a refused submission has consumed the generation.
queue_cold_start(S, p, ok) ==
  LET reserved == [S EXCEPT !.issued[p] = next_generation(S, p)]
  IN  IF queue_refusal(S, p, TRUE) # "none" THEN S
      ELSE IF ~ok THEN reserved
      ELSE [reserved EXCEPT
             !.work[p] = [gen |-> next_generation(S, p), adapter |-> active_adapter(S, p),
                          owner |-> None, support |-> {}, evidence |-> {Stable},
                          revalidations |-> {}, baseline |-> S.point]]

\* detach_scheduled_work and cancel_scheduled_work: the reservation is tombstoned.
detach_pool_work(S, P) == [S EXCEPT !.work = [p \in Pool |-> IF p \in P THEN NoWork ELSE @[p]]]

-----------------------------------------------------------------------------
(* Factory candidates.                                                     *)

\* The waiting candidates that are in K, in their order.
retain(cs, K) ==
  LET kept[i \in 0..Len(cs)] ==
        IF i = 0 THEN <<>>
        ELSE IF cs[i] \in K THEN Append(kept[i - 1], cs[i]) ELSE kept[i - 1]
  IN  kept[Len(cs)]

Candidate(o, p, E, again) == [owner |-> o, key |-> p, evidence |-> E, revalidate |-> again]

\* A second report of the pool by the same owner.
merge_candidates(k, c) ==
  [k EXCEPT !.evidence = @ \cup c.evidence, !.revalidate = @ \/ c.revalidate]

retain_factory_candidate(S, c) ==
  LET id   == <<c.key, S.pools[c.key].gen>>
      same == {i \in DOMAIN S.candidates :
                 S.candidates[i].owner = c.owner /\ S.candidates[i].key = c.key}
  IN  CASE S.pools[c.key].gen > 0 ->
             [S EXCEPT !.evidence[id] = @ \cup c.evidence,
                       !.revalidation[id] = IF c.revalidate THEN @ \cup {c.owner} ELSE @]
        [] S.pools[c.key].gen = 0 /\ same # {} ->
             [S EXCEPT !.candidates[Min(same)] = merge_candidates(@, c)]
        [] OTHER -> IF Len(S.candidates) < MaxPending
                    THEN [S EXCEPT !.candidates = Append(@, c)] ELSE mark_untrusted(S)

\* The candidates of a report or of a block, in order.
retain_factory_candidates(S, cs) ==
  LET turn[i \in 0..Len(cs)] ==
        IF i = 0 THEN S ELSE retain_factory_candidate(turn[i - 1], cs[i])
  IN  turn[Len(cs)]

\* One candidate against the work already scheduled for its pool.
supported(w, c) ==
  [w EXCEPT !.evidence = @ \cup c.evidence, !.support = @ \cup {c.owner},
            !.owner = IF @ = None THEN c.owner ELSE @,
            !.revalidations = IF c.revalidate THEN @ \cup {c.owner} ELSE @]
merge_into_work(S, c) == [S EXCEPT !.work[c.key] = supported(@, c)]

\* One turn of drain_factory_candidates; x.left keeps what a break leaves.
drain_one(x, c, ok) ==
  LET S == x.state
      Q == queue_cold_start(S, c.key, ok)
  IN  CASE x.stop -> [x EXCEPT !.left = Append(@, c)]
        [] ~x.stop /\ S.work[c.key] # NoWork -> [x EXCEPT !.state = merge_into_work(S, c)]
        [] ~x.stop /\ S.work[c.key] = NoWork /\ ~S.attached ->
             [x EXCEPT !.stop = TRUE, !.left = Append(@, c)]
        [] ~x.stop /\ S.work[c.key] = NoWork /\ S.attached
           /\ (~active_discovery(S, c.owner) \/ S.pools[c.key].gen > 0) -> x
        [] OTHER ->
             CASE queue_refusal(S, c.key, ok) = "other" -> x
               [] queue_refusal(S, c.key, ok) = "worker" ->
                    [x EXCEPT !.state = Q, !.stop = TRUE, !.left = Append(@, c)]
               [] OTHER ->
                    [x EXCEPT !.state = [merge_into_work(Q, c) EXCEPT
                                           !.work[c.key].evidence = c.evidence]]

drain_factory_candidates(S, ok) ==
  LET turn[i \in 0..Len(S.candidates)] ==
        IF i = 0 THEN [state |-> S, stop |-> FALSE, left |-> <<>>]
        ELSE drain_one(turn[i - 1], S.candidates[i], ok)
      end == turn[Len(S.candidates)]
  IN  [end.state EXCEPT !.candidates = end.left]

-----------------------------------------------------------------------------
(* Discovery queries and the revalidation of what they found.              *)

\* queue_discovery, for an active owner.
queue_discovery(S, o, limit, pool) ==
  [S EXCEPT !.discovery = @ \cup {[owner |-> o, baseline |-> S.point,
                                   limit |-> limit, pool |-> pool]}]

revalidate_one(x, key, ok) ==
  LET S == x.state
      unpend == [S EXCEPT !.pending = @ \ {key}]
  IN  CASE x.stop -> x
        [] ~x.stop /\ ~active_pool(S, key[1]) -> [x EXCEPT !.state = unpend]
        [] ~x.stop /\ active_pool(S, key[1])
           /\ (~active_discovery(S, key[2]) \/ ~S.trusted) ->
             [x EXCEPT !.state = mark_untrusted(S), !.stop = TRUE]
        [] OTHER -> IF ok THEN [x EXCEPT !.state = queue_discovery(unpend, key[2], None, key[1])]
                    ELSE [x EXCEPT !.stop = TRUE]

drain_revalidations(S, ok) ==
  LET keys == SetToSeq(S.pending)
      turn[i \in 0..Len(keys)] ==
        IF i = 0 THEN [state |-> S, stop |-> FALSE]
        ELSE revalidate_one(turn[i - 1], keys[i], ok)
  IN  IF S.attached THEN turn[Len(keys)].state ELSE S

-----------------------------------------------------------------------------
(* Initial state: the runtime is spawned with its adapters.                *)

Init ==
  /\ rt = [trusted |-> TRUE, attached |-> FALSE, point |-> Genesis,
           adapters |-> [a \in Adapter |-> 1],
           owners |-> [o \in Owner |-> Absent], pools |-> [p \in Pool |-> Absent],
           issued |-> [k \in Adapter \cup Owner \cup Pool |-> IF k \in Adapter THEN 1 ELSE 0],
           evidence |-> [i \in PoolId |-> {}], revalidation |-> [i \in PoolId |-> {}],
           pending |-> {}, candidates |-> <<>>, work |-> [p \in Pool |-> NoWork],
           discovery |-> {}]
  /\ delivered = {Genesis} /\ spent = 0 /\ withdrawn = {} /\ stripped = {}

Room(k) == rt.issued[k] < MaxGen
Spend   == spent < Budget /\ spent' = spent + 1 /\ UNCHANGED delivered
Command == Spend /\ UNCHANGED <<withdrawn, stripped>>
Report  == UNCHANGED <<delivered, spent, withdrawn>>

-----------------------------------------------------------------------------
(* Commands.                                                               *)

add_adapter(a) ==
  /\ Command /\ rt.trusted /\ rt.adapters[a] = 0 /\ Room(a)
  /\ rt' = [rt EXCEPT !.adapters[a] = next_generation(rt, a), !.issued[a] = @ + 1]

\* remove_adapter: refused while a pool or a watcher depends on the family.
remove_adapter(a) ==
  /\ Command /\ rt.trusted /\ rt.adapters[a] > 0
  /\ pools_for_adapter(rt, a) = {} /\ discovery_for_adapter(rt, a) = {}
  /\ rt' = [detach_pool_work(rt, {p \in Pool : AdapterOf[p] = a}) EXCEPT !.adapters[a] = 0]

\* Mutant: a cascade forgets the work scheduled for the family's pools.
remove_adapter_cascade_keeping_work(a) ==
  LET gone   == {<<o, rt.owners[o].gen>> : o \in discovery_for_adapter(rt, a)}
      ids    == {<<p, rt.pools[p].gen>> : p \in pools_for_adapter(rt, a)}
  IN  /\ Command /\ rt.trusted /\ rt.adapters[a] > 0
      /\ rt' = [rt EXCEPT
                 !.adapters[a] = 0,
                 !.owners = [o \in Owner |-> IF AdapterOf[o] = a THEN Absent ELSE @[o]],
                 !.pools = [p \in Pool |-> IF AdapterOf[p] = a THEN Absent ELSE @[p]],
                 !.evidence = [i \in PoolId |-> IF i \in ids THEN {} ELSE @[i]],
                 !.revalidation = [i \in PoolId |-> IF i \in ids THEN {} ELSE @[i]],
                 !.pending = {x \in @ : x[1] \notin ids},
                 !.discovery = {d \in @ : d.owner \notin gone},
                 !.candidates = retain(@, {c \in Range(@) : c.owner \notin gone})]

\* remove_adapter_cascade: watchers, pools and their work go with the family.
remove_adapter_cascade(a) ==
  LET gone   == {<<o, rt.owners[o].gen>> : o \in discovery_for_adapter(rt, a)}
      ids    == {<<p, rt.pools[p].gen>> : p \in pools_for_adapter(rt, a)}
      mine(p) == AdapterOf[p] = a
  IN  /\ Command /\ rt.trusted /\ rt.adapters[a] > 0
      /\ rt' = [detach_pool_work(rt, {p \in Pool : mine(p)}) EXCEPT
                 !.adapters[a] = 0,
                 !.owners = [o \in Owner |-> IF AdapterOf[o] = a THEN Absent ELSE @[o]],
                 !.pools = [p \in Pool |-> IF mine(p) THEN Absent ELSE @[p]],
                 !.evidence = [i \in PoolId |-> IF i \in ids THEN {} ELSE @[i]],
                 !.revalidation = [i \in PoolId |-> IF i \in ids THEN {} ELSE @[i]],
                 !.pending = {x \in @ : x[1] \notin ids},
                 !.discovery = {d \in @ : d.owner \notin gone},
                 !.candidates = retain(@, {c \in Range(@) : c.owner \notin gone})]

add_factory_watcher(o) ==
  /\ Command /\ rt.trusted /\ rt.owners[o].gen = 0 /\ active_adapter(rt, o) > 0 /\ Room(o)
  /\ rt' = [rt EXCEPT !.owners[o] = [gen |-> next_generation(rt, o), adapter |-> active_adapter(rt, o)],
                      !.issued[o] = @ + 1]

\* The pools whose last evidence is owner o's: DiscoveryOwnerInUse names them.
InUse(o) == {i \in PoolId : /\ evidence_contains_owner(rt.evidence[i], o)
                            /\ evidence_without_owner(rt.evidence[i], o) = {}}

\* What losing owner o makes of a scheduled work.
without_supporter(w, o) ==
  IF o \notin w.support THEN w
  ELSE LET rest == w.support \ {o}
           E    == evidence_without_owner(w.evidence, o)
       IN  [w EXCEPT !.support = rest, !.revalidations = @ \ {o},
                     !.evidence = IF E = {} THEN @ ELSE E,
                     !.owner = IF @ # o THEN @ ELSE IF rest = {} THEN None ELSE CHOOSE x \in rest : TRUE]

remove_factory_watcher(k) ==
  LET o    == <<k, rt.owners[k].gen>>
      lost == {p \in Pool : rt.work[p].support = {o}}
  IN  /\ Command /\ rt.trusted /\ rt.owners[k].gen > 0 /\ InUse(o) = {}
      /\ rt' = [rt EXCEPT
                 !.owners[k] = Absent,
                 !.candidates = retain(@, {c \in Range(@) : c.owner # o}),
                 !.discovery = {d \in @ : d.owner # o},
                 !.work = [p \in Pool |-> IF p \in lost THEN NoWork ELSE without_supporter(@[p], o)],
                 !.pending = {x \in @ : x[2] # o},
                 !.revalidation = [i \in PoolId |-> @[i] \ {o}],
                 !.evidence = [i \in PoolId |-> evidence_without_owner(@[i], o)]]

\* add_pools: prepared state is stable evidence.
add_pools(p) ==
  /\ Command /\ rt.trusted /\ rt.pools[p].gen = 0 /\ rt.work[p] = NoWork
  /\ active_adapter(rt, p) > 0 /\ Room(p)
  /\ rt' = install(rt, p, next_generation(rt, p), {Stable})

remove_pool(p) ==
  /\ Command /\ rt.trusted /\ rt.pools[p].gen > 0
  /\ rt' = remove_pool_serialized(rt, <<p, rt.pools[p].gen>>)

QueueColdStart(p, ok) ==
  /\ Command /\ queue_refusal(rt, p, TRUE) = "none"
  /\ rt' = queue_cold_start(rt, p, ok)

QueueDiscovery(k, limit) ==
  /\ Command /\ rt.trusted /\ rt.attached /\ rt.owners[k].gen > 0
  /\ rt' = queue_discovery(rt, <<k, rt.owners[k].gen>>, limit, None)

attach_cold_start_worker(ok) ==
  /\ Command /\ ~rt.attached
  /\ rt' = drain_revalidations(drain_factory_candidates([rt EXCEPT !.attached = TRUE], ok), ok)

\* cancel_scheduled_work, by a caller or by the worker when it shuts down.
CancelPool(p) ==
  /\ Command /\ rt.work[p] # NoWork /\ rt' = detach_pool_work(rt, {p})
CancelDiscovery(d) ==
  /\ Spend /\ rt' = [rt EXCEPT !.discovery = @ \ {d}]
  /\ withdrawn' = withdrawn \cup (IF d.pool = None THEN {} ELSE {d.pool[1]}) /\ UNCHANGED stripped

-----------------------------------------------------------------------------
(* Reports of the worker.                                                  *)

\* fail_scheduled_work, a pool's cold start: a stale one goes back to its owner.
fail_scheduled_pool(p, stale, ok) ==
  LET w     == rt.work[p]
      S     == detach_pool_work(rt, {p})
      alive == {o \in w.support : active_discovery(rt, o)}
      heir  == CHOOSE o \in alive : TRUE
  IN  IF stale /\ alive # {}
      THEN drain_factory_candidates(
             retain_factory_candidate(S, Candidate(heir, p, w.evidence, heir \in w.revalidations)), ok)
      ELSE S

\* commit_scheduled_pool: what it checks before it installs.
commit_allowed(w, p) ==
  /\ active_adapter(rt, p) = w.adapter
  /\ w.owner # None => w.support # {}
  /\ \A o \in w.support : active_discovery(rt, o)

PoolReports(p, ok) ==
  LET w == rt.work[p]
  IN  /\ Report /\ w # NoWork
      /\ \/ /\ commit_allowed(w, p) /\ rt.trusted /\ w.baseline = rt.point
            /\ rt' = [detach_pool_work(install(rt, p, w.gen, w.evidence), {p}) EXCEPT
                       !.revalidation[<<p, w.gen>>] = w.revalidations]
         \/ /\ ~(commit_allowed(w, p) /\ rt.trusted)
            /\ rt' = fail_scheduled_pool(p, FALSE, ok)
         \/ /\ commit_allowed(w, p) /\ rt.trusted /\ w.baseline # rt.point
            /\ rt' = fail_scheduled_pool(p, TRUE, ok)
      /\ stripped' = IF w.baseline # rt.point /\ Cardinality(w.support) > 1
                     THEN stripped \cup {p} ELSE stripped

\* The provider fails a cold start.
PoolFails(p) == Command /\ rt.work[p] # NoWork /\ rt' = fail_scheduled_pool(p, FALSE, TRUE)

\* commit_scheduled_discovery of a revalidation, found or not.
revalidated(S, d, found) ==
  LET E    == S.evidence[d.pool]
      rest == evidence_without_owner(E, d.owner)
  IN  CASE found ->
             [S EXCEPT !.evidence[d.pool] = {e \in E : e.kind # "query" \/ e.owner # d.owner}
                                             \cup {StateQuery(d.owner, S.point)},
                       !.revalidation[d.pool] = @ \cup {d.owner}]
        [] ~found /\ ~active_pool(S, d.pool) -> S
        [] ~found /\ active_pool(S, d.pool) /\ rest # {} ->
             [S EXCEPT !.revalidation[d.pool] = @ \ {d.owner}, !.evidence[d.pool] = rest]
        [] OTHER -> remove_pool_serialized(S, d.pool)

\* The first limit candidates of the report, in key order.
admitted(found, limit) ==
  LET q == SetToSeq(found)
  IN  IF limit = None \/ limit[1] >= Len(q) THEN q ELSE SubSeq(q, 1, limit[1])

commit_scheduled_discovery(d, ok) ==
  LET S     == [rt EXCEPT !.discovery = @ \ {d}]
      found == Found(d.owner[1], d.baseline)
      q     == admitted(found, d.limit)
      taken == [i \in 1..Len(q) |-> Candidate(d.owner, q[i], {StateQuery(d.owner, d.baseline)}, TRUE)]
      lost  == d.pool # None /\ d.pool[1] \notin found /\ active_pool(rt, d.pool)
               /\ evidence_without_owner(rt.evidence[d.pool], d.owner) = {}
  IN  IF d.pool # None
      THEN IF lost /\ ~rt.trusted   \* the removal is refused and the handler returns
           THEN [S EXCEPT !.revalidation[d.pool] = @ \ {d.owner}]
           ELSE drain_revalidations(revalidated(S, d, d.pool[1] \in found), ok)
      ELSE drain_revalidations(
             drain_factory_candidates(retain_factory_candidates(S, taken), ok), ok)

\* Mutant: a failed revalidation is dropped instead of kept for a retry.
fail_dropping_revalidation(d, stale, ok) ==
  LET S == [rt EXCEPT !.discovery = @ \ {d}]
      alive == active_discovery(rt, d.owner)
  IN  CASE d.pool # None /\ alive -> S
        [] d.pool # None /\ ~alive -> mark_untrusted(S)
        [] OTHER -> IF stale /\ alive /\ rt.trusted /\ ok
                    THEN queue_discovery(S, d.owner, None, None) ELSE S

\* fail_scheduled_work, a discovery: a revalidation is kept for a retry.
fail_scheduled_discovery(d, stale, ok) ==
  LET S == [rt EXCEPT !.discovery = @ \ {d}]
      alive == active_discovery(rt, d.owner)
  IN  CASE d.pool # None /\ alive /\ active_pool(rt, d.pool) ->
             drain_revalidations([S EXCEPT !.pending = @ \cup {<<d.pool, d.owner>>}], ok)
        [] d.pool # None /\ ~(alive /\ active_pool(rt, d.pool)) -> mark_untrusted(S)
        [] OTHER -> IF stale /\ alive /\ rt.trusted /\ ok
                    THEN queue_discovery(S, d.owner, None, None) ELSE S

DiscoveryReports(d, ok) ==
  /\ Report /\ UNCHANGED stripped
  /\ \/ d.baseline = rt.point /\ rt' = commit_scheduled_discovery(d, ok)
     \/ d.baseline # rt.point /\ rt' = fail_scheduled_discovery(d, TRUE, ok)

DiscoveryFails(d, ok) == Command /\ rt' = fail_scheduled_discovery(d, FALSE, ok)

-----------------------------------------------------------------------------
(* A canonical block.                                                      *)

\* Mutant: orphaned logs are forgotten but the query is not asked again.
reorganise_unasked(S, id, action, dropped) ==
  LET kept == {e \in S.evidence[id] : ~(e.kind = "log" /\ e.block \in dropped)}
  IN  CASE action = "remove" -> remove_pool_serialized(S, id)
        [] action = "revalidate" /\ kept # {} -> [S EXCEPT !.evidence[id] = kept]
        [] OTHER -> mark_untrusted(S)

\* What the reorganisation asks of one active pool.
reorganise(S, id, action, dropped) ==
  LET kept == {e \in S.evidence[id] : ~(e.kind = "log" /\ e.block \in dropped)}
  IN  CASE action = "remove" -> remove_pool_serialized(S, id)
        [] action = "revalidate" /\ S.revalidation[id] # {} /\ kept # {} ->
             [S EXCEPT !.evidence[id] = kept,
                       !.pending = @ \cup {<<id, o>> : o \in S.revalidation[id]}]
        [] OTHER -> mark_untrusted(S)

\* reconcile_orphaned_pending_registrations, for candidates, work and pools.
surviving_work(w, dropped) ==
  LET E    == evidence_without_dropped_hashes(w.evidence, dropped)
      kept == {o \in w.support : evidence_contains_owner(E, o)}
  IN  IF E = {} THEN NoWork
      ELSE [w EXCEPT !.evidence = E, !.support = kept,
                     !.revalidations = {o \in @ : evidence_contains_state_query_owner(E, o)},
                     !.owner = CASE @ = None \/ @ \in kept -> @
                                 [] OTHER -> IF kept = {} THEN None ELSE CHOOSE o \in kept : TRUE]

surviving_candidate(c, dropped) ==
  LET E == evidence_without_dropped_hashes(c.evidence, dropped)
  IN  [c EXCEPT !.evidence = E, !.revalidate = @ /\ evidence_contains_state_query_owner(E, c.owner)]

reconcile_orphaned(S, dropped) ==
  LET keeps(E) == reorg_action(E, dropped) = "keep"
      left == retain(S.candidates, {c \in Range(S.candidates) : keeps(c.evidence)})
      ev   == [i \in PoolId |-> IF keeps(S.evidence[i])
                                THEN evidence_without_dropped_hashes(S.evidence[i], dropped)
                                ELSE S.evidence[i]]
      rv   == [i \in PoolId |-> IF keeps(S.evidence[i])
                                THEN {o \in S.revalidation[i] : evidence_contains_state_query_owner(ev[i], o)}
                                ELSE S.revalidation[i]]
  IN  IF dropped = {} THEN S
      ELSE [S EXCEPT
             !.candidates = [i \in DOMAIN left |-> surviving_candidate(left[i], dropped)],
             !.work = [p \in Pool |-> IF S.work[p] = NoWork THEN NoWork
                                      ELSE surviving_work(S.work[p], dropped)],
             !.evidence = ev, !.revalidation = rv,
             !.pending = {x \in @ : x[2] \in rv[x[1]]}]

\* factory_candidates: the creation logs of b that an active watcher decodes.
factory_candidates(b) ==
  {Candidate(<<l[1], rt.owners[l[1]].gen>>, l[2], {FactoryLog(<<l[1], rt.owners[l[1]].gen>>, b)}, FALSE)
     : l \in {x \in Logs[b] : rt.owners[x[1]].gen > 0}}

\* One pool of the reorganisation: an untrusted runtime refuses a removal, and
\* the handler returns.
reorganise_one(x, id, action, dropped) ==
  IF x.stop THEN x
  ELSE IF action = "remove" /\ ~x.state.trusted THEN [x EXCEPT !.stop = TRUE]
  ELSE [x EXCEPT !.state = reorganise(x.state, id, action, dropped)]

\* The pools none of whose evidence survives, one after the other.
reorganise_pools(S, dropped) ==
  LET hit == {<<p, S.pools[p].gen>> : p \in {q \in Pool : S.pools[q].gen > 0}}
      ids == SetToSeq({id \in hit : reorg_action(S.evidence[id], dropped) # "keep"})
      turn[i \in 0..Len(ids)] ==
        IF i = 0 THEN [state |-> S, stop |-> FALSE]
        ELSE reorganise_one(turn[i - 1], ids[i], reorg_action(S.evidence[ids[i]], dropped), dropped)
  IN  turn[Len(ids)]

ingest(b, ok) ==
  LET dropped == Lineage[rt.point] \ Lineage[b]
      end     == reorganise_pools([rt EXCEPT !.point = b], dropped)
      fixed   == drain_revalidations(reconcile_orphaned(end.state, dropped), ok)
  IN  /\ rt.trusted /\ b \notin delivered /\ Parent[b] \in Lineage[rt.point]
      /\ rt' = IF end.stop THEN end.state
               ELSE drain_factory_candidates(
                      retain_factory_candidates(fixed, SetToSeq(factory_candidates(b))), ok)
      /\ delivered' = delivered \cup {b} /\ UNCHANGED <<spent, withdrawn, stripped>>

-----------------------------------------------------------------------------

Next ==
  \/ \E a \in Adapter : add_adapter(a) \/ remove_adapter(a) \/ remove_adapter_cascade(a)
  \/ \E o \in Owner : add_factory_watcher(o) \/ remove_factory_watcher(o)
                      \/ \E l \in Limits : QueueDiscovery(o, l)
  \/ \E p \in Pool : add_pools(p) \/ remove_pool(p) \/ CancelPool(p) \/ PoolFails(p)
  \/ \E p \in Pool, ok \in BOOLEAN : QueueColdStart(p, ok) \/ PoolReports(p, ok)
  \/ \E d \in rt.discovery : CancelDiscovery(d)
  \/ \E d \in rt.discovery, ok \in BOOLEAN : DiscoveryReports(d, ok) \/ DiscoveryFails(d, ok)
  \/ \E ok \in BOOLEAN : attach_cold_start_worker(ok)
  \/ \E b \in Block, ok \in BOOLEAN : ingest(b, ok)

Spec == Init /\ [][Next]_vars

-----------------------------------------------------------------------------
(* Properties.                                                             *)

\* The state keeps its shape: generations and the candidate queue stay bounded.
TypeOK ==
  /\ rt.trusted \in BOOLEAN /\ rt.attached \in BOOLEAN /\ rt.point \in Block
  /\ rt.adapters \in [Adapter -> 0..MaxGen]
  /\ rt.evidence \in [PoolId -> SUBSET Evidence] /\ rt.revalidation \in [PoolId -> SUBSET OwnerId]
  /\ rt.pending \subseteq PoolId \X OwnerId /\ Len(rt.candidates) <= MaxPending
  /\ \A k \in DOMAIN rt.issued : rt.issued[k] \in 0..MaxGen

Active == {<<p, rt.pools[p].gen>> : p \in {q \in Pool : rt.pools[q].gen > 0}}

\* A revalidation of pool id is queued, running or waiting for the worker.
Asked(id) == (\E x \in rt.pending : x[1] = id) \/ (\E d \in rt.discovery : d.pool = id)

Canonical(e) == e.kind = "stable" \/ e.block \in Lineage[rt.point]

Orphaned(id) == id \in Active /\ \A e \in rt.evidence[id] : ~Canonical(e)

\* A trusted runtime serves a pool only on evidence: stable, or from a block of
\* the canonical chain, or with a revalidation on its way.  Excepted are pools
\* whose revalidation the caller cancelled and those OrphansAsked is about.
Anchored ==
  rt.trusted => \A id \in Active :
    /\ rt.evidence[id] # {}
    /\ Orphaned(id) => Asked(id) \/ id[1] \in withdrawn \cup stripped

\* "Pending and published registrations retain a deduplicated evidence set plus
\* owner-keyed query revalidation recipes" (docs/live-runtime-progressive-cold-start.md):
\* a pool whose evidence is all orphaned is always being revalidated.
OrphansAsked ==
  rt.trusted => \A id \in Active : Orphaned(id) => Asked(id) \/ id[1] \in withdrawn

\* DiscoveryOwnerInUse names active pools: evidence is held for no other pool.
InUseIsActive == \A id \in PoolId \ Active : rt.evidence[id] = {}

\* Nothing outlives the generation it was made under: pools and watchers run
\* under the active generation of their adapter, work is for a generation newer
\* than any installed one, and every owner that supports work, holds a recipe or
\* has a query out is an active watcher.  (Evidence a stale retry carries for a
\* second owner may outlive that owner: see OrphansAsked.)
NothingOutlivesItsOwner ==
  LET live(o) == active_discovery(rt, o)
  IN  /\ \A o \in Owner : rt.owners[o].gen > 0 => rt.owners[o].adapter = active_adapter(rt, o)
      /\ \A p \in Pool : rt.pools[p].gen > 0 => rt.pools[p].adapter = active_adapter(rt, p)
      /\ \A p \in Pool : LET w == rt.work[p] IN
           w # NoWork => /\ w.gen = rt.issued[p] /\ rt.pools[p].gen = 0
                         /\ w.adapter = active_adapter(rt, p)
                         /\ w.evidence # {} /\ \A o \in w.support : live(o)
                         /\ w.owner = None <=> w.support = {}
                         /\ \A o \in w.revalidations :
                              /\ o \in w.support
                              /\ evidence_contains_state_query_owner(w.evidence, o)
      /\ \A i \in DOMAIN rt.candidates : live(rt.candidates[i].owner)
      /\ \A id \in Active : \A o \in rt.revalidation[id] :
           live(o) /\ evidence_contains_state_query_owner(rt.evidence[id], o)
      /\ \A d \in rt.discovery : live(d.owner)
      /\ \A x \in rt.pending : active_pool(rt, x[1]) /\ live(x[2])

\* The worker reports every attempt it holds.  A step is a report exactly when
\* it spends no command and delivers no block, and one is enabled exactly while
\* an attempt is out: this is weak fairness of PoolReports and DiscoveryReports.
Outstanding == rt.discovery # {} \/ \E p \in Pool : rt.work[p] # NoWork
LiveSpec == Spec /\ ([]<>(~Outstanding) \/ []<><<Report>>_vars)

\* An orphaned pool does not stay orphaned: it is confirmed by a canonical
\* query, removed, or the runtime stops being trusted; unless the worker had no
\* room for the query, which then waits for the next block.
OrphansResolved ==
  \A id \in PoolId : Orphaned(id) ~>
    (\/ ~Orphaned(id) \/ ~rt.trusted \/ id[1] \in withdrawn \cup stripped
     \/ \E x \in rt.pending : x[1] = id)
=============================================================================
