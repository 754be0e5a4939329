----------------------------- MODULE SyncEngine -----------------------------
(***************************************************************************)
(* The synchronous engine that owns the AMM topology: one registration has  *)
(* to be entered in the registry, in the routing copy handlers consult, in   *)
(* the upstream runtime's handlers, in the ownership index with its reverse *)
(* maps, in the generation ledger and in the lifecycle map, and leave all of*)
(* them together.  It also owns eviction: cached state that only removed    *)
(* pools used is purged, and a fence purges it again when the upstream      *)
(* journal rolls back a block that a removed pool had written.              *)
(***************************************************************************)
EXTENDS Integers, FiniteSets, Sequences, SequencesExt, FiniteSetsExt, Functions

CONSTANTS Keys, Families, FamilyOf,     \* pool keys, adapter families, [Keys -> Families]
          Slots, AddressOf,             \* storage slots and the contract each belongs to
          Dependencies,                 \* declarations: [whole: accounts, slots: slots]
          Statuses,                     \* the statuses callers add pools with
          MaxGeneration, MaxAdapterGeneration, JournalDepth,
          PointChecked  \* the caller commits a refresh only if no batch came in between

PoolStatuses == {"Pending", "Cold", "Ready", "Degraded", "Disabled", "Unsupported"}

\* A declaration lists slots the model knows; the pool map is finite.
ASSUME EngineAssumption ==
  /\ Statuses \subseteq PoolStatuses
  /\ IsFiniteSet(Keys) /\ MaxGeneration \in Nat /\ JournalDepth \in Nat
  /\ \A d \in Dependencies : d.slots \subseteq Slots

VARIABLES registry, routing,  \* [Keys -> registration]: the two registry views
          handlers,           \* instances with a handler in the upstream runtime
          pools, active,      \* ownership: records of instances, active instances
          address_pools, whole_account_pools, slot_pools,  \* reverse maps, as relations
          adapters,           \* active adapter-family instances
          generations, adapter_generations,
          reservations, lifecycles,
          degraded_targets, degraded_pool_count,
          eviction_fences, journal, cache,
          prepared,           \* at most one refresh prepared and not yet committed
          evicted             \* history: listed slots purged on request, as <<slot, all
                              \* its journaled writers were fenced>>
vars == <<registry, routing, handlers, pools, active, address_pools, whole_account_pools,
          slot_pools, adapters, generations, adapter_generations, reservations, lifecycles,
          degraded_targets, degraded_pool_count, eviction_fences, journal, cache, prepared,
          evicted>>
index == <<pools, active, address_pools, whole_account_pools, slot_pools>>
families == <<adapters, adapter_generations>>

Generations == 0..MaxGeneration
Instances == Keys \X Generations
KeyOf(i) == i[1]
NoPool == [deps |-> [whole |-> {}, slots |-> {}], status |-> "None"]
Registration(d, s) == [deps |-> d, status |-> s]

\* PoolStateDependencies: the addresses a declaration touches.
associated_addresses(d) == d.whole \union {AddressOf[s] : s \in d.slots}
Covered(d) == d.slots \union {s \in Slots : AddressOf[s] \in d.whole}
PoolOwnership(i, d, a) == [instance |-> i, deps |-> d, adapter |-> a]
PreparedPoolRefresh(o, r, d, current) ==
  [previous |-> o, registration |-> r, deps |-> d, current |-> current]

-----------------------------------------------------------------------------
(* The ownership index.                                                     *)

\* The owners of a resource once the instances `gone' have left the index.
owners(rel, r, gone) == {e[2] : e \in {x \in rel : x[1] = r}} \ gone
pools_for_address(a, gone) == owners(address_pools, a, gone)
pools_for_slot(s, gone) ==
  owners(slot_pools, s, gone) \union owners(whole_account_pools, AddressOf[s], gone)

Entries(resources(_), owned) ==
  UNION {resources(o.deps) \X {o.instance} : o \in owned}
Whole(d) == d.whole
Exact(d) == d.slots

InstancesOf(owned) == {o.instance : o \in owned}
KeysOf(owned) == {KeyOf(o.instance) : o \in owned}

IndexOf(p, act, addresses, accounts, slots) ==
  [pools |-> p, active |-> act, address_pools |-> addresses,
   whole_account_pools |-> accounts, slot_pools |-> slots]
Index == IndexOf(pools, active, address_pools, whole_account_pools, slot_pools)
SetIndex(x) ==
  /\ pools' = x.pools /\ active' = x.active /\ address_pools' = x.address_pools
  /\ whole_account_pools' = x.whole_account_pools /\ slot_pools' = x.slot_pools

\* insert_pool: the record and every reverse entry.
insert_pool(x, owned) ==
  IndexOf(x.pools \union owned, x.active \union InstancesOf(owned),
          x.address_pools \union Entries(associated_addresses, owned),
          x.whole_account_pools \union Entries(Whole, owned),
          x.slot_pools \union Entries(Exact, owned))

\* remove_pool: reverse entries are removed by what the record declares.
remove_pool(x, owned) ==
  IndexOf(x.pools \ owned, x.active \ InstancesOf(owned),
          x.address_pools \ Entries(associated_addresses, owned),
          x.whole_account_pools \ Entries(Whole, owned),
          x.slot_pools \ Entries(Exact, owned))

\* replace_pool: the old declaration's entries out, the new one's in.
replace_pool(x, old, new) ==
  IndexOf((x.pools \ {old}) \union {new}, x.active,
          (x.address_pools \ Entries(associated_addresses, {old}))
            \union Entries(associated_addresses, {new}),
          (x.whole_account_pools \ Entries(Whole, {old})) \union Entries(Whole, {new}),
          (x.slot_pools \ Entries(Exact, {old})) \union Entries(Exact, {new}))

-----------------------------------------------------------------------------
(* The structures a batch changes one after the other.  The engine is        *)
(* borrowed for the whole batch: nobody sees them half changed, so a batch     *)
(* that fails at a step is one action, and what it leaves is what its rollback *)
(* makes of the steps already done.                                           *)

Structures(h, reg, routes, x) ==
  [handlers |-> h, registry |-> reg, routing |-> routes, index |-> x]
SetStructures(e) ==
  handlers' = e.handlers /\ registry' = e.registry /\ routing' = e.routing /\ SetIndex(e.index)

register_pool(reg, owned, status) ==
  [k \in Keys |->
     IF k \in KeysOf(owned)
     THEN Registration((CHOOSE o \in owned : KeyOf(o.instance) = k).deps, status[k])
     ELSE reg[k]]
update_pool(reg, ks, r) == [k \in Keys |-> IF k \in ks THEN r ELSE reg[k]]
unregister_pool(reg, owned) == update_pool(reg, KeysOf(owned), NoPool)

\* The pools that reached each structure, on top of what was there.
Entered(status, installed, registered, routed, owned) ==
  Structures(handlers \union InstancesOf(installed), register_pool(registry, registered, status),
             register_pool(routing, routed, status), insert_pool(Index, owned))

\* The failing pool's own entries, undone where the step failed.
withdraw(e, registered, routed) ==
  Structures(e.handlers, unregister_pool(e.registry, registered),
             unregister_pool(e.routing, routed), e.index)

\* As below, leaving the committed pools in the routing copy.
rollback_keeping_routes(e, committed, installed) ==
  Structures(e.handlers \ InstancesOf(installed), unregister_pool(e.registry, committed),
             e.routing, remove_pool(e.index, committed))
rollback_added_pools(e, committed, installed) ==
  Structures(e.handlers \ InstancesOf(installed), unregister_pool(e.registry, committed),
             unregister_pool(e.routing, committed), remove_pool(e.index, committed))

-----------------------------------------------------------------------------
(* Statuses, eviction and the journal.                                      *)

IsDegraded(r) == r.status = "Degraded"
pool_runtime_state(status) == CASE status = "Pending" -> "Discovered"
                                [] status = "Cold" -> "Hydrating"
                                [] status = "Ready" -> "Searchable"
                                [] status = "Degraded" -> "Degraded"
                                [] status \in {"Disabled", "Unsupported"} -> "Failed"
DegradedIn(reg, ks) == Cardinality({k \in ks : IsDegraded(reg[k])})

\* set_pool_status on each of ks, all to one status.
set_pool_status(ks, status) ==
  LET there == {k \in ks : registry[k] # NoPool}
      set(reg) == [k \in Keys |-> IF k \in there THEN Registration(reg[k].deps, status) ELSE reg[k]]
  IN /\ registry' = set(registry) /\ routing' = set(routing)
     /\ degraded_pool_count' = degraded_pool_count - DegradedIn(registry, there)
                                 + (IF status = "Degraded" THEN Cardinality(there) ELSE 0)
     /\ lifecycles' = [i \in Instances |->
          IF i \in active /\ KeyOf(i) \in there THEN pool_runtime_state(status) ELSE lifecycles[i]]

\* evict_exclusive_state purges against the pools that remain.
\* As below, sparing only what remaining pools list slot by slot.
evict_unless_listed(owned, gone) ==
  UNION {{s \in Slots : /\ AddressOf[s] \in associated_addresses(o.deps)
                        /\ \/ pools_for_address(AddressOf[s], gone) = {}
                           \/ s \in o.deps.slots /\ owners(slot_pools, s, gone) = {}} : o \in owned}
evict_exclusive_state(owned, gone) ==
  UNION {{s \in Slots : /\ AddressOf[s] \in associated_addresses(o.deps)
                        /\ \/ pools_for_address(AddressOf[s], gone) = {}
                           \/ s \in o.deps.slots /\ pools_for_slot(s, gone) = {}} : o \in owned}

journaled_handler_ids(j) == {w.handler : w \in UNION Range(j)}
Journaled(fences, j) == {f \in fences : f.instance \in journaled_handler_ids(j)}
record_no_fences(owned) == eviction_fences
record_eviction_fences(owned) == eviction_fences \union Journaled(owned, journal)
retire_eviction_fences(j) == Journaled(eviction_fences, j)

Writers(s) == {w.handler : w \in {x \in UNION Range(journal) : s \in x.slots}}
Adopt(slots) == {e \in evicted : e[1] \notin slots}

\* External: the upstream journal undoes a block's writes, newest first, so of
\* several writes of a slot the oldest decides: what was cached before it is
\* cached again, whatever happened since.
Written(block) == UNION {w.slots : w \in block}
Before(block) == UNION {w.before : w \in block}
Rollback(c, blocks) ==
  (c \ UNION {Written(blocks[n]) : n \in DOMAIN blocks})
    \union UNION {Before(blocks[n]) \ UNION {Written(blocks[m]) : m \in 1..(n - 1)}
                   : n \in DOMAIN blocks}

-----------------------------------------------------------------------------
Init ==
  /\ registry = [k \in Keys |-> NoPool] /\ routing = registry
  /\ handlers = {} /\ pools = {} /\ active = {}
  /\ address_pools = {} /\ whole_account_pools = {} /\ slot_pools = {}
  /\ adapters = {<<f, 0>> : f \in Families}
  /\ generations = [k \in Keys |-> -1] /\ adapter_generations = [f \in Families |-> 0]
  /\ reservations = {} /\ lifecycles = [i \in Instances |-> "None"]
  /\ degraded_targets = {} /\ degraded_pool_count = 0
  /\ eviction_fences = {} /\ journal = <<>> /\ cache = {}
  /\ prepared = {} /\ evicted = {}

active_adapter(k) == {a \in adapters : a[1] = FamilyOf[k]}
ReservedKeys == {KeyOf(i) : i \in reservations}

\* commit_prepared_pool_additions: `owned' enters every structure with the
\* statuses of its registrations; the fences of the keys that return are dropped.
\* Their state was cold started before.
commit_prepared_pool_additions(owned, status) ==
  LET ks == KeysOf(owned)
      of(k) == CHOOSE o \in owned : KeyOf(o.instance) = k
      readopted == {f \in eviction_fences : KeyOf(f.instance) \in ks}
      adopted == UNION {Covered(o.deps) : o \in owned \union readopted}
  IN /\ SetStructures(Entered(status, owned, owned, owned, owned))
     /\ generations' = [k \in Keys |-> IF k \in ks THEN of(k).instance[2] ELSE generations[k]]
     /\ lifecycles' = [i \in Instances |->
          IF i \in InstancesOf(owned) THEN pool_runtime_state(status[KeyOf(i)]) ELSE lifecycles[i]]
     /\ degraded_pool_count' = degraded_pool_count + Cardinality({k \in ks : status[k] = "Degraded"})
     /\ eviction_fences' = eviction_fences \ readopted
     /\ cache' = cache \union UNION {Covered(o.deps) : o \in owned}
     /\ evicted' = Adopt(adopted)
     /\ UNCHANGED <<families, degraded_targets, journal, prepared>>

\* The batch fails: a handler is refused after `before' were installed, or,
\* with every handler installed and `before' committed, the registry, the
\* routing copy or the ownership index refuses the next pool.
abandon_pool_additions(owned, status) ==
  /\ \E before \in SUBSET owned \ {owned} :
       \/ SetStructures(rollback_added_pools(Entered(status, before, {}, {}, {}), {}, before))
       \/ \E o \in owned \ before :
          \E done \in {<<{}, {}>>, <<{o}, {}>>, <<{o}, {o}>>} :
            LET e == Entered(status, owned, before \union done[1], before \union done[2], before)
            IN SetStructures(rollback_added_pools(withdraw(e, done[1], done[2]), before, owned))
  /\ UNCHANGED <<families, generations, lifecycles, degraded_targets, degraded_pool_count,
                 eviction_fences, journal, cache, prepared, evicted>>

\* add_pools, register_pools: an atomic batch at fresh generations.
add_pools ==
  \E ks \in SUBSET Keys \ {{}} : \E d \in [ks -> Dependencies], status \in [ks -> Statuses] :
    /\ \A k \in ks : /\ registry[k] = NoPool /\ k \notin ReservedKeys
                     /\ active_adapter(k) # {} /\ generations[k] < MaxGeneration
                     /\ <<k, generations[k] + 1>> \notin handlers
    /\ LET owned == {PoolOwnership(<<k, generations[k] + 1>>, d[k],
                                   CHOOSE a \in active_adapter(k) : TRUE) : k \in ks}
       IN commit_prepared_pool_additions(owned, status) \/ abandon_pool_additions(owned, status)
    /\ UNCHANGED reservations

reserve_pool_generation ==
  \E k \in Keys :
    /\ registry[k] = NoPool /\ k \notin ReservedKeys /\ active_adapter(k) # {}
    /\ generations[k] < MaxGeneration
    /\ LET i == <<k, generations[k] + 1>>
       IN /\ generations' = [generations EXCEPT ![k] = @ + 1]
          /\ reservations' = reservations \union {i}
          /\ lifecycles' = [lifecycles EXCEPT ![i] = "Queued"]
    /\ UNCHANGED <<registry, routing, handlers, index, families, degraded_targets,
                   degraded_pool_count, eviction_fences, journal, cache, prepared, evicted>>

\* Reservations survive the removal of their adapter; the commit is refused
\* then.  Only a Ready registration is accepted; a failed commit keeps the claim.
commit_pool_reservation ==
  \E i \in reservations, d \in Dependencies :
    /\ active_adapter(KeyOf(i)) # {}
    /\ LET owned == {PoolOwnership(i, d, CHOOSE a \in active_adapter(KeyOf(i)) : TRUE)}
           ready == [k \in {KeyOf(i)} |-> "Ready"]
       IN \/ commit_prepared_pool_additions(owned, ready) /\ reservations' = reservations \ {i}
          \/ abandon_pool_additions(owned, ready) /\ UNCHANGED reservations

cancel_pool_reservation ==
  \E i \in reservations :
    /\ reservations' = reservations \ {i}
    /\ lifecycles' = [lifecycles EXCEPT ![i] = "Removed"]
    /\ UNCHANGED <<registry, routing, handlers, index, families, generations, degraded_targets,
                   degraded_pool_count, eviction_fences, journal, cache, prepared, evicted>>

\* A batch with one pool that is not searchable is refused whole.
acknowledge_live_delivery ==
  \E S \in SUBSET active \ {{}} :
    /\ \A i \in S : lifecycles[i] \in {"Searchable", "Live"}
    /\ \E i \in S : lifecycles[i] = "Searchable"
    /\ lifecycles' = [i \in Instances |-> IF i \in S THEN "Live" ELSE lifecycles[i]]
    /\ UNCHANGED <<registry, routing, handlers, index, families, generations, reservations,
                   degraded_targets, degraded_pool_count, eviction_fences, journal, cache,
                   prepared, evicted>>

-----------------------------------------------------------------------------
(* A refresh is prepared, the transport is fenced, and it is committed.     *)

prepare_pool_refresh ==
  \E o \in pools, d \in Dependencies :
    /\ prepared = {} /\ o.instance \in active /\ o.instance \in handlers
    /\ registry[KeyOf(o.instance)] # NoPool /\ routing[KeyOf(o.instance)] # NoPool
    /\ o.adapter \in active_adapter(KeyOf(o.instance))
    /\ prepared' = {PreparedPoolRefresh(o, registry[KeyOf(o.instance)], d, TRUE)}
    /\ UNCHANGED <<registry, routing, handlers, index, families, generations, reservations,
                   lifecycles, degraded_targets, degraded_pool_count, eviction_fences, journal,
                   cache, evicted>>

\* The status compared with the replacement's is the one the token recorded.
UncountedBy(token) == IF IsDegraded(token.registration) THEN 1 ELSE 0
replace_registration(token) ==
  LET i == token.previous.instance
      k == KeyOf(i)
      r == Registration(token.deps, "Ready")
      new == PoolOwnership(i, token.deps, token.previous.adapter)
  IN /\ SetStructures(Structures((handlers \ {i}) \union {i}, update_pool(registry, {k}, r),
                                 update_pool(routing, {k}, r),
                                 replace_pool(Index, token.previous, new)))
     /\ degraded_targets' = degraded_targets \ {k}
     /\ degraded_pool_count' = degraded_pool_count - UncountedBy(token)
     /\ lifecycles' = [lifecycles EXCEPT ![i] = IF @ = "Live" THEN @ ELSE "Searchable"]
     /\ cache' = cache \union Covered(token.deps)
     /\ evicted' = Adopt(Covered(token.deps))

\* The new handler, the routing copy or the ownership index refuses: the old
\* handler and the registration the token recorded are put back.
restore_registration(token) ==
  LET i == token.previous.instance
      k == KeyOf(i)
      r == Registration(token.deps, "Ready")
      put(h, done, registration) ==
        Structures(h, update_pool(registry, done[1], registration),
                   update_pool(routing, done[2], registration), Index)
      back(e, done) ==
        Structures((e.handlers \ {i}) \union {i}, update_pool(e.registry, done[1], token.registration),
                   update_pool(e.routing, done[2], token.registration), e.index)
  IN /\ \/ SetStructures(back(put(handlers \ {i}, <<{}, {}>>, r), <<{}, {}>>))
        \/ \E done \in {<<{k}, {}>>, <<{k}, {k}>>} :
             SetStructures(back(put((handlers \ {i}) \union {i}, done, r), done))
     /\ UNCHANGED <<degraded_targets, degraded_pool_count, lifecycles, cache, evicted>>

commit_pool_refresh ==
  \E token \in prepared :
    LET i == token.previous.instance
    IN /\ prepared' = {}
       /\ IF i \in active /\ token.previous \in pools /\ i \in handlers
             /\ registry[KeyOf(i)] # NoPool /\ routing[KeyOf(i)] # NoPool
             /\ (PointChecked => token.current)
          THEN replace_registration(token) \/ restore_registration(token)
          ELSE UNCHANGED <<registry, routing, handlers, index, degraded_targets,
                           degraded_pool_count, lifecycles, cache, evicted>>
       /\ UNCHANGED <<families, generations, reservations, eviction_fences, journal>>

-----------------------------------------------------------------------------
(* Removal and eviction.                                                    *)

\* remove_pools_with_policy without the cache part, on the records `owned'.
detach(owned) ==
  LET gone == InstancesOf(owned)
      ks == KeysOf(owned)
  IN /\ SetStructures(Structures(handlers \ gone, unregister_pool(registry, owned),
                                 unregister_pool(routing, owned), remove_pool(Index, owned)))
     /\ degraded_pool_count' = degraded_pool_count - DegradedIn(registry, ks)
     /\ degraded_targets' = degraded_targets \ ks
     /\ lifecycles' = [i \in Instances |-> IF i \in gone THEN "Removed" ELSE lifecycles[i]]
     /\ UNCHANGED <<generations, reservations, journal, prepared>>

\* Retain leaves the cache alone; Exclusive purges and fences.
apply_policy(owned, policy) ==
  LET gone == {o.instance : o \in owned}
      purged == evict_exclusive_state(owned, gone)
      listed == purged \intersect UNION {o.deps.slots : o \in owned}
      fenced(s) == {o.instance : o \in {x \in owned \union eviction_fences : s \in x.deps.slots}}
  IN \/ /\ policy = "Retain"
        /\ UNCHANGED <<cache, eviction_fences, evicted>>
     \/ /\ policy = "Exclusive"
        /\ cache' = cache \ purged
        /\ eviction_fences' = record_eviction_fences(owned)
        /\ evicted' = evicted \union {<<s, Writers(s) \subseteq fenced(s)>> : s \in listed}

\* The runtime does not give up the handler of one pool: those it gave up are
\* registered again, and the lifecycles marked Removing set back.
abandon_removal(owned) ==
  LET removing == [i \in Instances |->
        IF i \in InstancesOf(owned) THEN "Removing" ELSE lifecycles[i]]
  IN /\ \E given \in SUBSET owned \ {owned} :
          handlers' = (handlers \ InstancesOf(given)) \union InstancesOf(given)
     /\ lifecycles' = [i \in Instances |->
          IF i \in InstancesOf(owned) THEN lifecycles[i] ELSE removing[i]]
     /\ UNCHANGED <<registry, routing, index, families, generations, reservations,
                    degraded_targets, degraded_pool_count, eviction_fences, journal, cache,
                    prepared, evicted>>

remove_pools ==
  \E owned \in SUBSET pools \ {{}}, policy \in {"Retain", "Exclusive"} :
    /\ \A o \in owned : o.instance \in handlers
    /\ \/ detach(owned) /\ apply_policy(owned, policy) /\ UNCHANGED families
       \/ abandon_removal(owned)

add_adapter ==
  \E f \in Families :
    /\ {a \in adapters : a[1] = f} = {} /\ adapter_generations[f] < MaxAdapterGeneration
    /\ adapter_generations' = [adapter_generations EXCEPT ![f] = @ + 1]
    /\ adapters' = adapters \union {<<f, adapter_generations[f] + 1>>}
    /\ UNCHANGED <<registry, routing, handlers, index, generations, reservations, lifecycles,
                   degraded_targets, degraded_pool_count, eviction_fences, journal, cache,
                   prepared, evicted>>

\* remove_adapter is the case without dependent pools.
remove_adapter_cascade ==
  \E a \in adapters, policy \in {"Retain", "Exclusive"} :
    LET owned == {o \in pools : o.adapter = a}
    IN /\ \A o \in owned : o.instance \in handlers
       /\ \/ /\ detach(owned) /\ apply_policy(owned, policy)
             /\ adapters' = adapters \ {a} /\ UNCHANGED adapter_generations
          \/ abandon_removal(owned)

\* What a replaced registry holds: each member under its key's and its
\* family's next generation, with the status the caller gives it.
next_adapter(f, d) ==
  IF f \in {FamilyOf[k] : k \in DOMAIN d} THEN adapter_generations[f] + 1 ELSE adapter_generations[f]
members(d) ==
  {PoolOwnership(<<k, generations[k] + 1>>, d[k], <<FamilyOf[k], next_adapter(FamilyOf[k], d)>>)
     : k \in DOMAIN d}
member_registry(d, status) ==
  [k \in Keys |-> IF k \in DOMAIN d THEN Registration(d[k], status[k]) ELSE NoPool]

\* A fresh runtime (no journal), the degraded members counted anew, recovery
\* targets and fences of the old generations dropped.
install_members(d, status) ==
  LET adopted == UNION {Covered(o.deps) : o \in members(d)}
  IN /\ registry' = member_registry(d, status) /\ routing' = member_registry(d, status)
     /\ degraded_pool_count' = DegradedIn(member_registry(d, status), Keys)
     /\ handlers' = InstancesOf(members(d))
     /\ pools' = members(d) /\ active' = InstancesOf(members(d))
     /\ address_pools' = Entries(associated_addresses, members(d))
     /\ whole_account_pools' = Entries(Whole, members(d))
     /\ slot_pools' = Entries(Exact, members(d))
     /\ adapters' = {o.adapter : o \in members(d)}
     /\ adapter_generations' = [f \in Families |-> next_adapter(f, d)]
     /\ generations' = [k \in Keys |-> IF k \in DOMAIN d THEN generations[k] + 1 ELSE generations[k]]
     /\ lifecycles' = [i \in Instances |->
          IF i \in InstancesOf(members(d)) THEN pool_runtime_state(status[KeyOf(i)])
          ELSE IF i \in active THEN "Removed" ELSE lifecycles[i]]
     /\ cache' = cache \union adopted /\ evicted' = Adopt(adopted)
     /\ degraded_targets' = {} /\ eviction_fences' = {} /\ journal' = <<>>
     /\ UNCHANGED <<reservations, prepared>>
replace_registry ==
  \E ks \in SUBSET Keys : \E d \in [ks -> Dependencies], status \in [ks -> Statuses] :
    /\ reservations = {}
    /\ \A k \in ks : /\ generations[k] < MaxGeneration
                     /\ adapter_generations[FamilyOf[k]] < MaxAdapterGeneration
    /\ install_members(d, status)

-----------------------------------------------------------------------------
(* Ingest.                                                                  *)

Outdate ==
  prepared' = {PreparedPoolRefresh(t.previous, t.registration, t.deps, FALSE) : t \in prepared}

\* A block without a reorg: one pool writes slots of its own, or nothing does,
\* and the batch leaves that pool sound, failed, or of unknown impact.
ingest_block ==
  \E block \in {{}} \union UNION {{{[handler |-> o.instance, slots |-> S, before |-> S \intersect cache]}
                                     : S \in SUBSET Covered(o.deps) \ {{}}} : o \in pools},
     outcome \in {"sound", "failed", "unknown", "recovered"} :
    LET ks == {KeyOf(w.handler) : w \in block}
        longer == Append(journal, block)
        j == IF Len(longer) > JournalDepth THEN Tail(longer) ELSE longer
    IN /\ journal' = j
       /\ cache' = cache \union UNION {w.slots : w \in block}
       /\ eviction_fences' = retire_eviction_fences(j)
       /\ \/ /\ outcome = "sound"
             /\ UNCHANGED <<registry, routing, lifecycles, degraded_pool_count, degraded_targets>>
          \/ /\ outcome = "failed" /\ set_pool_status(ks, "Degraded") /\ UNCHANGED degraded_targets
          \/ /\ outcome = "unknown" /\ set_pool_status(ks, "Degraded")
             /\ degraded_targets' = degraded_targets \union ks
          \/ /\ outcome = "recovered"
             /\ \A k \in ks : IsDegraded(registry[k]) /\ k \notin degraded_targets
             /\ set_pool_status(ks, "Ready") /\ UNCHANGED degraded_targets
       /\ (block = {} => outcome = "sound")
       /\ Outdate
       /\ UNCHANGED <<handlers, index, families, generations, reservations, evicted>>

\* The last n blocks are rolled back; a later record of the batch may fail.
\* Either way the fences purge what the rollback brought back.
ingest_reorg ==
  \E n \in 1..Len(journal), fails \in BOOLEAN :
    LET dropped == SubSeq(journal, Len(journal) - n + 1, Len(journal))
        j == SubSeq(journal, 1, Len(journal) - n)
        verified == \A b \in Range(dropped) : b = {}
        ks == {KeyOf(i) : i \in active}
    IN /\ journal' = j
       /\ cache' = Rollback(cache, dropped) \ evict_exclusive_state(eviction_fences, {})
       /\ eviction_fences' = retire_eviction_fences(j)
       /\ IF fails \/ verified
          THEN UNCHANGED <<registry, routing, lifecycles, degraded_pool_count, degraded_targets>>
          ELSE set_pool_status(ks, "Degraded") /\ degraded_targets' = degraded_targets \union ks
       /\ Outdate
       /\ UNCHANGED <<handlers, index, families, generations, reservations, evicted>>

Next == \/ add_pools \/ reserve_pool_generation \/ commit_pool_reservation
        \/ cancel_pool_reservation \/ acknowledge_live_delivery
        \/ prepare_pool_refresh \/ commit_pool_refresh
        \/ remove_pools \/ add_adapter \/ remove_adapter_cascade \/ replace_registry
        \/ ingest_block \/ ingest_reorg

Spec == Init /\ [][Next]_vars

-----------------------------------------------------------------------------
(* Every structure tells the same story: both registry views, the handlers, *)
(* the ownership records and the reverse maps describe the same pools under  *)
(* existing adapters, the degraded count is the number of degraded           *)
(* registrations, an active instance shows the state of its status (or is    *)
(* Live when Ready), and no other instance shows one.                         *)
StructuresAgree ==
  /\ registry = routing
  /\ handlers = active /\ active = {o.instance : o \in pools}
  /\ {KeyOf(i) : i \in active} = {k \in Keys : registry[k] # NoPool}
  /\ \A o \in pools : o.deps = registry[KeyOf(o.instance)].deps /\ o.adapter \in adapters
  /\ address_pools = Entries(associated_addresses, pools)
  /\ whole_account_pools = Entries(Whole, pools) /\ slot_pools = Entries(Exact, pools)
  /\ degraded_pool_count = DegradedIn(registry, Keys)
  /\ \A i \in active : LET status == registry[KeyOf(i)].status
                      IN \/ lifecycles[i] = pool_runtime_state(status)
                         \/ lifecycles[i] = "Live" /\ status = "Ready"
  /\ \A i \in Instances \ active : lifecycles[i] \in {"None", "Queued", "Removed"}

(* State purged on request does not come back: neither a rollback of blocks  *)
(* the removed pool wrote, nor the loss of a fence, nor a failing batch puts   *)
(* an evicted slot back in the cache before a registration adopts it, when every *)
(* generation with a journaled write of it was evicted listing it.             *)
EvictedStaysGone == \A s \in cache : <<s, TRUE>> \notin evicted

(* The same whoever wrote the slot: "preventing a late reorg from             *)
(* rematerializing purged cache state".                                      *)
EvictedNeverReturns == \A s \in cache : <<s, TRUE>> \notin evicted /\ <<s, FALSE>> \notin evicted

(* Eviction spares the living: a slot leaves the cache only when no remaining *)
(* pool covers it, or because a rolled back block had brought it.             *)
EvictionSparesLiving ==
  [][\A s \in cache \ cache' :
       \/ \A o \in pools' : s \notin Covered(o.deps)
       \/ Len(journal') < Len(journal)
          /\ \E n \in Len(journal') + 1..Len(journal) : s \in Written(journal[n])]_vars
=============================================================================
