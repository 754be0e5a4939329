-------------------------- MODULE SyncEngineProofs --------------------------
(***************************************************************************)
(* Proofs about the synchronous engine.  The inductive invariant says, for   *)
(* every set of keys, families, declarations and slots, how the structures   *)
(* hang together and which generations are still free; that evicted state     *)
(* stays out of the cache rests on it and on what the fences remember of the  *)
(* journal.                                                                  *)
(***************************************************************************)
EXTENDS SyncEngine, FiniteSetTheorems, SequenceTheorems, TLAPS

Serving == {"Discovered", "Hydrating", "Searchable", "Live", "Degraded", "Failed"}
Phases == {"None", "Queued", "Removed"} \union Serving
Writes == [handler : Instances, slots : SUBSET Slots, before : SUBSET Slots]

Registered(r) ==
  /\ r = Registration(r.deps, r.status)
  /\ r.status \in {"None"} \union PoolStatuses
  /\ r.status = "None" => r = NoPool

Record(o) ==
  /\ o = PoolOwnership(o.instance, o.deps, o.adapter)
  /\ o.instance \in Instances /\ o.deps \in Dependencies

EngineTypes ==
  /\ registry = [k \in Keys |-> registry[k]] /\ \A k \in Keys : Registered(registry[k])
  /\ generations \in [Keys -> {-1} \union Generations]
  /\ lifecycles \in [Instances -> Phases]
  /\ reservations \subseteq Instances
  /\ journal \in Seq(SUBSET Writes)
  /\ \A n \in DOMAIN journal : \A w \in journal[n] : w.before \subseteq w.slots

\* One record per key, at a generation the ledger has passed; the same holds
\* of what a token remembers.
Ledger ==
  /\ \A o \in pools : Record(o) /\ o.instance[2] <= generations[KeyOf(o.instance)]
  /\ \A o, p \in pools : KeyOf(o.instance) = KeyOf(p.instance) => o = p
  /\ \A i \in reservations : /\ i[2] = generations[KeyOf(i)]
                             /\ registry[KeyOf(i)] = NoPool
                             /\ lifecycles[i] = "Queued"

\* A token's registration declares what its record declares, and is the
\* registry's while no batch came in between; its instance is never handed out
\* again.
Tokens ==
  \A t \in prepared :
    /\ t = PreparedPoolRefresh(t.previous, t.registration, t.deps, t.current)
    /\ Record(t.previous) /\ t.deps \in Dependencies
    /\ t.previous.instance[2] <= generations[KeyOf(t.previous.instance)]
    /\ t.previous.instance \notin reservations
    /\ Registered(t.registration) /\ t.registration # NoPool
    /\ t.registration.deps = t.previous.deps
    /\ t.previous \in pools /\ t.current = TRUE
         => t.registration = registry[KeyOf(t.previous.instance)]

\* StructuresAgree without the routing copy, the counter and the exact lifecycle.
Agreement ==
  /\ handlers = active /\ active = {o.instance : o \in pools}
  /\ {KeyOf(i) : i \in active} = {k \in Keys : registry[k] # NoPool}
  /\ \A o \in pools : o.deps = registry[KeyOf(o.instance)].deps /\ o.adapter \in adapters
  /\ \A i \in Instances : lifecycles[i] \in Serving <=> i \in active

ReverseMaps ==
  /\ address_pools = Entries(associated_addresses, pools)
  /\ whole_account_pools = Entries(Whole, pools)
  /\ slot_pools = Entries(Exact, pools)

\* What holds only of a caller that compares points before it commits a refresh.
Counted == degraded_pool_count = DegradedIn(registry, Keys)
Views == registry = routing
Shown == \A i \in active :
           \/ lifecycles[i] = pool_runtime_state(registry[KeyOf(i)].status)
           \/ lifecycles[i] = "Live" /\ registry[KeyOf(i)].status = "Ready"

EngineInv == EngineTypes /\ Ledger /\ Tokens /\ Agreement /\ ReverseMaps

\* An evicted slot has no owner, and whoever wrote it in the journal is fenced
\* with it.
Fenced ==
  \A e \in evicted :
    e[2] = TRUE =>
      /\ e[1] \in Slots /\ e[1] \notin cache
      /\ \A o \in pools : e[1] \notin Covered(o.deps)
      /\ \A n \in DOMAIN journal : \A w \in journal[n] :
           e[1] \in w.slots => \E f \in eviction_fences : f.instance = w.handler /\ e[1] \in f.deps.slots

-----------------------------------------------------------------------------
(* The reverse maps.                                                        *)

\* What is in a reverse map: a resource of some record, with its instance.
LEMMA EntryMember ==
  ASSUME NEW P
  PROVE  /\ \A x : x \in Entries(associated_addresses, P)
                     <=> \E o \in P : x \in associated_addresses(o.deps) \X {o.instance}
         /\ \A x : x \in Entries(Whole, P) <=> \E o \in P : x \in o.deps.whole \X {o.instance}
         /\ \A x : x \in Entries(Exact, P) <=> \E o \in P : x \in o.deps.slots \X {o.instance}
  BY Zenon DEF Entries, Whole, Exact

\* Two records of one instance are one record.
LEMMA OneRecord ==
  ASSUME Ledger, NEW o \in pools, NEW p \in pools, o.instance = p.instance
  PROVE  o = p
  BY DEF Ledger, KeyOf

\* What each operation of the index assigns.
Inserts(owned) ==
  /\ pools' = pools \union owned /\ active' = active \union InstancesOf(owned)
  /\ address_pools' = address_pools \union Entries(associated_addresses, owned)
  /\ whole_account_pools' = whole_account_pools \union Entries(Whole, owned)
  /\ slot_pools' = slot_pools \union Entries(Exact, owned)
Removes(owned) ==
  /\ pools' = pools \ owned /\ active' = active \ InstancesOf(owned)
  /\ address_pools' = address_pools \ Entries(associated_addresses, owned)
  /\ whole_account_pools' = whole_account_pools \ Entries(Whole, owned)
  /\ slot_pools' = slot_pools \ Entries(Exact, owned)
Replaces(old, new) ==
  /\ pools' = (pools \ {old}) \union {new} /\ active' = active
  /\ address_pools' = (address_pools \ Entries(associated_addresses, {old}))
                        \union Entries(associated_addresses, {new})
  /\ whole_account_pools' = (whole_account_pools \ Entries(Whole, {old})) \union Entries(Whole, {new})
  /\ slot_pools' = (slot_pools \ Entries(Exact, {old})) \union Entries(Exact, {new})

LEMMA StructuresSet ==
  ASSUME NEW h, NEW reg, NEW routes, NEW x, SetStructures(Structures(h, reg, routes, x))
  PROVE  handlers' = h /\ registry' = reg /\ routing' = routes /\ SetIndex(x)
  BY DEF SetStructures, Structures

LEMMA IndexSteps ==
  /\ \A owned : SetIndex(insert_pool(Index, owned)) => Inserts(owned)
  /\ \A owned : SetIndex(remove_pool(Index, owned)) => Removes(owned)
  /\ \A old, new : SetIndex(replace_pool(Index, old, new)) => Replaces(old, new)
  <1>1. /\ Index.pools = pools /\ Index.active = active /\ Index.address_pools = address_pools
        /\ Index.whole_account_pools = whole_account_pools /\ Index.slot_pools = slot_pools
    BY DEF Index, IndexOf
  <1>2. \A owned : SetIndex(insert_pool(Index, owned)) => Inserts(owned)
    BY <1>1 DEF SetIndex, insert_pool, IndexOf, Inserts
  <1>3. \A owned : SetIndex(remove_pool(Index, owned)) => Removes(owned)
    BY <1>1 DEF SetIndex, remove_pool, IndexOf, Removes
  <1>4. \A old, new : SetIndex(replace_pool(Index, old, new)) => Replaces(old, new)
    BY <1>1 DEF SetIndex, replace_pool, IndexOf, Replaces
  <1> QED BY <1>2, <1>3, <1>4

\* insert_pool, remove_pool and replace_pool keep the reverse maps in step
\* with the records.
LEMMA InsertEntries ==
  ASSUME ReverseMaps, NEW owned, Inserts(owned)
  PROVE  ReverseMaps'
  <1>1. pools' = pools \union owned
    BY DEF Inserts
  <1>2. address_pools' = Entries(associated_addresses, pools) \union Entries(associated_addresses, owned)
    BY DEF Inserts, ReverseMaps
  <1>3. whole_account_pools' = Entries(Whole, pools) \union Entries(Whole, owned)
    BY DEF Inserts, ReverseMaps
  <1>4. slot_pools' = Entries(Exact, pools) \union Entries(Exact, owned)
    BY DEF Inserts, ReverseMaps
  <1>5. /\ Entries(associated_addresses, pools \union owned)
             = Entries(associated_addresses, pools) \union Entries(associated_addresses, owned)
        /\ Entries(Whole, pools \union owned) = Entries(Whole, pools) \union Entries(Whole, owned)
        /\ Entries(Exact, pools \union owned) = Entries(Exact, pools) \union Entries(Exact, owned)
    BY Zenon DEF Entries
  <1> QED BY <1>1, <1>2, <1>3, <1>4, <1>5 DEF ReverseMaps, Entries, associated_addresses, Whole, Exact

LEMMA DifferentEntries ==
  ASSUME NEW P, NEW Q, \A o \in P, p \in P : o.instance = p.instance => o = p, Q \subseteq P
  PROVE  /\ Entries(associated_addresses, P \ Q)
              = Entries(associated_addresses, P) \ Entries(associated_addresses, Q)
         /\ Entries(Whole, P \ Q) = Entries(Whole, P) \ Entries(Whole, Q)
         /\ Entries(Exact, P \ Q) = Entries(Exact, P) \ Entries(Exact, Q)
  <1>1. ASSUME NEW o \in P, NEW p \in P, NEW A, NEW B, NEW x, x \in A \X {o.instance}, x \in B \X {p.instance}
        PROVE  o = p
    <2>1. x[2] = o.instance /\ x[2] = p.instance
      BY <1>1
    <2> QED BY <2>1
  <1>2. Entries(associated_addresses, P \ Q)
              = Entries(associated_addresses, P) \ Entries(associated_addresses, Q)
    <2>1. \A S, x : x \in Entries(associated_addresses, S)
                      <=> \E o \in S : x \in associated_addresses(o.deps) \X {o.instance}
      BY EntryMember, Zenon
    <2>2. ASSUME NEW x PROVE x \in Entries(associated_addresses, P \ Q)
                               <=> x \in Entries(associated_addresses, P) \ Entries(associated_addresses, Q)
      <3>1. x \in Entries(associated_addresses, P \ Q) <=> \E o \in P \ Q : x \in associated_addresses(o.deps) \X {o.instance}
        BY <2>1, Zenon
      <3>2. x \in Entries(associated_addresses, P) <=> \E o \in P : x \in associated_addresses(o.deps) \X {o.instance}
        BY <2>1, Zenon
      <3>3. x \in Entries(associated_addresses, Q) <=> \E o \in Q : x \in associated_addresses(o.deps) \X {o.instance}
        BY <2>1, Zenon
      <3> QED BY <1>1, <3>1, <3>2, <3>3, Zenon
    <2> QED BY <2>2, Zenon
  <1>3. Entries(Whole, P \ Q) = Entries(Whole, P) \ Entries(Whole, Q)
    <2>1. \A S, x : x \in Entries(Whole, S)
                      <=> \E o \in S : x \in o.deps.whole \X {o.instance}
      BY EntryMember, Zenon
    <2>2. ASSUME NEW x PROVE x \in Entries(Whole, P \ Q)
                               <=> x \in Entries(Whole, P) \ Entries(Whole, Q)
      <3>1. x \in Entries(Whole, P \ Q) <=> \E o \in P \ Q : x \in o.deps.whole \X {o.instance}
        BY <2>1, Zenon
      <3>2. x \in Entries(Whole, P) <=> \E o \in P : x \in o.deps.whole \X {o.instance}
        BY <2>1, Zenon
      <3>3. x \in Entries(Whole, Q) <=> \E o \in Q : x \in o.deps.whole \X {o.instance}
        BY <2>1, Zenon
      <3> QED BY <1>1, <3>1, <3>2, <3>3, Zenon
    <2> QED BY <2>2, Zenon
  <1>4. Entries(Exact, P \ Q) = Entries(Exact, P) \ Entries(Exact, Q)
    <2>1. \A S, x : x \in Entries(Exact, S)
                      <=> \E o \in S : x \in o.deps.slots \X {o.instance}
      BY EntryMember, Zenon
    <2>2. ASSUME NEW x PROVE x \in Entries(Exact, P \ Q)
                               <=> x \in Entries(Exact, P) \ Entries(Exact, Q)
      <3>1. x \in Entries(Exact, P \ Q) <=> \E o \in P \ Q : x \in o.deps.slots \X {o.instance}
        BY <2>1, Zenon
      <3>2. x \in Entries(Exact, P) <=> \E o \in P : x \in o.deps.slots \X {o.instance}
        BY <2>1, Zenon
      <3>3. x \in Entries(Exact, Q) <=> \E o \in Q : x \in o.deps.slots \X {o.instance}
        BY <2>1, Zenon
      <3> QED BY <1>1, <3>1, <3>2, <3>3, Zenon
    <2> QED BY <2>2, Zenon
  <1> QED BY <1>2, <1>3, <1>4

LEMMA RemoveEntries ==
  ASSUME ReverseMaps, Ledger, NEW owned, owned \subseteq pools, Removes(owned)
  PROVE  ReverseMaps'
  <1>1. \A o \in pools, p \in pools : o.instance = p.instance => o = p
    BY OneRecord
  <1>2. pools' = pools \ owned
    BY DEF Removes
  <1>3. /\ address_pools' = Entries(associated_addresses, pools \ owned)
        /\ whole_account_pools' = Entries(Whole, pools \ owned)
        /\ slot_pools' = Entries(Exact, pools \ owned)
    BY <1>1, DifferentEntries DEF Removes, ReverseMaps
  <1> QED BY <1>2, <1>3 DEF ReverseMaps, Entries, associated_addresses, Whole, Exact

LEMMA ReplaceEntries ==
  ASSUME ReverseMaps, Ledger, NEW old \in pools, NEW new, Replaces(old, new)
  PROVE  ReverseMaps'
  <1>1. \A o \in pools, p \in pools : o.instance = p.instance => o = p
    BY OneRecord
  <1>2. pools' = (pools \ {old}) \union {new}
    BY DEF Replaces
  <1>3. /\ address_pools' = Entries(associated_addresses, pools \ {old})
                              \union Entries(associated_addresses, {new})
        /\ whole_account_pools' = Entries(Whole, pools \ {old}) \union Entries(Whole, {new})
        /\ slot_pools' = Entries(Exact, pools \ {old}) \union Entries(Exact, {new})
    <2> {old} \subseteq pools
      OBVIOUS
    <2> QED BY <1>1, DifferentEntries DEF Replaces, ReverseMaps
  <1>4. \A P, Q : /\ Entries(associated_addresses, P \union Q)
                       = Entries(associated_addresses, P) \union Entries(associated_addresses, Q)
                  /\ Entries(Whole, P \union Q) = Entries(Whole, P) \union Entries(Whole, Q)
                  /\ Entries(Exact, P \union Q) = Entries(Exact, P) \union Entries(Exact, Q)
    BY Zenon DEF Entries
  <1> QED BY <1>2, <1>3, <1>4 DEF ReverseMaps, Entries, associated_addresses, Whole, Exact

-----------------------------------------------------------------------------
(* The registry and the records.                                            *)

LEMMA KeysOfInstances ==
  ASSUME NEW i \in Instances
  PROVE  i = <<KeyOf(i), i[2]>> /\ KeyOf(i) \in Keys /\ i[2] \in Generations /\ i[2] \in Int
  BY EngineAssumption DEF Instances, Generations, KeyOf

\* A key is in the registry exactly when it has a record, and its record is active.
LEMMA PoolKeys ==
  ASSUME EngineInv
  PROVE  /\ \A o \in pools : /\ o.instance \in active /\ o.instance \in Instances
                             /\ KeyOf(o.instance) \in Keys
                             /\ registry[KeyOf(o.instance)] # NoPool
         /\ \A k \in Keys : registry[k] # NoPool => \E o \in pools : KeyOf(o.instance) = k
         /\ \A i \in active : \E o \in pools : o.instance = i
         /\ active \subseteq Instances
  <1>1. \A o \in pools : o.instance \in active /\ o.instance \in Instances
    BY DEF EngineInv, Agreement, Ledger, Record
  <1>2. \A i \in active : \E o \in pools : o.instance = i
    BY DEF EngineInv, Agreement
  <1>3. {KeyOf(i) : i \in active} = {k \in Keys : registry[k] # NoPool}
    BY DEF EngineInv, Agreement
  <1>4. \A o \in pools : KeyOf(o.instance) \in {k \in Keys : registry[k] # NoPool}
    BY <1>1, <1>3
  <1>5. ASSUME NEW k \in Keys, registry[k] # NoPool PROVE \E o \in pools : KeyOf(o.instance) = k
    <2>1. PICK i \in active : KeyOf(i) = k
      BY <1>3, <1>5
    <2> QED BY <1>2, <2>1
  <1> QED BY <1>1, <1>2, <1>4, <1>5

LEMMA NoPoolIsRegistered ==
  ASSUME NEW d, NEW s \in PoolStatuses
  PROVE  /\ Registered(NoPool) /\ Registered(Registration(d, s)) /\ Registration(d, s) # NoPool
         /\ Registration(d, s).deps = d /\ Registration(d, s).status = s
         /\ NoPool.status = "None"
  BY DEF Registered, NoPool, Registration, PoolStatuses

LEMMA EmptyIsRegistered == Registered(NoPool) /\ NoPool.status = "None"
  BY DEF Registered, NoPool, Registration

\* A registered key's state is one of an active instance.
LEMMA RuntimeStates ==
  ASSUME NEW s \in PoolStatuses
  PROVE  pool_runtime_state(s) \in Serving
  BY DEF PoolStatuses, pool_runtime_state, Serving

LEMMA InitKeeps == Init => EngineInv /\ Fenced
  <1> SUFFICES ASSUME Init PROVE EngineInv /\ Fenced
    OBVIOUS
  <1>1. EngineTypes
    <2>1. \A k \in Keys : registry[k] = NoPool
      BY DEF Init
    <2>2. registry = [k \in Keys |-> registry[k]]
      BY DEF Init
    <2>3. \A k \in Keys : Registered(registry[k])
      BY <2>1 DEF Registered, NoPool, Registration
    <2>4. /\ generations \in [Keys -> {-1} \union Generations] /\ reservations \subseteq Instances
          /\ lifecycles \in [Instances -> Phases]
      BY DEF Init, Phases, Serving
    <2>5. journal \in Seq(SUBSET Writes) /\ DOMAIN journal = {}
      BY DEF Init
    <2> QED BY <2>2, <2>3, <2>4, <2>5 DEF EngineTypes
  <1>2. Ledger /\ Tokens
    BY DEF Init, Ledger, Tokens
  <1>3. Agreement
    BY DEF Init, Agreement, Serving
  <1>4. ReverseMaps
    BY DEF Init, ReverseMaps, Entries
  <1> QED BY <1>1, <1>2, <1>3, <1>4 DEF Init, EngineInv, Fenced

\* A batch that enters pools whose keys are free, at generations the ledger
\* has not passed and no token remembers.
Enterable(owned, status) ==
  /\ \A o \in owned : /\ Record(o) /\ o.adapter \in adapters
                      /\ status[KeyOf(o.instance)] \in PoolStatuses
                      /\ registry[KeyOf(o.instance)] = NoPool
                      /\ o.instance[2] >= generations[KeyOf(o.instance)]
                      /\ \A t \in prepared : t.previous.instance # o.instance
  /\ \A o, p \in owned : KeyOf(o.instance) = KeyOf(p.instance) => o = p

LEMMA EnterFacts ==
  ASSUME NEW owned, NEW status, commit_prepared_pool_additions(owned, status)
  PROVE  /\ handlers' = handlers \union InstancesOf(owned) /\ Inserts(owned)
         /\ registry' = register_pool(registry, owned, status)
         /\ routing' = register_pool(routing, owned, status)
         /\ pools' = pools \union owned /\ active' = active \union InstancesOf(owned)
  <1>1. SetStructures(Structures(handlers \union InstancesOf(owned), register_pool(registry, owned, status),
                                 register_pool(routing, owned, status), insert_pool(Index, owned)))
    BY Zenon DEF commit_prepared_pool_additions, Entered
  <1>2. /\ handlers' = handlers \union InstancesOf(owned) /\ Inserts(owned)
        /\ registry' = register_pool(registry, owned, status)
        /\ routing' = register_pool(routing, owned, status)
    BY <1>1, StructuresSet, IndexSteps, Zenon
  <1>3. pools' = pools \union owned /\ active' = active \union InstancesOf(owned)
    BY <1>2 DEF Inserts
  <1> QED BY <1>2, <1>3

LEMMA EnterKeeps ==
  ASSUME EngineInv, NEW owned, NEW status, Enterable(owned, status),
         commit_prepared_pool_additions(owned, status),
         reservations' \subseteq reservations,
         \A i \in reservations', o \in owned : KeyOf(i) # KeyOf(o.instance)
  PROVE  EngineInv'
  <1> DEFINE ks == KeysOf(owned)
             of(k) == CHOOSE o \in owned : KeyOf(o.instance) = k
  <1>1. \A k \in ks : of(k) \in owned /\ KeyOf(of(k).instance) = k
    BY DEF KeysOf
  <1>2. \A o \in owned : /\ KeyOf(o.instance) \in ks /\ of(KeyOf(o.instance)) = o
                         /\ KeyOf(o.instance) \in Keys /\ o.instance \in Instances
    <2>1. \A o \in owned : KeyOf(o.instance) \in ks
      BY DEF KeysOf
    <2> QED BY <1>1, <2>1, KeysOfInstances DEF Enterable, Record
  <1>3. registry' = [k \in Keys |-> IF k \in ks THEN Registration(of(k).deps, status[k]) ELSE registry[k]]
    BY EnterFacts, Zenon DEF register_pool
  <1>4. /\ handlers' = handlers \union InstancesOf(owned)
        /\ Inserts(owned) /\ pools' = pools \union owned
        /\ active' = active \union InstancesOf(owned)
    BY EnterFacts
  <1>5. generations' = [k \in Keys |-> IF k \in ks THEN of(k).instance[2] ELSE generations[k]]
    BY DEF commit_prepared_pool_additions
  <1>6. lifecycles' = [i \in Instances |->
          IF i \in InstancesOf(owned) THEN pool_runtime_state(status[KeyOf(i)]) ELSE lifecycles[i]]
    BY DEF commit_prepared_pool_additions
  <1>0. /\ \A k \in ks : status[k] \in PoolStatuses
        /\ \A i \in InstancesOf(owned) : status[KeyOf(i)] \in PoolStatuses
    BY DEF Enterable, KeysOf, InstancesOf
  <1>7. journal' = journal /\ prepared' = prepared /\ adapters' = adapters
    BY DEF commit_prepared_pool_additions, families
  <1> HIDE DEF ks, of
  <1>8. \A k \in ks : k \in Keys /\ registry[k] = NoPool
    BY <1>1, <1>2 DEF Enterable
  <1>9. \A o \in pools : KeyOf(o.instance) \notin ks
    BY <1>8, PoolKeys
  <1>10. \A k \in ks : of(k).instance[2] \in Generations
    BY <1>1, <1>2, KeysOfInstances
  <1>11. \A k \in Keys : generations'[k] >= generations[k]
    <2>1. \A k \in ks : of(k).instance[2] >= generations[k]
      BY <1>1 DEF Enterable
    <2>2. \A k \in Keys : generations[k] \in Int
      BY EngineAssumption DEF EngineInv, EngineTypes, Generations
    <2> QED BY <1>5, <2>1, <2>2
  <1>12. EngineTypes'
    <2>1. registry' = [k \in Keys |-> registry'[k]]
      BY <1>3
    <2>2. \A k \in Keys : Registered(registry'[k])
      BY <1>0, <1>3, NoPoolIsRegistered DEF EngineInv, EngineTypes
    <2>3. generations' \in [Keys -> {-1} \union Generations]
      BY <1>5, <1>10 DEF EngineInv, EngineTypes
    <2>4. lifecycles' \in [Instances -> Phases]
      BY <1>0, <1>6, RuntimeStates DEF EngineInv, EngineTypes, Phases
    <2> QED BY <1>7, <2>1, <2>2, <2>3, <2>4 DEF EngineInv, EngineTypes, Registered, NoPool, Registration
  <1>13. Ledger'
    <2>1. ASSUME NEW o \in pools' PROVE Record(o) /\ o.instance[2] <= generations'[KeyOf(o.instance)]
      <3>1. CASE o \in owned
        <4>1. generations'[KeyOf(o.instance)] = o.instance[2]
          BY <1>2, <1>5, <3>1
        <4>2. o.instance[2] \in Int
          BY <1>2, <3>1, KeysOfInstances
        <4> QED BY <3>1, <4>1, <4>2 DEF Enterable
      <3>2. CASE o \in pools
        <4>1. generations'[KeyOf(o.instance)] = generations[KeyOf(o.instance)]
          BY <1>5, <1>9, <3>2, PoolKeys
        <4> QED BY <3>2, <4>1 DEF EngineInv, Ledger
      <3> QED BY <1>4, <2>1, <3>1, <3>2
    <2>2. \A o, p \in pools' : KeyOf(o.instance) = KeyOf(p.instance) => o = p
      BY <1>2, <1>4, <1>9 DEF EngineInv, Ledger, Enterable
    <2>3. ASSUME NEW i \in reservations'
          PROVE  /\ i[2] = generations'[KeyOf(i)] /\ registry'[KeyOf(i)] = NoPool
                 /\ lifecycles'[i] = "Queued"
      <3>1. i \in reservations /\ i \in Instances /\ KeyOf(i) \in Keys /\ KeyOf(i) \notin ks
        BY <1>1, KeysOfInstances DEF EngineInv, EngineTypes
      <3>2. i \notin InstancesOf(owned)
        BY <2>3 DEF InstancesOf
      <3> QED BY <1>3, <1>5, <1>6, <3>1, <3>2 DEF EngineInv, Ledger
    <2> QED BY <2>1, <2>2, <2>3 DEF Ledger, Record, PoolOwnership, KeyOf
  <1>14. Tokens'
    <2> SUFFICES ASSUME NEW t \in prepared
                 PROVE  /\ t.previous.instance[2] <= generations'[KeyOf(t.previous.instance)]
                        /\ t.previous.instance \notin reservations'
                        /\ t.previous \in pools' /\ t.current = TRUE
                             => t.registration = registry'[KeyOf(t.previous.instance)]
      BY <1>7 DEF EngineInv, Tokens, Record, PreparedPoolRefresh, PoolOwnership, KeyOf
    <2> DEFINE i == t.previous.instance
    <2>1. i \in Instances /\ i[2] <= generations[KeyOf(i)] /\ i \notin reservations
      BY DEF EngineInv, Tokens, Record
    <2>2. KeyOf(i) \in Keys /\ i[2] \in Int
      BY <2>1, KeysOfInstances
    <2>3. generations[KeyOf(i)] \in Int /\ generations'[KeyOf(i)] \in Int
      BY <1>12, <2>2, EngineAssumption DEF EngineInv, EngineTypes, Generations
    <2>4. i[2] <= generations'[KeyOf(i)]
      <3> HIDE DEF i
      <3> QED BY <1>11, <2>1, <2>2, <2>3
    <2>5. ASSUME t.previous \in pools', t.current = TRUE
          PROVE  t.registration = registry'[KeyOf(i)]
      <3>1. t.previous \in pools
        BY <1>4, <2>5 DEF Enterable
      <3>2. registry'[KeyOf(i)] = registry[KeyOf(i)]
        BY <1>3, <1>9, <2>2, <3>1
      <3> QED BY <2>5, <3>1, <3>2 DEF EngineInv, Tokens
    <2> QED BY <2>1, <2>4, <2>5
  <1>15. Agreement'
    <2>2. handlers' = active' /\ active' = {o.instance : o \in pools'}
      BY <1>4 DEF EngineInv, Agreement, InstancesOf
    <2>3. \A k \in Keys : registry'[k] # NoPool <=> k \in ks \/ registry[k] # NoPool
      BY <1>0, <1>3, NoPoolIsRegistered
    <2>4. {KeyOf(i) : i \in active'} = {k \in Keys : registry'[k] # NoPool}
      <3>1. {KeyOf(i) : i \in active'} = {KeyOf(i) : i \in active} \union ks
        BY <1>4 DEF ks, KeysOf, InstancesOf
      <3> QED BY <1>8, <2>3, <3>1 DEF EngineInv, Agreement
    <2>5. ASSUME NEW o \in pools'
          PROVE  o.deps = registry'[KeyOf(o.instance)].deps /\ o.adapter \in adapters'
      <3>1. CASE o \in owned
        <4>1. registry'[KeyOf(o.instance)] = Registration(o.deps, status[KeyOf(o.instance)])
          BY <1>2, <1>3, <3>1
        <4> QED BY <1>7, <3>1, <4>1 DEF Registration, Enterable
      <3>2. CASE o \in pools
        <4>1. registry'[KeyOf(o.instance)] = registry[KeyOf(o.instance)]
          BY <1>3, <1>9, <3>2, PoolKeys
        <4> QED BY <1>7, <3>2, <4>1 DEF EngineInv, Agreement
      <3> QED BY <1>4, <2>5, <3>1, <3>2
    <2>6. \A i \in Instances : lifecycles'[i] \in Serving <=> i \in active'
      BY <1>0, <1>4, <1>6, RuntimeStates DEF EngineInv, Agreement
    <2> QED BY <2>2, <2>4, <2>5, <2>6 DEF Agreement, NoPool, KeyOf
  <1>16. ReverseMaps'
    BY <1>4, InsertEntries DEF EngineInv
  <1> QED BY <1>12, <1>13, <1>14, <1>15, <1>16 DEF EngineInv

-----------------------------------------------------------------------------
(* A failed batch: the rollback of the steps done gives back what was there.  *)

LEMMA RegistryUndone ==
  ASSUME NEW reg, reg = [k \in Keys |-> reg[k]], NEW C, NEW W, NEW status,
         \A o \in C \union W : reg[KeyOf(o.instance)] = NoPool
  PROVE  unregister_pool(unregister_pool(register_pool(reg, C \union W, status), W), C) = reg
  <1> DEFINE one == register_pool(reg, C \union W, status)
             two == unregister_pool(one, W)
             three == unregister_pool(two, C)
  <1>1. KeysOf(C \union W) = KeysOf(C) \union KeysOf(W)
    BY DEF KeysOf
  <1>2. \A k \in KeysOf(C \union W) : reg[k] = NoPool
    BY DEF KeysOf
  <1>3. \A k \in Keys : k \notin KeysOf(C \union W) => one[k] = reg[k]
    BY Zenon DEF register_pool
  <1> HIDE DEF one
  <1>4. two = [k \in Keys |-> IF k \in KeysOf(W) THEN NoPool ELSE one[k]]
    BY DEF unregister_pool, update_pool
  <1> HIDE DEF two
  <1>5. three = [k \in Keys |-> IF k \in KeysOf(C) THEN NoPool ELSE two[k]]
    BY DEF unregister_pool, update_pool
  <1> HIDE DEF three
  <1>6. \A k \in Keys : three[k] = reg[k]
    BY <1>1, <1>2, <1>3, <1>4, <1>5
  <1>7. three = [k \in Keys |-> three[k]]
    BY <1>5
  <1>8. three = reg
    BY <1>6, <1>7
  <1> QED BY <1>8 DEF three, two, one

\* The instances of a batch are not active.
LEMMA EnterableIsInactive ==
  ASSUME EngineInv, NEW owned, NEW status, Enterable(owned, status)
  PROVE  InstancesOf(owned) \intersect active = {} /\ owned \intersect pools = {}
  <1>1. \A o \in owned : registry[KeyOf(o.instance)] = NoPool
    BY DEF Enterable
  <1>2. \A p \in pools : registry[KeyOf(p.instance)] # NoPool
    BY PoolKeys
  <1>3. \A i \in active : \E p \in pools : p.instance = i
    BY PoolKeys
  <1> QED BY <1>1, <1>2, <1>3 DEF InstancesOf

LEMMA IndexUndone ==
  ASSUME EngineInv, NEW B, InstancesOf(B) \intersect active = {}, B \intersect pools = {},
         SetIndex(remove_pool(insert_pool(Index, B), B))
  PROVE  UNCHANGED index
  <1>1. /\ Index.pools = pools /\ Index.active = active /\ Index.address_pools = address_pools
        /\ Index.whole_account_pools = whole_account_pools /\ Index.slot_pools = slot_pools
    BY DEF Index, IndexOf
  <1> DEFINE x == insert_pool(Index, B)
  <1>2. /\ x.pools = pools \union B /\ x.active = active \union InstancesOf(B)
        /\ x.address_pools = address_pools \union Entries(associated_addresses, B)
        /\ x.whole_account_pools = whole_account_pools \union Entries(Whole, B)
        /\ x.slot_pools = slot_pools \union Entries(Exact, B)
    BY <1>1 DEF insert_pool, IndexOf
  <1> HIDE DEF x
  <1>3. SetIndex(remove_pool(x, B))
    BY DEF x
  <1>4. /\ pools' = x.pools \ B /\ active' = x.active \ InstancesOf(B)
        /\ address_pools' = x.address_pools \ Entries(associated_addresses, B)
        /\ whole_account_pools' = x.whole_account_pools \ Entries(Whole, B)
        /\ slot_pools' = x.slot_pools \ Entries(Exact, B)
    BY <1>3 DEF remove_pool, SetIndex, IndexOf
  <1>5. ASSUME NEW o \in pools, NEW p \in B PROVE o.instance # p.instance
    <2>1. o.instance \in active
      BY PoolKeys
    <2> QED BY <2>1 DEF InstancesOf
  <1>6. ASSUME NEW o \in pools, NEW p \in B, NEW S, NEW T, NEW e, e \in S \X {o.instance}, e \in T \X {p.instance}
        PROVE  FALSE
    <2>1. e[2] = o.instance /\ e[2] = p.instance
      BY <1>6
    <2> QED BY <1>5, <2>1
  <1>7. /\ Entries(associated_addresses, pools) \intersect Entries(associated_addresses, B) = {}
        /\ Entries(Whole, pools) \intersect Entries(Whole, B) = {}
        /\ Entries(Exact, pools) \intersect Entries(Exact, B) = {}
    <2>1. \A P, e : e \in Entries(associated_addresses, P)
                      <=> \E o \in P : e \in associated_addresses(o.deps) \X {o.instance}
      BY EntryMember, Zenon
    <2>2. \A P, e : e \in Entries(Whole, P) <=> \E o \in P : e \in o.deps.whole \X {o.instance}
      BY EntryMember, Zenon
    <2>3. \A P, e : e \in Entries(Exact, P) <=> \E o \in P : e \in o.deps.slots \X {o.instance}
      BY EntryMember, Zenon
    <2>4. Entries(associated_addresses, pools) \intersect Entries(associated_addresses, B) = {}
      <3> SUFFICES ASSUME NEW e, e \in Entries(associated_addresses, pools), e \in Entries(associated_addresses, B) PROVE FALSE
        OBVIOUS
      <3>1. PICK o \in pools : e \in associated_addresses(o.deps) \X {o.instance}
        BY <2>1, Zenon
      <3>2. PICK p \in B : e \in associated_addresses(p.deps) \X {p.instance}
        BY <2>1, Zenon
      <3> QED BY <1>6, <3>1, <3>2, Zenon
    <2>5. Entries(Whole, pools) \intersect Entries(Whole, B) = {}
      <3> SUFFICES ASSUME NEW e, e \in Entries(Whole, pools), e \in Entries(Whole, B) PROVE FALSE
        OBVIOUS
      <3>1. PICK o \in pools : e \in o.deps.whole \X {o.instance}
        BY <2>2, Zenon
      <3>2. PICK p \in B : e \in p.deps.whole \X {p.instance}
        BY <2>2, Zenon
      <3> QED BY <1>6, <3>1, <3>2, Zenon
    <2>6. Entries(Exact, pools) \intersect Entries(Exact, B) = {}
      <3> SUFFICES ASSUME NEW e, e \in Entries(Exact, pools), e \in Entries(Exact, B) PROVE FALSE
        OBVIOUS
      <3>1. PICK o \in pools : e \in o.deps.slots \X {o.instance}
        BY <2>3, Zenon
      <3>2. PICK p \in B : e \in p.deps.slots \X {p.instance}
        BY <2>3, Zenon
      <3> QED BY <1>6, <3>1, <3>2, Zenon
    <2> QED BY <2>4, <2>5, <2>6
  <1>8. /\ address_pools = Entries(associated_addresses, pools)
        /\ whole_account_pools = Entries(Whole, pools) /\ slot_pools = Entries(Exact, pools)
    BY DEF EngineInv, ReverseMaps
  <1>9. /\ address_pools' = address_pools /\ whole_account_pools' = whole_account_pools
        /\ slot_pools' = slot_pools
    BY <1>2, <1>4, <1>7, <1>8
  <1>10. pools' = pools /\ active' = active
    BY <1>2, <1>4
  <1> QED BY <1>9, <1>10 DEF index

\* A rollback of what entered: handlers, registry and index are as before, and
\* so is the routing copy if it agreed with the registry.
Undone == /\ UNCHANGED <<handlers, registry, index>>
          /\ Views => routing' = routing

LEMMA RollbackUndoes ==
  ASSUME EngineInv, NEW owned, NEW status, Enterable(owned, status),
         NEW X, X \subseteq owned, NEW C, C \subseteq owned, NEW W, W \subseteq owned, NEW V, V \subseteq W,
         SetStructures(rollback_added_pools(
           withdraw(Entered(status, X, C \union W, C \union V, C), W, V), C, X))
  PROVE  Undone
  <1>1. /\ handlers' = (handlers \union InstancesOf(X)) \ InstancesOf(X)
        /\ registry' = unregister_pool(unregister_pool(register_pool(registry, C \union W, status), W), C)
        /\ routing' = unregister_pool(unregister_pool(register_pool(routing, C \union V, status), V), C)
        /\ SetIndex(remove_pool(insert_pool(Index, C), C))
    BY DEF SetStructures, rollback_added_pools, withdraw, Entered, Structures
  <1>2. InstancesOf(owned) \intersect active = {} /\ owned \intersect pools = {} /\ handlers = active
    BY EnterableIsInactive DEF EngineInv, Agreement
  <1>3. InstancesOf(X) \subseteq InstancesOf(owned) /\ InstancesOf(C) \subseteq InstancesOf(owned)
    BY DEF InstancesOf
  <1>4. handlers' = handlers
    BY <1>1, <1>2, <1>3
  <1>5. UNCHANGED index
    BY <1>1, <1>2, <1>3, IndexUndone
  <1>6. \A o \in owned : registry[KeyOf(o.instance)] = NoPool
    BY DEF Enterable
  <1>7. registry = [k \in Keys |-> registry[k]]
    BY DEF EngineInv, EngineTypes
  <1>8. registry' = registry
    BY <1>1, <1>6, <1>7, RegistryUndone
  <1>9. ASSUME Views PROVE routing' = routing
    <2>1. routing = [k \in Keys |-> routing[k]] /\ \A o \in owned : routing[KeyOf(o.instance)] = NoPool
      BY <1>6, <1>7, <1>9 DEF Views
    <2> QED BY <1>1, <2>1, RegistryUndone
  <1> QED BY <1>4, <1>5, <1>8, <1>9 DEF Undone

\* A handler is refused: nothing but handlers had entered.
LEMMA HandlersUndone ==
  ASSUME EngineInv, NEW owned, NEW status, Enterable(owned, status), NEW X, X \subseteq owned,
         SetStructures(rollback_added_pools(Entered(status, X, {}, {}, {}), {}, X))
  PROVE  Undone
  <1>1. /\ handlers' = (handlers \union InstancesOf(X)) \ InstancesOf(X)
        /\ registry' = unregister_pool(register_pool(registry, {}, status), {})
        /\ routing' = unregister_pool(register_pool(routing, {}, status), {})
        /\ SetIndex(remove_pool(insert_pool(Index, {}), {}))
    BY DEF SetStructures, rollback_added_pools, Entered, Structures
  <1>2. InstancesOf(owned) \intersect active = {} /\ handlers = active
    BY EnterableIsInactive DEF EngineInv, Agreement
  <1>3. InstancesOf(X) \subseteq InstancesOf(owned) /\ InstancesOf({}) = {} /\ KeysOf({}) = {}
    BY DEF InstancesOf, KeysOf
  <1>4. handlers' = handlers
    BY <1>1, <1>2, <1>3
  <1>5. UNCHANGED index
    BY <1>1, <1>3, IndexUndone
  <1>6. ASSUME NEW reg, reg = [k \in Keys |-> reg[k]]
        PROVE  unregister_pool(register_pool(reg, {}, status), {}) = reg
    <2>1. register_pool(reg, {}, status) = [k \in Keys |-> reg[k]]
      BY <1>3, Zenon DEF register_pool
    <2>2. unregister_pool(reg, {}) = [k \in Keys |-> reg[k]]
      BY <1>3, Zenon DEF unregister_pool, update_pool
    <2> QED BY <1>6, <2>1, <2>2, Zenon
  <1>7. registry = [k \in Keys |-> registry[k]]
    BY DEF EngineInv, EngineTypes
  <1> QED BY <1>1, <1>4, <1>5, <1>6, <1>7 DEF Undone, Views

LEMMA AbandonUndoes ==
  ASSUME EngineInv, NEW owned, NEW status, Enterable(owned, status), abandon_pool_additions(owned, status)
  PROVE  Undone
  <1>1. PICK before \in SUBSET owned :
       \/ SetStructures(rollback_added_pools(Entered(status, before, {}, {}, {}), {}, before))
       \/ \E o \in owned : \E done \in {<<{}, {}>>, <<{o}, {}>>, <<{o}, {o}>>} :
            SetStructures(rollback_added_pools(
              withdraw(Entered(status, owned, before \union done[1], before \union done[2], before),
                       done[1], done[2]), before, owned))
    BY Zenon DEF abandon_pool_additions
  <1>2. CASE SetStructures(rollback_added_pools(Entered(status, before, {}, {}, {}), {}, before))
    BY <1>2, HandlersUndone
  <1>3. ASSUME NEW o \in owned, NEW done \in {<<{}, {}>>, <<{o}, {}>>, <<{o}, {o}>>},
               SetStructures(rollback_added_pools(
                 withdraw(Entered(status, owned, before \union done[1], before \union done[2], before),
                          done[1], done[2]), before, owned))
        PROVE  Undone
    <2>1. done[1] \subseteq owned /\ done[2] \subseteq done[1]
      OBVIOUS
    <2> QED BY <1>3, <2>1, RollbackUndoes
  <1> QED BY <1>1, <1>2, <1>3

-----------------------------------------------------------------------------
(* One lemma per operation.                                                 *)

\* What a failed batch leaves of the engine.
Abandoned == /\ Undone
             /\ UNCHANGED <<adapters, generations, reservations, lifecycles, degraded_pool_count,
                            eviction_fences, journal, cache, prepared, evicted>>

LEMMA AddPoolsKeeps ==
  ASSUME EngineInv, add_pools
  PROVE  \/ Abandoned
         \/ EngineInv' /\ \E owned, status : Enterable(owned, status)
                                             /\ commit_prepared_pool_additions(owned, status)
  <1>1. PICK ks \in SUBSET Keys \ {{}} : \E d \in [ks -> Dependencies], status \in [ks -> Statuses] :
    /\ \A k \in ks : /\ registry[k] = NoPool /\ k \notin ReservedKeys
                     /\ active_adapter(k) # {} /\ generations[k] < MaxGeneration
                     /\ <<k, generations[k] + 1>> \notin handlers
    /\ LET owned == {PoolOwnership(<<k, generations[k] + 1>>, d[k],
                                   CHOOSE a \in active_adapter(k) : TRUE) : k \in ks}
       IN commit_prepared_pool_additions(owned, status) \/ abandon_pool_additions(owned, status)
    /\ UNCHANGED reservations
    BY Zenon DEF add_pools
  <1>2. PICK d \in [ks -> Dependencies], status \in [ks -> Statuses] :
    /\ \A k \in ks : /\ registry[k] = NoPool /\ k \notin ReservedKeys
                     /\ active_adapter(k) # {} /\ generations[k] < MaxGeneration
                     /\ <<k, generations[k] + 1>> \notin handlers
    /\ LET owned == {PoolOwnership(<<k, generations[k] + 1>>, d[k],
                                   CHOOSE a \in active_adapter(k) : TRUE) : k \in ks}
       IN commit_prepared_pool_additions(owned, status) \/ abandon_pool_additions(owned, status)
    /\ UNCHANGED reservations
    BY <1>1, Zenon
  <1> DEFINE new(k) == PoolOwnership(<<k, generations[k] + 1>>, d[k], CHOOSE a \in active_adapter(k) : TRUE)
             owned == {new(k) : k \in ks}
  <1>3. commit_prepared_pool_additions(owned, status) \/ abandon_pool_additions(owned, status)
    BY <1>2, Zenon
  <1>0. \A k \in ks : status[k] \in PoolStatuses
    BY EngineAssumption
  <1>4. ASSUME NEW k \in ks
        PROVE  /\ Record(new(k)) /\ new(k).adapter \in adapters /\ KeyOf(new(k).instance) = k
               /\ new(k).instance[2] >= generations[k] /\ new(k).instance[2] > generations[k]
    <2>1. generations[k] \in {-1} \union Generations /\ generations[k] < MaxGeneration /\ k \in Keys
      BY <1>2 DEF EngineInv, EngineTypes
    <2>2. generations[k] + 1 \in Generations /\ generations[k] + 1 > generations[k]
      BY <2>1, EngineAssumption DEF Generations
    <2>3. <<k, generations[k] + 1>> \in Instances
      BY <2>1, <2>2 DEF Instances
    <2>4. (CHOOSE a \in active_adapter(k) : TRUE) \in adapters
      BY <1>2 DEF active_adapter
    <2>5. d[k] \in Dependencies
      OBVIOUS
    <2> QED BY <2>1, <2>2, <2>3, <2>4, <2>5, EngineAssumption DEF Record, PoolOwnership, KeyOf, Generations
  <1>5. \A o \in owned : \E k \in ks : o = new(k)
    OBVIOUS
  <1> HIDE DEF new, owned
  <1>6. Enterable(owned, status)
    <2>1. ASSUME NEW o \in owned
          PROVE  /\ Record(o) /\ o.adapter \in adapters /\ registry[KeyOf(o.instance)] = NoPool
                 /\ status[KeyOf(o.instance)] \in PoolStatuses
                 /\ o.instance[2] >= generations[KeyOf(o.instance)]
                 /\ \A t \in prepared : t.previous.instance # o.instance
      <3>1. PICK k \in ks : o = new(k)
        BY <1>5
      <3>2. \A t \in prepared : t.previous.instance # o.instance
        <4> SUFFICES ASSUME NEW t \in prepared, t.previous.instance = o.instance PROVE FALSE
          OBVIOUS
        <4>1. o.instance[2] <= generations[k]
          BY <1>4, <3>1 DEF EngineInv, Tokens
        <4>2. o.instance[2] > generations[k] /\ k \in Keys
          BY <1>4, <3>1
        <4>3. generations[k] \in Int /\ o.instance[2] \in Int
          BY <1>4, <3>1, <4>2, KeysOfInstances, EngineAssumption DEF EngineInv, EngineTypes, Generations, Record
        <4> QED BY <4>1, <4>2, <4>3
      <3> QED BY <1>0, <1>2, <1>4, <3>1, <3>2
    <2>2. \A o, p \in owned : KeyOf(o.instance) = KeyOf(p.instance) => o = p
      BY <1>4, <1>5
    <2> QED BY <2>1, <2>2 DEF Enterable
  <1>7. \A i \in reservations', o \in owned : KeyOf(i) # KeyOf(o.instance)
    BY <1>2, <1>4, <1>5 DEF ReservedKeys
  <1>8. CASE commit_prepared_pool_additions(owned, status)
    BY <1>2, <1>6, <1>7, <1>8, EnterKeeps
  <1>9. CASE abandon_pool_additions(owned, status)
    <2>1. Undone
      BY <1>6, <1>9, AbandonUndoes
    <2> QED BY <1>2, <1>9, <2>1 DEF abandon_pool_additions, Abandoned, families
  <1> QED BY <1>3, <1>8, <1>9

LEMMA CommitReservationKeeps ==
  ASSUME EngineInv, commit_pool_reservation
  PROVE  \/ Abandoned
         \/ EngineInv' /\ \E owned, status : Enterable(owned, status)
                                             /\ commit_prepared_pool_additions(owned, status)
  <1>1. PICK i \in reservations, d \in Dependencies :
    /\ active_adapter(KeyOf(i)) # {}
    /\ LET owned == {PoolOwnership(i, d, CHOOSE a \in active_adapter(KeyOf(i)) : TRUE)}
           ready == [k \in {KeyOf(i)} |-> "Ready"]
       IN \/ commit_prepared_pool_additions(owned, ready) /\ reservations' = reservations \ {i}
          \/ abandon_pool_additions(owned, ready) /\ UNCHANGED reservations
    BY Zenon DEF commit_pool_reservation
  <1> DEFINE new == PoolOwnership(i, d, CHOOSE a \in active_adapter(KeyOf(i)) : TRUE)
             ready == [k \in {KeyOf(i)} |-> "Ready"]
  <1>2. /\ new.instance = i /\ new.adapter \in adapters /\ Record(new)
    BY <1>1 DEF PoolOwnership, Record, active_adapter, EngineInv, EngineTypes
  <1>3. /\ i \in Instances /\ i[2] = generations[KeyOf(i)] /\ registry[KeyOf(i)] = NoPool
    BY DEF EngineInv, EngineTypes, Ledger
  <1>4. \A t \in prepared : t.previous.instance # i
    BY DEF EngineInv, Tokens
  <1>5. i[2] >= generations[KeyOf(i)]
    BY <1>3, KeysOfInstances
  <1>6. \/ commit_prepared_pool_additions({new}, ready) /\ reservations' = reservations \ {i}
        \/ abandon_pool_additions({new}, ready) /\ UNCHANGED reservations
    BY <1>1, Zenon
  <1>7. ready[KeyOf(i)] \in PoolStatuses
    BY DEF PoolStatuses
  <1> HIDE DEF new, ready
  <1>8. Enterable({new}, ready)
    BY <1>2, <1>3, <1>4, <1>5, <1>7 DEF Enterable
  <1>9. CASE commit_prepared_pool_additions({new}, ready) /\ reservations' = reservations \ {i}
    <2>1. \A j \in reservations' : j \in reservations /\ KeyOf(j) # KeyOf(i)
      <3> SUFFICES ASSUME NEW j \in reservations', KeyOf(j) = KeyOf(i) PROVE j = i
        BY <1>9
      <3>1. j \in Instances /\ j[2] = generations[KeyOf(j)]
        BY <1>9 DEF EngineInv, EngineTypes, Ledger
      <3> QED BY <1>3, <3>1, KeysOfInstances
    <2> QED BY <1>2, <1>8, <1>9, <2>1, EnterKeeps
  <1>10. CASE abandon_pool_additions({new}, ready) /\ UNCHANGED reservations
    <2>1. Undone
      BY <1>8, <1>10, AbandonUndoes
    <2> QED BY <1>10, <2>1 DEF abandon_pool_additions, Abandoned, families
  <1> QED BY <1>6, <1>9, <1>10

\* A step that leaves topology, ledger and journal alone.
LEMMA SameTopology ==
  ASSUME EngineInv, UNCHANGED <<registry, handlers, index, generations, journal>>,
         adapters \subseteq adapters', reservations' \subseteq reservations, Tokens',
         lifecycles' \in [Instances -> Phases],
         \A i \in Instances : lifecycles'[i] \in Serving <=> i \in active,
         \A i \in reservations' : lifecycles'[i] = "Queued"
  PROVE  EngineInv'
  <1>1. EngineTypes'
    BY DEF EngineInv, EngineTypes, Registered, NoPool, Registration
  <1>2. Ledger'
    BY DEF EngineInv, Ledger, index, Record, PoolOwnership, KeyOf
  <1>3. Agreement'
    BY DEF EngineInv, Agreement, index, NoPool, KeyOf
  <1>4. ReverseMaps'
    BY DEF EngineInv, ReverseMaps, Entries, index, associated_addresses, Whole, Exact
  <1> QED BY <1>1, <1>2, <1>3, <1>4 DEF EngineInv

\* The tokens of such a step, when there are no new ones.
LEMMA SameTokens ==
  ASSUME EngineInv, UNCHANGED <<registry, index, generations>>,
         prepared' \subseteq prepared, reservations' \subseteq reservations
  PROVE  Tokens'
  BY DEF EngineInv, Tokens, Record, PreparedPoolRefresh, PoolOwnership, KeyOf, index

\* A reserved instance is not active.
LEMMA ReservedIsInactive ==
  ASSUME EngineInv, NEW i \in reservations
  PROVE  i \in Instances /\ i \notin active /\ lifecycles[i] = "Queued"
  <1>1. i \in Instances /\ registry[KeyOf(i)] = NoPool /\ lifecycles[i] = "Queued"
    BY DEF EngineInv, EngineTypes, Ledger
  <1>2. i \notin active
    BY <1>1, PoolKeys
  <1> QED BY <1>1, <1>2

\* A failed batch keeps the invariant.
LEMMA AbandonedKeeps ==
  ASSUME EngineInv, Abandoned
  PROVE  EngineInv'
  <1>1. UNCHANGED <<registry, handlers, index, generations, journal, adapters, reservations, lifecycles, prepared>>
    BY DEF Abandoned, Undone
  <1>2. Tokens'
    BY <1>1, SameTokens
  <1>3. lifecycles' \in [Instances -> Phases] /\ \A j \in reservations' : lifecycles'[j] = "Queued"
    BY <1>1, ReservedIsInactive DEF EngineInv, EngineTypes
  <1>4. \A j \in Instances : lifecycles'[j] \in Serving <=> j \in active
    BY <1>1 DEF EngineInv, Agreement
  <1> QED BY <1>1, <1>2, <1>3, <1>4, SameTopology

LEMMA ReserveKeeps ==
  ASSUME EngineInv, reserve_pool_generation
  PROVE  EngineInv'
  <1>1. PICK k \in Keys :
    /\ registry[k] = NoPool /\ k \notin ReservedKeys /\ generations[k] < MaxGeneration
    /\ generations' = [generations EXCEPT ![k] = @ + 1]
    /\ reservations' = reservations \union {<<k, generations[k] + 1>>}
    /\ lifecycles' = [lifecycles EXCEPT ![<<k, generations[k] + 1>>] = "Queued"]
    BY DEF reserve_pool_generation
  <1>2. UNCHANGED <<registry, routing, handlers, index, adapters, journal, prepared>>
    BY DEF reserve_pool_generation, families
  <1> DEFINE i == <<k, generations[k] + 1>>
  <1>3. /\ generations[k] \in {-1} \union Generations /\ generations[k] \in Int
        /\ generations[k] + 1 \in Generations /\ i \in Instances /\ KeyOf(i) = k
        /\ i[2] = generations[k] + 1
    BY <1>1, EngineAssumption DEF EngineInv, EngineTypes, Generations, Instances, KeyOf
  <1>4. \A j \in Keys : generations'[j] \in Int /\ generations[j] \in Int /\ generations[j] <= generations'[j]
    BY <1>1, <1>3, EngineAssumption DEF EngineInv, EngineTypes, Generations
  <1>5. \A o \in pools : KeyOf(o.instance) # k
    BY <1>1, PoolKeys
  <1>6. EngineTypes'
    <2>1. generations' \in [Keys -> {-1} \union Generations]
      BY <1>1, <1>3 DEF EngineInv, EngineTypes
    <2>2. lifecycles' \in [Instances -> Phases]
      BY <1>1, <1>3 DEF EngineInv, EngineTypes, Phases
    <2>3. reservations' \subseteq Instances
      BY <1>1, <1>3 DEF EngineInv, EngineTypes
    <2> QED BY <1>2, <2>1, <2>2, <2>3 DEF EngineInv, EngineTypes, Registered, NoPool, Registration
  <1>7. Ledger'
    <2>1. ASSUME NEW o \in pools PROVE Record(o) /\ o.instance[2] <= generations'[KeyOf(o.instance)]
      <3>1. generations'[KeyOf(o.instance)] = generations[KeyOf(o.instance)]
        BY <1>1, <1>5, PoolKeys DEF EngineInv, EngineTypes
      <3> QED BY <3>1 DEF EngineInv, Ledger
    <2>2. ASSUME NEW j \in reservations'
          PROVE  j[2] = generations'[KeyOf(j)] /\ registry[KeyOf(j)] = NoPool /\ lifecycles'[j] = "Queued"
      <3>1. CASE j = i
        BY <1>1, <1>3, <3>1 DEF EngineInv, EngineTypes
      <3>2. CASE j \in reservations
        <4>1. KeyOf(j) # k /\ j \in Instances /\ KeyOf(j) \in Keys /\ j # i
          BY <1>1, <1>3, <3>2, KeysOfInstances DEF ReservedKeys, EngineInv, EngineTypes
        <4> QED BY <1>1, <1>3, <3>2, <4>1 DEF EngineInv, EngineTypes, Ledger
      <3> QED BY <1>1, <2>2, <3>1, <3>2
    <2> QED BY <1>2, <2>1, <2>2 DEF Ledger, index, Record, PoolOwnership, KeyOf, EngineInv
  <1>8. Tokens'
    <2> SUFFICES ASSUME NEW t \in prepared
                 PROVE  /\ t.previous.instance[2] <= generations'[KeyOf(t.previous.instance)]
                        /\ t.previous.instance \notin reservations'
      BY <1>2 DEF EngineInv, Tokens, Record, PreparedPoolRefresh, PoolOwnership, KeyOf, index
    <2> DEFINE q == t.previous.instance
    <2>1. q \in Instances /\ q[2] <= generations[KeyOf(q)] /\ q \notin reservations
      BY DEF EngineInv, Tokens, Record
    <2> HIDE DEF q
    <2>2. KeyOf(q) \in Keys /\ q[2] \in Int
      BY <2>1, KeysOfInstances
    <2>3. q[2] <= generations'[KeyOf(q)]
      BY <1>4, <2>1, <2>2
    <2>4. q # i
      BY <1>3, <2>1, <2>2
    <2> QED BY <1>1, <2>1, <2>3, <2>4 DEF q
  <1>9. Agreement' /\ ReverseMaps'
    <2>1. i \notin active
      BY <1>3, <1>5, PoolKeys
    <2>2. \A j \in Instances : lifecycles'[j] \in Serving <=> j \in active
      BY <1>1, <1>3, <2>1 DEF EngineInv, Agreement, Serving, EngineTypes
    <2> QED BY <1>2, <2>2 DEF EngineInv, Agreement, ReverseMaps, Entries, index, associated_addresses, Whole, Exact, NoPool, KeyOf
  <1> QED BY <1>6, <1>7, <1>8, <1>9 DEF EngineInv

LEMMA CancelKeeps ==
  ASSUME EngineInv, cancel_pool_reservation
  PROVE  EngineInv'
  <1>1. PICK i \in reservations : /\ reservations' = reservations \ {i}
                                  /\ lifecycles' = [lifecycles EXCEPT ![i] = "Removed"]
    BY DEF cancel_pool_reservation
  <1>2. UNCHANGED <<registry, routing, handlers, index, adapters, generations, journal, prepared>>
    BY DEF cancel_pool_reservation, families
  <1>3. i \in Instances /\ i \notin active
    BY ReservedIsInactive
  <1>4. lifecycles' \in [Instances -> Phases] /\ \A j \in reservations' : lifecycles'[j] = "Queued"
    BY <1>1, <1>3, ReservedIsInactive DEF EngineInv, EngineTypes, Phases
  <1>5. \A j \in Instances : lifecycles'[j] \in Serving <=> j \in active
    BY <1>1, <1>3 DEF EngineInv, EngineTypes, Agreement, Serving
  <1>6. Tokens'
    BY <1>1, <1>2, SameTokens
  <1> QED BY <1>1, <1>2, <1>4, <1>5, <1>6, SameTopology

LEMMA AcknowledgeKeeps ==
  ASSUME EngineInv, acknowledge_live_delivery
  PROVE  EngineInv'
  <1>1. PICK S \in SUBSET active \ {{}} :
          lifecycles' = [i \in Instances |-> IF i \in S THEN "Live" ELSE lifecycles[i]]
    BY DEF acknowledge_live_delivery
  <1>2. UNCHANGED <<registry, routing, handlers, index, adapters, generations, reservations, journal, prepared>>
    BY DEF acknowledge_live_delivery, families
  <1>4. lifecycles' \in [Instances -> Phases] /\ \A j \in reservations' : lifecycles'[j] = "Queued"
    BY <1>1, <1>2, ReservedIsInactive DEF EngineInv, EngineTypes, Phases, Serving
  <1>5. \A j \in Instances : lifecycles'[j] \in Serving <=> j \in active
    BY <1>1 DEF EngineInv, EngineTypes, Agreement, Serving
  <1>6. Tokens'
    BY <1>1, <1>2, SameTokens
  <1> QED BY <1>1, <1>2, <1>4, <1>5, <1>6, SameTopology

LEMMA AddAdapterKeeps ==
  ASSUME EngineInv, add_adapter
  PROVE  EngineInv'
  <1>1. UNCHANGED <<registry, routing, handlers, index, generations, reservations, lifecycles, journal, prepared>>
    BY DEF add_adapter
  <1>2. adapters \subseteq adapters'
    BY DEF add_adapter
  <1>3. lifecycles' \in [Instances -> Phases] /\ \A j \in reservations' : lifecycles'[j] = "Queued"
    BY <1>1, ReservedIsInactive DEF EngineInv, EngineTypes
  <1>4. \A j \in Instances : lifecycles'[j] \in Serving <=> j \in active
    BY <1>1 DEF EngineInv, Agreement
  <1>5. Tokens'
    BY <1>1, SameTokens
  <1> QED BY <1>1, <1>2, <1>3, <1>4, <1>5, SameTopology

LEMMA PrepareKeeps ==
  ASSUME EngineInv, prepare_pool_refresh
  PROVE  EngineInv'
  <1>1. PICK o \in pools, d \in Dependencies :
          prepared' = {PreparedPoolRefresh(o, registry[KeyOf(o.instance)], d, TRUE)}
    BY DEF prepare_pool_refresh
  <1>2. UNCHANGED <<registry, routing, handlers, index, adapters, generations, reservations, lifecycles, journal>>
    BY DEF prepare_pool_refresh, families
  <1>3. lifecycles' \in [Instances -> Phases] /\ \A j \in reservations' : lifecycles'[j] = "Queued"
    BY <1>2, ReservedIsInactive DEF EngineInv, EngineTypes
  <1>4. \A j \in Instances : lifecycles'[j] \in Serving <=> j \in active
    BY <1>2 DEF EngineInv, Agreement
  <1>5. o.instance \notin reservations
    BY ReservedIsInactive, PoolKeys
  <1>6. Record(o) /\ o.instance[2] <= generations[KeyOf(o.instance)]
    BY DEF EngineInv, Ledger
  <1>7. Tokens'
    <2> DEFINE t == PreparedPoolRefresh(o, registry[KeyOf(o.instance)], d, TRUE)
    <2>1. /\ t.previous = o /\ t.registration = registry[KeyOf(o.instance)] /\ t.deps = d
          /\ t = PreparedPoolRefresh(t.previous, t.registration, t.deps, t.current)
      BY DEF PreparedPoolRefresh
    <2>2. \A q \in prepared' : q = t
      BY <1>1
    <2>3. /\ Registered(t.registration) /\ t.registration # NoPool
          /\ t.registration.deps = t.previous.deps
      BY <2>1, PoolKeys DEF EngineInv, EngineTypes, Agreement
    <2> HIDE DEF t
    <2> QED BY <1>2, <1>5, <1>6, <2>1, <2>2, <2>3
        DEF Tokens, Record, PoolOwnership, PreparedPoolRefresh, KeyOf, Registered, Registration, NoPool
  <1> QED BY <1>2, <1>3, <1>4, <1>7, SameTopology

\* detach takes whole records out of every structure; the records that stay
\* keep their adapters.
LEMMA DetachFacts ==
  ASSUME NEW owned, detach(owned)
  PROVE  /\ handlers' = handlers \ InstancesOf(owned) /\ Removes(owned)
         /\ registry' = [k \in Keys |-> IF k \in KeysOf(owned) THEN NoPool ELSE registry[k]]
         /\ routing' = [k \in Keys |-> IF k \in KeysOf(owned) THEN NoPool ELSE routing[k]]
         /\ pools' = pools \ owned /\ active' = active \ InstancesOf(owned)
         /\ lifecycles' = [i \in Instances |-> IF i \in InstancesOf(owned) THEN "Removed" ELSE lifecycles[i]]
         /\ UNCHANGED <<generations, reservations, journal, prepared>>
         /\ degraded_pool_count' = degraded_pool_count - DegradedIn(registry, KeysOf(owned))
  <1>1. SetStructures(Structures(handlers \ InstancesOf(owned), unregister_pool(registry, owned),
                                 unregister_pool(routing, owned), remove_pool(Index, owned)))
    BY Zenon DEF detach
  <1>2. /\ handlers' = handlers \ InstancesOf(owned) /\ Removes(owned)
        /\ registry' = unregister_pool(registry, owned) /\ routing' = unregister_pool(routing, owned)
    BY <1>1, StructuresSet, IndexSteps, Zenon
  <1>3. \A reg : unregister_pool(reg, owned)
                   = [k \in Keys |-> IF k \in KeysOf(owned) THEN NoPool ELSE reg[k]]
    BY Zenon DEF unregister_pool, update_pool
  <1>4. /\ lifecycles' = [i \in Instances |-> IF i \in InstancesOf(owned) THEN "Removed" ELSE lifecycles[i]]
        /\ UNCHANGED <<generations, reservations, journal, prepared>>
        /\ degraded_pool_count' = degraded_pool_count - DegradedIn(registry, KeysOf(owned))
    BY Zenon DEF detach
  <1>5. pools' = pools \ owned /\ active' = active \ InstancesOf(owned)
    BY <1>2 DEF Removes
  <1> QED BY <1>2, <1>3, <1>4, <1>5, Zenon

LEMMA DetachKeeps ==
  ASSUME EngineInv, NEW owned, owned \subseteq pools, detach(owned),
         \A o \in pools \ owned : o.adapter \in adapters'
  PROVE  EngineInv'
  <1> DEFINE gone == InstancesOf(owned)
             ks == KeysOf(owned)
  <1>1. /\ handlers' = handlers \ gone /\ Removes(owned)
        /\ pools' = pools \ owned /\ active' = active \ gone
        /\ UNCHANGED <<generations, reservations, journal, prepared>>
    BY DetachFacts
  <1>2. registry' = [k \in Keys |-> IF k \in ks THEN NoPool ELSE registry[k]]
    BY DetachFacts
  <1>3. lifecycles' = [i \in Instances |-> IF i \in gone THEN "Removed" ELSE lifecycles[i]]
    BY DetachFacts
  <1>4. \A o \in pools : o \in owned <=> o.instance \in gone
    BY OneRecord DEF EngineInv, InstancesOf
  <1>5. \A o \in pools : o \in owned <=> KeyOf(o.instance) \in ks
    BY DEF EngineInv, Ledger, KeysOf
  <1>6. gone \subseteq active
    BY PoolKeys DEF InstancesOf
  <1> HIDE DEF gone, ks
  <1>8. EngineTypes'
    <2>1. registry' = [k \in Keys |-> registry'[k]]
      BY <1>2
    <2>2. \A k \in Keys : Registered(registry'[k])
      BY <1>2, EmptyIsRegistered DEF EngineInv, EngineTypes
    <2>3. lifecycles' \in [Instances -> Phases]
      BY <1>3 DEF EngineInv, EngineTypes, Phases
    <2> QED BY <1>1, <2>1, <2>2, <2>3 DEF EngineInv, EngineTypes, Registered, NoPool, Registration
  <1>9. Ledger'
    <2>1. \A i \in reservations : /\ registry'[KeyOf(i)] = NoPool /\ lifecycles'[i] = "Queued"
      BY <1>2, <1>3, <1>6, ReservedIsInactive, KeysOfInstances DEF EngineInv, Ledger
    <2> QED BY <1>1, <2>1 DEF EngineInv, Ledger, Record, PoolOwnership, KeyOf
  <1>10. Tokens'
    <2> SUFFICES ASSUME NEW t \in prepared, t.previous \in pools', t.current = TRUE
                 PROVE  t.registration = registry'[KeyOf(t.previous.instance)]
      BY <1>1 DEF EngineInv, Tokens, Record, PreparedPoolRefresh, PoolOwnership, KeyOf
    <2>1. t.previous \in pools /\ t.previous \notin owned
      BY <1>1
    <2>2. registry'[KeyOf(t.previous.instance)] = registry[KeyOf(t.previous.instance)]
      BY <1>2, <1>5, <2>1, PoolKeys
    <2> QED BY <2>1, <2>2 DEF EngineInv, Tokens
  <1>11. Agreement'
    <2>2. handlers' = active' /\ active' = {o.instance : o \in pools'}
      BY <1>1, <1>4 DEF EngineInv, Agreement
    <2>3. {KeyOf(i) : i \in active'} = {k \in Keys : registry'[k] # NoPool}
      <3>1. ASSUME NEW i \in active' PROVE KeyOf(i) \in Keys /\ registry'[KeyOf(i)] # NoPool
        <4>1. PICK o \in pools : o.instance = i
          BY <1>1, PoolKeys
        <4>2. o \notin owned
          BY <1>1, <1>4, <4>1
        <4> QED BY <1>2, <1>5, <4>1, <4>2, PoolKeys
      <3>2. ASSUME NEW k \in Keys, registry'[k] # NoPool PROVE \E i \in active' : KeyOf(i) = k
        <4>1. k \notin ks /\ registry[k] # NoPool
          BY <1>2, <3>2
        <4>2. PICK o \in pools : KeyOf(o.instance) = k
          BY <4>1, PoolKeys
        <4> QED BY <1>1, <1>4, <1>5, <4>1, <4>2, PoolKeys
      <3> QED BY <3>1, <3>2
    <2>4. ASSUME NEW o \in pools'
          PROVE  o.deps = registry'[KeyOf(o.instance)].deps /\ o.adapter \in adapters'
      <3>1. registry'[KeyOf(o.instance)] = registry[KeyOf(o.instance)]
        BY <1>1, <1>2, <1>5, PoolKeys
      <3> QED BY <1>1, <3>1 DEF EngineInv, Agreement
    <2>5. \A i \in Instances : lifecycles'[i] \in Serving <=> i \in active'
      BY <1>1, <1>3 DEF EngineInv, Agreement, Serving
    <2> QED BY <2>2, <2>3, <2>4, <2>5 DEF Agreement, NoPool, KeyOf
  <1>12. ReverseMaps'
    BY <1>1, RemoveEntries DEF EngineInv
  <1> QED BY <1>8, <1>9, <1>10, <1>11, <1>12 DEF EngineInv

\* The handlers given up are registered again and the lifecycles set back.
LEMMA AbandonedRemoval ==
  ASSUME EngineInv, NEW owned, \A o \in owned : o.instance \in handlers, abandon_removal(owned)
  PROVE  Abandoned
  <1>1. PICK given \in SUBSET owned : handlers' = (handlers \ InstancesOf(given)) \union InstancesOf(given)
    BY Zenon DEF abandon_removal
  <1>2. InstancesOf(given) \subseteq handlers
    BY DEF InstancesOf
  <1>3. handlers' = handlers
    BY <1>1, <1>2
  <1> DEFINE X == InstancesOf(owned)
             removing == [i \in Instances |-> IF i \in X THEN "Removing" ELSE lifecycles[i]]
  <1>4. lifecycles' = [i \in Instances |-> IF i \in X THEN lifecycles[i] ELSE removing[i]]
    BY Zenon DEF abandon_removal
  <1> HIDE DEF X
  <1>5. lifecycles' = [i \in Instances |-> lifecycles[i]]
    BY <1>4
  <1>6. lifecycles' = lifecycles
    BY <1>5 DEF EngineInv, EngineTypes
  <1>7. UNCHANGED <<registry, routing, index, adapters, generations, reservations, degraded_pool_count,
                    eviction_fences, journal, cache, prepared, evicted>>
    BY DEF abandon_removal, families
  <1> QED BY <1>3, <1>6, <1>7 DEF Abandoned, Undone

\* Both removals: a batch leaves every structure, or nothing happened.
LEMMA RemovalCases ==
  ASSUME EngineInv, remove_pools \/ remove_adapter_cascade
  PROVE  \/ Abandoned
         \/ \E owned \in SUBSET pools, policy \in {"Retain", "Exclusive"} :
              /\ detach(owned) /\ apply_policy(owned, policy)
              /\ \A o \in pools \ owned : o.adapter \in adapters'
  <1>1. CASE remove_pools
    <2>1. PICK owned \in SUBSET pools, policy \in {"Retain", "Exclusive"} :
            /\ \A o \in owned : o.instance \in handlers
            /\ \/ detach(owned) /\ apply_policy(owned, policy) /\ UNCHANGED families
               \/ abandon_removal(owned)
      BY <1>1, Zenon DEF remove_pools
    <2>2. UNCHANGED families => \A o \in pools \ owned : o.adapter \in adapters'
      BY DEF families, EngineInv, Agreement
    <2> QED BY <2>1, <2>2, AbandonedRemoval
  <1>2. CASE remove_adapter_cascade
    <2>1. PICK a \in adapters, policy \in {"Retain", "Exclusive"} :
            LET owned == {o \in pools : o.adapter = a}
            IN /\ \A o \in owned : o.instance \in handlers
               /\ \/ detach(owned) /\ apply_policy(owned, policy) /\ adapters' = adapters \ {a}
                  \/ abandon_removal(owned)
      BY <1>2, Zenon DEF remove_adapter_cascade
    <2> DEFINE owned == {o \in pools : o.adapter = a}
    <2>2. /\ \A o \in owned : o.instance \in handlers
          /\ \/ detach(owned) /\ apply_policy(owned, policy) /\ adapters' = adapters \ {a}
             \/ abandon_removal(owned)
      BY <2>1, Zenon
    <2>3. adapters' = adapters \ {a} => \A o \in pools \ owned : o.adapter \in adapters'
      BY DEF EngineInv, Agreement
    <2>4. owned \in SUBSET pools
      OBVIOUS
    <2> HIDE DEF owned
    <2> QED BY <2>2, <2>3, <2>4, AbandonedRemoval
  <1> QED BY <1>1, <1>2

LEMMA RemovalKeeps ==
  ASSUME EngineInv, remove_pools \/ remove_adapter_cascade
  PROVE  EngineInv'
  BY RemovalCases, AbandonedKeeps, DetachKeeps

LEMMA ReplaceRegistryFacts ==
  ASSUME replace_registry
  PROVE  /\ journal' = <<>> /\ reservations = {} /\ UNCHANGED <<reservations, prepared>>
         /\ \E ks \in SUBSET Keys : \E d \in [ks -> Dependencies], status \in [ks -> Statuses] :
              (\A k \in ks : generations[k] < MaxGeneration) /\ install_members(d, status)
  <1>1. \E ks \in SUBSET Keys : \E d \in [ks -> Dependencies], status \in [ks -> Statuses] :
          (\A k \in ks : generations[k] < MaxGeneration) /\ install_members(d, status)
    BY Zenon DEF replace_registry
  <1>2. reservations = {}
    BY DEF replace_registry
  <1>3. ASSUME NEW d, NEW status, install_members(d, status)
        PROVE  journal' = <<>> /\ UNCHANGED <<reservations, prepared>>
    BY <1>3, Zenon DEF install_members
  <1> QED BY <1>1, <1>2, <1>3, Zenon

LEMMA ReplaceRegistryKeeps ==
  ASSUME EngineInv, replace_registry
  PROVE  EngineInv'
  <1>1. PICK ks \in SUBSET Keys : \E d \in [ks -> Dependencies], status \in [ks -> Statuses] :
          (\A k \in ks : generations[k] < MaxGeneration) /\ install_members(d, status)
    BY ReplaceRegistryFacts, Zenon
  <1>2. journal' = <<>> /\ reservations = {} /\ UNCHANGED <<reservations, prepared>>
    BY ReplaceRegistryFacts
  <1>3. PICK d \in [ks -> Dependencies], status \in [ks -> Statuses] :
          (\A k \in ks : generations[k] < MaxGeneration) /\ install_members(d, status)
    BY <1>1, Zenon
  <1> DEFINE new(k) == PoolOwnership(<<k, generations[k] + 1>>, d[k], <<FamilyOf[k], next_adapter(FamilyOf[k], d)>>)
             owned == {new(k) : k \in ks}
  <1>0. /\ DOMAIN d = ks /\ members(d) = owned /\ \A k \in ks : status[k] \in PoolStatuses
    BY EngineAssumption DEF members
  <1>4. /\ registry' = [k \in Keys |-> IF k \in ks THEN Registration(d[k], status[k]) ELSE NoPool]
        /\ handlers' = InstancesOf(owned)
        /\ pools' = owned /\ active' = InstancesOf(owned)
        /\ address_pools' = Entries(associated_addresses, owned)
        /\ whole_account_pools' = Entries(Whole, owned)
        /\ slot_pools' = Entries(Exact, owned)
        /\ adapters' = {o.adapter : o \in owned}
    BY <1>0, <1>3, Zenon DEF install_members, member_registry
  <1>5. generations' = [k \in Keys |-> IF k \in ks THEN generations[k] + 1 ELSE generations[k]]
    BY <1>0, <1>3, Zenon DEF install_members
  <1>6. lifecycles' = [i \in Instances |->
          IF i \in InstancesOf(owned) THEN pool_runtime_state(status[KeyOf(i)])
          ELSE IF i \in active THEN "Removed" ELSE lifecycles[i]]
    BY <1>0, <1>3, Zenon DEF install_members
  <1>7. ASSUME NEW k \in ks
        PROVE  /\ Record(new(k)) /\ KeyOf(new(k).instance) = k /\ new(k).deps = d[k]
               /\ new(k).instance[2] = generations[k] + 1 /\ generations[k] + 1 \in Generations
               /\ k \in Keys
    <2>1. generations[k] \in {-1} \union Generations /\ generations[k] < MaxGeneration /\ k \in Keys
      BY <1>3 DEF EngineInv, EngineTypes
    <2>2. generations[k] + 1 \in Generations
      BY <2>1, EngineAssumption DEF Generations
    <2>3. <<k, generations[k] + 1>> \in Instances
      BY <2>1, <2>2 DEF Instances
    <2> QED BY <2>1, <2>2, <2>3 DEF Record, PoolOwnership, KeyOf
  <1>8. \A o \in owned : \E k \in ks : o = new(k)
    OBVIOUS
  <1>9. \A k \in ks : new(k) \in owned
    OBVIOUS
  <1> HIDE DEF new, owned
  <1>16. \A i \in InstancesOf(owned) : status[KeyOf(i)] \in PoolStatuses /\ pool_runtime_state(status[KeyOf(i)]) \in Serving
    BY <1>0, <1>7, <1>8, RuntimeStates DEF InstancesOf
  <1>10. \A k \in Keys : generations[k] \in Int /\ generations[k] <= generations'[k] /\ generations'[k] \in Int
    BY <1>5, EngineAssumption DEF EngineInv, EngineTypes, Generations
  <1>11. EngineTypes'
    <2>1. registry' = [k \in Keys |-> registry'[k]] /\ \A k \in Keys : Registered(registry'[k])
      BY <1>0, <1>4, NoPoolIsRegistered DEF PoolStatuses
    <2>2. generations' \in [Keys -> {-1} \union Generations]
      BY <1>5, <1>7 DEF EngineInv, EngineTypes
    <2>3. lifecycles' \in [Instances -> Phases]
      BY <1>6, <1>16 DEF EngineInv, EngineTypes, Phases
    <2>4. journal' \in Seq(SUBSET Writes) /\ DOMAIN journal' = {}
      BY <1>2
    <2> QED BY <1>2, <2>1, <2>2, <2>3, <2>4 DEF EngineInv, EngineTypes, Registered, NoPool, Registration
  <1>12. Ledger'
    <2>1. \A k \in ks : generations'[k] = generations[k] + 1 /\ generations[k] \in Int
      BY <1>5, <1>7, <1>10
    <2>2. \A o \in pools' : Record(o) /\ o.instance[2] <= generations'[KeyOf(o.instance)]
      BY <1>4, <1>7, <1>8, <2>1
    <2>3. \A o, p \in pools' : KeyOf(o.instance) = KeyOf(p.instance) => o = p
      BY <1>4, <1>7, <1>8
    <2> QED BY <1>2, <2>2, <2>3 DEF Ledger, Record, PoolOwnership, KeyOf
  <1>13. Tokens'
    <2> SUFFICES ASSUME NEW t \in prepared
                 PROVE  /\ t.previous.instance[2] <= generations'[KeyOf(t.previous.instance)]
                        /\ t.previous \notin pools'
      BY <1>2 DEF EngineInv, Tokens, Record, PreparedPoolRefresh, PoolOwnership, KeyOf, Registered, Registration, NoPool
    <2> DEFINE q == t.previous.instance
    <2>1. q \in Instances /\ q[2] <= generations[KeyOf(q)]
      BY DEF EngineInv, Tokens, Record
    <2> HIDE DEF q
    <2>2. KeyOf(q) \in Keys /\ q[2] \in Int
      BY <2>1, KeysOfInstances
    <2>3. q[2] <= generations'[KeyOf(q)]
      BY <1>10, <2>1, <2>2
    <2>4. \A k \in ks : q # new(k).instance
      BY <1>7, <1>10, <2>1, <2>2
    <2>5. t.previous \notin pools'
      BY <1>4, <1>8, <2>4 DEF q
    <2> QED BY <2>3, <2>5 DEF q
  <1>14. Agreement'
    <2>1. \A k \in Keys : registry'[k] # NoPool <=> k \in ks
      BY <1>0, <1>4, NoPoolIsRegistered
    <2>2. {KeyOf(i) : i \in active'} = ks
      BY <1>4, <1>7, <1>8, <1>9 DEF InstancesOf
    <2>3. \A o \in pools' : o.deps = registry'[KeyOf(o.instance)].deps /\ o.adapter \in adapters'
      BY <1>0, <1>4, <1>7, <1>8, NoPoolIsRegistered
    <2>4. \A i \in Instances : lifecycles'[i] \in Serving <=> i \in active'
      BY <1>4, <1>6, <1>16 DEF EngineInv, Agreement, Serving
    <2>5. ks \subseteq Keys
      OBVIOUS
    <2> QED BY <1>4, <2>1, <2>2, <2>3, <2>4, <2>5 DEF Agreement, NoPool, KeyOf, InstancesOf
  <1>15. ReverseMaps'
    BY <1>4 DEF ReverseMaps, Entries, associated_addresses, Whole, Exact
  <1> QED BY <1>11, <1>12, <1>13, <1>14, <1>15 DEF EngineInv

\* A step that restates registrations and leaves the records alone: the same
\* keys are registered, with the same declarations.
LEMMA RestateKeeps ==
  ASSUME EngineInv,
         registry' = [k \in Keys |-> registry'[k]],
         \A k \in Keys : /\ Registered(registry'[k])
                         /\ registry'[k] # NoPool <=> registry[k] # NoPool
                         /\ registry'[k].deps = registry[k].deps,
         lifecycles' \in [Instances -> Phases],
         \A i \in reservations : lifecycles'[i] = "Queued",
         \A i \in Instances : lifecycles'[i] \in Serving <=> i \in active,
         Tokens', UNCHANGED <<handlers, index, adapters, generations, reservations>>,
         journal' \in Seq(SUBSET Writes),
         \A n \in DOMAIN journal' : \A w \in journal'[n] : w.before \subseteq w.slots
  PROVE  EngineInv'
  <1>1. EngineTypes'
    BY DEF EngineInv, EngineTypes, Registered, NoPool, Registration
  <1>2. Ledger'
    <2>1. ASSUME NEW i \in reservations PROVE registry'[KeyOf(i)] = NoPool /\ lifecycles'[i] = "Queued"
      <3>1. KeyOf(i) \in Keys /\ registry[KeyOf(i)] = NoPool
        BY KeysOfInstances DEF EngineInv, EngineTypes, Ledger
      <3> QED BY <3>1
    <2> QED BY <2>1 DEF EngineInv, Ledger, Record, PoolOwnership, KeyOf, index
  <1>3. Agreement'
    <2>1. {KeyOf(i) : i \in active} = {k \in Keys : registry'[k] # NoPool}
      BY DEF EngineInv, Agreement
    <2>2. \A o \in pools : o.deps = registry'[KeyOf(o.instance)].deps /\ o.adapter \in adapters
      BY PoolKeys DEF EngineInv, Agreement
    <2> QED BY <2>1, <2>2 DEF EngineInv, Agreement, index, NoPool, KeyOf
  <1>4. ReverseMaps'
    BY DEF EngineInv, ReverseMaps, Entries, index, associated_addresses, Whole, Exact
  <1> QED BY <1>1, <1>2, <1>3, <1>4 DEF EngineInv

\* A token that a batch outdated remembers what it did.
LEMMA OutdatedTokens ==
  ASSUME EngineInv, Outdate, UNCHANGED <<generations, reservations>>
  PROVE  Tokens'
  <1> SUFFICES ASSUME NEW t \in prepared'
               PROVE  /\ t = PreparedPoolRefresh(t.previous, t.registration, t.deps, t.current)
                      /\ Record(t.previous) /\ t.deps \in Dependencies
                      /\ t.previous.instance[2] <= generations[KeyOf(t.previous.instance)]
                      /\ t.previous.instance \notin reservations
                      /\ Registered(t.registration) /\ t.registration # NoPool
                      /\ t.registration.deps = t.previous.deps /\ t.current # TRUE
    BY DEF Tokens, Record, PreparedPoolRefresh, PoolOwnership, KeyOf, Registered, Registration, NoPool
  <1>1. PICK q \in prepared : t = PreparedPoolRefresh(q.previous, q.registration, q.deps, FALSE)
    BY DEF Outdate
  <1>2. t.previous = q.previous /\ t.registration = q.registration /\ t.deps = q.deps
    BY <1>1 DEF PreparedPoolRefresh
  <1>3. t.current = FALSE
    BY <1>1 DEF PreparedPoolRefresh
  <1>4. t = PreparedPoolRefresh(t.previous, t.registration, t.deps, t.current)
    BY <1>1, <1>2, <1>3
  <1> QED BY <1>2, <1>3, <1>4 DEF EngineInv, Tokens

\* The two outcomes of a refresh that passed its checks.
Passed(t) == /\ t.previous \in pools /\ t.previous.instance \in active
             /\ PointChecked => t.current
Renewed(t) == PoolOwnership(t.previous.instance, t.deps, t.previous.adapter)
Replaced(t) ==
  LET k == KeyOf(t.previous.instance)
  IN /\ handlers' = handlers
     /\ registry' = update_pool(registry, {k}, Registration(t.deps, "Ready"))
     /\ routing' = update_pool(routing, {k}, Registration(t.deps, "Ready"))
     /\ Replaces(t.previous, Renewed(t))
     /\ degraded_pool_count' = degraded_pool_count - UncountedBy(t)
     /\ lifecycles' = [lifecycles EXCEPT ![t.previous.instance] =
                         IF lifecycles[t.previous.instance] = "Live" THEN "Live" ELSE "Searchable"]
     /\ cache' = cache \union Covered(t.deps) /\ evicted' = Adopt(Covered(t.deps))
Restored(t) ==
  LET k == KeyOf(t.previous.instance)
      r == Registration(t.deps, "Ready")
  IN /\ UNCHANGED <<handlers, index, degraded_pool_count, lifecycles, cache, evicted>>
     /\ \E done \in {<<{}, {}>>, <<{k}, {}>>, <<{k}, {k}>>} :
          /\ registry' = update_pool(update_pool(registry, done[1], r), done[1], t.registration)
          /\ routing' = update_pool(update_pool(routing, done[2], r), done[2], t.registration)

LEMMA ReplacedFacts ==
  ASSUME NEW t, t.previous.instance \in handlers, replace_registration(t)
  PROVE  Replaced(t)
  <1> DEFINE i == t.previous.instance
             k == KeyOf(i)
             r == Registration(t.deps, "Ready")
  <1>1. SetStructures(Structures((handlers \ {i}) \union {i}, update_pool(registry, {k}, r),
                                 update_pool(routing, {k}, r),
                                 replace_pool(Index, t.previous, Renewed(t))))
    BY Zenon DEF replace_registration, Renewed
  <1>2. /\ handlers' = (handlers \ {i}) \union {i} /\ Replaces(t.previous, Renewed(t))
        /\ registry' = update_pool(registry, {k}, r) /\ routing' = update_pool(routing, {k}, r)
    BY <1>1, StructuresSet, IndexSteps, Zenon
  <1>3. handlers' = handlers
    BY <1>2
  <1>4. /\ degraded_pool_count' = degraded_pool_count - UncountedBy(t)
        /\ cache' = cache \union Covered(t.deps) /\ evicted' = Adopt(Covered(t.deps))
    BY Zenon DEF replace_registration
  <1>5. lifecycles' = [lifecycles EXCEPT ![i] = IF lifecycles[i] = "Live" THEN "Live" ELSE "Searchable"]
    <2>1. lifecycles' = [lifecycles EXCEPT ![i] = IF @ = "Live" THEN @ ELSE "Searchable"]
      BY DEF replace_registration
    <2> QED BY <2>1
  <1> QED BY <1>2, <1>3, <1>4, <1>5, Zenon DEF Replaced

LEMMA RestoredFacts ==
  ASSUME NEW t, t.previous.instance \in handlers, restore_registration(t)
  PROVE  Restored(t)
  <1> DEFINE i == t.previous.instance
             k == KeyOf(i)
             r == Registration(t.deps, "Ready")
             put(h, done) == Structures(h, update_pool(registry, done[1], r), update_pool(routing, done[2], r), Index)
             back(e, done) == Structures((e.handlers \ {i}) \union {i}, update_pool(e.registry, done[1], t.registration),
                                         update_pool(e.routing, done[2], t.registration), e.index)
             Set(done) == /\ handlers' = handlers
                          /\ registry' = update_pool(update_pool(registry, done[1], r), done[1], t.registration)
                          /\ routing' = update_pool(update_pool(routing, done[2], r), done[2], t.registration)
                          /\ SetIndex(Index)
  <1>1. /\ \/ SetStructures(back(put(handlers \ {i}, <<{}, {}>>), <<{}, {}>>))
           \/ \E done \in {<<{k}, {}>>, <<{k}, {k}>>} :
                SetStructures(back(put((handlers \ {i}) \union {i}, done), done))
        /\ UNCHANGED <<degraded_pool_count, lifecycles, cache, evicted>>
    BY Zenon DEF restore_registration
  <1>2. ASSUME NEW h, h = handlers \ {i} \/ h = (handlers \ {i}) \union {i}, NEW done,
               SetStructures(back(put(h, done), done))
        PROVE  Set(done)
    <2>1. /\ put(h, done).handlers = h /\ put(h, done).registry = update_pool(registry, done[1], r)
          /\ put(h, done).routing = update_pool(routing, done[2], r) /\ put(h, done).index = Index
      BY DEF Structures
    <2> HIDE DEF put
    <2>2. /\ handlers' = (put(h, done).handlers \ {i}) \union {i}
          /\ registry' = update_pool(put(h, done).registry, done[1], t.registration)
          /\ routing' = update_pool(put(h, done).routing, done[2], t.registration)
          /\ SetIndex(put(h, done).index)
      BY <1>2, StructuresSet, Zenon
    <2>3. handlers' = handlers
      BY <1>2, <2>1, <2>2
    <2> QED BY <2>1, <2>2, <2>3, Zenon
  <1> HIDE DEF put, back
  <1>3. PICK done \in {<<{}, {}>>, <<{k}, {}>>, <<{k}, {k}>>} : Set(done)
    BY <1>1, <1>2, Zenon
  <1>4. UNCHANGED index
    <2>1. /\ Index.pools = pools /\ Index.active = active /\ Index.address_pools = address_pools
          /\ Index.whole_account_pools = whole_account_pools /\ Index.slot_pools = slot_pools
      BY DEF Index, IndexOf
    <2> QED BY <1>3, <2>1 DEF SetIndex, index
  <1> QED BY <1>1, <1>3, <1>4, Zenon DEF Restored

LEMMA RefreshCases ==
  ASSUME commit_pool_refresh
  PROVE  /\ prepared' = {} /\ UNCHANGED <<adapters, generations, reservations, eviction_fences, journal>>
         /\ \/ UNCHANGED <<registry, routing, handlers, index, degraded_pool_count, lifecycles, cache, evicted>>
            \/ \E t \in prepared : Passed(t) /\ (Replaced(t) \/ Restored(t))
  <1>1. prepared' = {} /\ UNCHANGED <<adapters, generations, reservations, eviction_fences, journal>>
    BY DEF commit_pool_refresh, families
  <1>2. PICK t \in prepared :
          \/ /\ t.previous.instance \in active /\ t.previous \in pools /\ t.previous.instance \in handlers
             /\ PointChecked => t.current
             /\ replace_registration(t) \/ restore_registration(t)
          \/ UNCHANGED <<registry, routing, handlers, index, degraded_pool_count, lifecycles, cache, evicted>>
    BY Zenon DEF commit_pool_refresh
  <1> QED BY <1>1, <1>2, ReplacedFacts, RestoredFacts, Zenon DEF Passed

\* What a refresh that is undone leaves in a registry view.
LEMMA UpdatedTwice ==
  ASSUME NEW reg, NEW ks, NEW a, NEW b
  PROVE  update_pool(update_pool(reg, ks, a), ks, b) = [k \in Keys |-> IF k \in ks THEN b ELSE reg[k]]
  <1>1. update_pool(reg, ks, a) = [k \in Keys |-> IF k \in ks THEN a ELSE reg[k]]
    BY DEF update_pool
  <1>2. update_pool(update_pool(reg, ks, a), ks, b)
          = [k \in Keys |-> IF k \in ks THEN b ELSE update_pool(reg, ks, a)[k]]
    BY DEF update_pool
  <1> QED BY <1>1, <1>2

LEMMA RestoredKeeps ==
  ASSUME EngineInv, prepared' = {}, UNCHANGED <<adapters, generations, reservations, journal>>,
         NEW t \in prepared, Passed(t), Restored(t)
  PROVE  EngineInv'
  <1> DEFINE q == KeyOf(t.previous.instance)
  <1>1. PICK ks \in SUBSET {q} : registry' = [k \in Keys |-> IF k \in ks THEN t.registration ELSE registry[k]]
    <2>1. PICK done \in {<<{}, {}>>, <<{q}, {}>>, <<{q}, {q}>>} :
            registry' = update_pool(update_pool(registry, done[1], Registration(t.deps, "Ready")), done[1], t.registration)
      BY Zenon DEF Restored
    <2>2. done[1] \in SUBSET {q}
      OBVIOUS
    <2> QED BY <2>1, <2>2, UpdatedTwice
  <1>2. UNCHANGED <<handlers, index, lifecycles>>
    BY DEF Restored
  <1>3. /\ Registered(t.registration) /\ t.registration # NoPool
        /\ t.registration.deps = registry[q].deps /\ registry[q] # NoPool /\ q \in Keys
    BY PoolKeys DEF EngineInv, Tokens, Agreement, Passed
  <1> HIDE DEF q
  <1>4. /\ registry' = [k \in Keys |-> registry'[k]]
        /\ \A k \in Keys : /\ Registered(registry'[k])
                           /\ registry'[k] # NoPool <=> registry[k] # NoPool
                           /\ registry'[k].deps = registry[k].deps
    BY <1>1, <1>3 DEF EngineInv, EngineTypes
  <1>5. Tokens'
    BY DEF Tokens
  <1>6. /\ lifecycles' \in [Instances -> Phases] /\ \A i \in reservations : lifecycles'[i] = "Queued"
        /\ \A i \in Instances : lifecycles'[i] \in Serving <=> i \in active
    BY <1>2 DEF EngineInv, EngineTypes, Ledger, Agreement
  <1>7. /\ journal' \in Seq(SUBSET Writes)
        /\ \A n \in DOMAIN journal' : \A w \in journal'[n] : w.before \subseteq w.slots
    BY DEF EngineInv, EngineTypes
  <1> QED BY <1>2, <1>4, <1>5, <1>6, <1>7, RestateKeeps

LEMMA ReplacedKeeps ==
  ASSUME EngineInv, prepared' = {}, UNCHANGED <<adapters, generations, reservations, journal>>,
         NEW token \in prepared, Passed(token), Replaced(token)
  PROVE  EngineInv'
  <1> DEFINE old == token.previous
             i == token.previous.instance
             k == KeyOf(i)
             new == Renewed(token)
  <1>1. /\ registry' = [j \in Keys |-> IF j = k THEN Registration(token.deps, "Ready") ELSE registry[j]]
        /\ Replaces(old, new) /\ handlers' = handlers
        /\ lifecycles' = [lifecycles EXCEPT ![i] = IF lifecycles[i] = "Live" THEN "Live" ELSE "Searchable"]
    <2>1. update_pool(registry, {k}, Registration(token.deps, "Ready"))
            = [j \in Keys |-> IF j = k THEN Registration(token.deps, "Ready") ELSE registry[j]]
      BY DEF update_pool
    <2> QED BY <2>1, Zenon DEF Replaced
  <1>2. pools' = (pools \ {old}) \union {new} /\ active' = active
    BY <1>1 DEF Replaces
  <1>3. /\ old \in pools /\ i \in active /\ k \in Keys /\ i \in Instances /\ registry[k] # NoPool
    BY PoolKeys DEF Passed
  <1>4. /\ new.instance = i /\ new.deps = token.deps /\ new.adapter = old.adapter /\ Record(new)
    BY <1>3 DEF Renewed, PoolOwnership, Record, EngineInv, Tokens
  <1>5. \A o \in pools \ {old} : KeyOf(o.instance) # k /\ o.instance # i
    BY <1>3 DEF EngineInv, Ledger
  <1>6. old.adapter \in adapters /\ i[2] <= generations[k]
    BY <1>3 DEF EngineInv, Agreement, Ledger
  <1>7. old.instance = i /\ KeyOf(i) = k
    OBVIOUS
  <1> HIDE DEF old, i, k, new
  <1>8. EngineTypes'
    <2>1. registry' = [j \in Keys |-> registry'[j]] /\ \A j \in Keys : Registered(registry'[j])
      BY <1>1, NoPoolIsRegistered DEF EngineInv, EngineTypes, PoolStatuses
    <2>2. lifecycles' \in [Instances -> Phases]
      BY <1>1, <1>3 DEF EngineInv, EngineTypes, Phases, Serving
    <2> QED BY <2>1, <2>2 DEF EngineInv, EngineTypes, Registered, NoPool, Registration
  <1>9. Ledger'
    <2>1. ASSUME NEW j \in reservations
          PROVE  registry'[KeyOf(j)] = NoPool /\ lifecycles'[j] = "Queued"
      <3>1. j \in Instances /\ j \notin active /\ KeyOf(j) \in Keys /\ registry[KeyOf(j)] = NoPool
        BY ReservedIsInactive, KeysOfInstances DEF EngineInv, Ledger
      <3> QED BY <1>1, <1>3, <3>1, ReservedIsInactive DEF EngineInv, EngineTypes
    <2>2. \A o \in pools' : Record(o) /\ o.instance[2] <= generations[KeyOf(o.instance)]
      BY <1>2, <1>4, <1>6, <1>7 DEF EngineInv, Ledger
    <2>3. \A o, p \in pools' : KeyOf(o.instance) = KeyOf(p.instance) => o = p
      BY <1>2, <1>4, <1>5, <1>7 DEF EngineInv, Ledger
    <2>4. \A j \in reservations : j[2] = generations[KeyOf(j)]
      BY DEF EngineInv, Ledger
    <2> QED BY <2>1, <2>2, <2>3, <2>4 DEF Ledger, Record, PoolOwnership, KeyOf
  <1>10. Agreement'
    <2>1. handlers' = active' /\ active' = {o.instance : o \in pools'}
      BY <1>1, <1>2, <1>3, <1>4, <1>7 DEF EngineInv, Agreement
    <2>2. \A j \in Keys : registry'[j] # NoPool <=> registry[j] # NoPool
      BY <1>1, <1>3, NoPoolIsRegistered DEF PoolStatuses
    <2>3. {KeyOf(j) : j \in active'} = {j \in Keys : registry'[j] # NoPool}
      BY <1>2, <2>2 DEF EngineInv, Agreement
    <2>4. ASSUME NEW o \in pools'
          PROVE  o.deps = registry'[KeyOf(o.instance)].deps /\ o.adapter \in adapters'
      <3>1. CASE o = new
        <4>1. registry'[k] = Registration(token.deps, "Ready")
          BY <1>1, <1>3
        <4> QED BY <1>4, <1>6, <1>7, <3>1, <4>1 DEF Registration
      <3>2. CASE o \in pools \ {old}
        <4>1. registry'[KeyOf(o.instance)] = registry[KeyOf(o.instance)]
          BY <1>1, <1>5, <3>2, PoolKeys
        <4> QED BY <3>2, <4>1 DEF EngineInv, Agreement
      <3> QED BY <1>2, <2>4, <3>1, <3>2
    <2>5. \A j \in Instances : lifecycles'[j] \in Serving <=> j \in active'
      BY <1>1, <1>2, <1>3 DEF EngineInv, EngineTypes, Agreement, Serving
    <2> QED BY <2>1, <2>3, <2>4, <2>5 DEF Agreement, NoPool, KeyOf
  <1>11. ReverseMaps'
    BY <1>1, <1>3, ReplaceEntries DEF EngineInv
  <1>12. Tokens'
    BY DEF Tokens
  <1> QED BY <1>8, <1>9, <1>10, <1>11, <1>12 DEF EngineInv

LEMMA RefreshKeeps ==
  ASSUME EngineInv, commit_pool_refresh
  PROVE  EngineInv'
  <1>1. /\ prepared' = {} /\ UNCHANGED <<adapters, generations, reservations, journal>>
        /\ \/ UNCHANGED <<registry, routing, handlers, index, lifecycles>>
           \/ \E t \in prepared : Passed(t) /\ (Replaced(t) \/ Restored(t))
    BY RefreshCases
  <1>2. CASE UNCHANGED <<registry, routing, handlers, index, lifecycles>>
    <2>1. lifecycles' \in [Instances -> Phases] /\ \A j \in reservations' : lifecycles'[j] = "Queued"
      BY <1>1, <1>2, ReservedIsInactive DEF EngineInv, EngineTypes
    <2>2. \A j \in Instances : lifecycles'[j] \in Serving <=> j \in active
      BY <1>2 DEF EngineInv, Agreement
    <2>3. Tokens'
      BY <1>1 DEF Tokens
    <2> QED BY <1>1, <1>2, <2>1, <2>2, <2>3, SameTopology
  <1> QED BY <1>1, <1>2, RestoredKeeps, ReplacedKeeps

\* A batch either restates one set of keys or none.
Restated(ks) ==
  \/ UNCHANGED <<registry, routing, lifecycles>>
  \/ \E s \in {"Ready", "Degraded"} : set_pool_status(ks, s)

LEMMA BatchKeeps ==
  ASSUME EngineInv, NEW ks, ks \subseteq Keys, Restated(ks),
         Outdate, UNCHANGED <<handlers, index, adapters, generations, reservations>>,
         journal' \in Seq(SUBSET Writes),
         \A n \in DOMAIN journal' : \A w \in journal'[n] : w.before \subseteq w.slots
  PROVE  EngineInv'
  <1>1. Tokens'
    BY OutdatedTokens
  <1>2. CASE UNCHANGED <<registry, routing, lifecycles>>
    <2>1. /\ lifecycles' \in [Instances -> Phases] /\ \A i \in reservations : lifecycles'[i] = "Queued"
          /\ \A i \in Instances : lifecycles'[i] \in Serving <=> i \in active
      BY <1>2 DEF EngineInv, EngineTypes, Ledger, Agreement
    <2>2. registry' = [k \in Keys |-> registry'[k]] /\ \A k \in Keys : Registered(registry'[k])
      BY <1>2 DEF EngineInv, EngineTypes
    <2> QED BY <1>1, <1>2, <2>1, <2>2, RestateKeeps
  <1>3. ASSUME NEW s \in {"Ready", "Degraded"}, set_pool_status(ks, s) PROVE EngineInv'
    <2> DEFINE there == {k \in ks : registry[k] # NoPool}
    <2>1. there \subseteq {k \in Keys : registry[k] # NoPool}
      OBVIOUS
    <2>2. registry' = [k \in Keys |-> IF k \in there THEN Registration(registry[k].deps, s) ELSE registry[k]]
      BY <1>3 DEF set_pool_status
    <2>3. lifecycles' = [i \in Instances |->
            IF i \in active /\ KeyOf(i) \in there THEN pool_runtime_state(s) ELSE lifecycles[i]]
      BY <1>3 DEF set_pool_status
    <2>4. s \in PoolStatuses /\ pool_runtime_state(s) \in Serving
      BY RuntimeStates DEF PoolStatuses
    <2> HIDE DEF there
    <2>5. /\ registry' = [k \in Keys |-> registry'[k]]
          /\ \A k \in Keys : /\ Registered(registry'[k])
                             /\ registry'[k] # NoPool <=> registry[k] # NoPool
                             /\ registry'[k].deps = registry[k].deps
      BY <2>1, <2>2, <2>4, NoPoolIsRegistered DEF EngineInv, EngineTypes
    <2>6. lifecycles' \in [Instances -> Phases]
      BY <2>3, <2>4 DEF EngineInv, EngineTypes, Phases
    <2>7. \A i \in reservations : lifecycles'[i] = "Queued"
      BY <2>3, ReservedIsInactive
    <2>8. \A i \in Instances : lifecycles'[i] \in Serving <=> i \in active
      BY <2>3, <2>4 DEF EngineInv, Agreement
    <2> QED BY <1>1, <2>5, <2>6, <2>7, <2>8, RestateKeeps
  <1> QED BY <1>2, <1>3 DEF Restated

\* The blocks a batch may append: one write of one pool, or none.
Blocks == {{}} \union UNION {{{[handler |-> o.instance, slots |-> S, before |-> S \intersect cache]}
                                : S \in SUBSET Covered(o.deps) \ {{}}} : o \in pools}

\* Every write of a new block is of a pool's own slots.
LEMMA BlockWrites ==
  ASSUME EngineInv, NEW block \in Blocks
  PROVE  \A w \in block : /\ w \in Writes /\ w.before \subseteq w.slots
                          /\ \E o \in pools : w.handler = o.instance /\ w.slots \subseteq Covered(o.deps)
  <1> SUFFICES ASSUME NEW w \in block
               PROVE  /\ w \in Writes /\ w.before \subseteq w.slots
                      /\ \E o \in pools : w.handler = o.instance /\ w.slots \subseteq Covered(o.deps)
    OBVIOUS
  <1>1. PICK o \in pools : \E S \in SUBSET Covered(o.deps) :
          w = [handler |-> o.instance, slots |-> S, before |-> S \intersect cache]
    BY DEF Blocks
  <1>2. PICK S \in SUBSET Covered(o.deps) :
          w = [handler |-> o.instance, slots |-> S, before |-> S \intersect cache]
    BY <1>1
  <1>3. S \subseteq Slots
    <2>1. o.deps \in Dependencies
      BY DEF EngineInv, Ledger, Record
    <2> QED BY <2>1, EngineAssumption DEF Covered
  <1>4. o.instance \in Instances
    BY PoolKeys
  <1> QED BY <1>2, <1>3, <1>4 DEF Writes

\* An appended sequence, and its tail, hold what was there and the new element.
LEMMA Appended ==
  ASSUME NEW S, NEW q \in Seq(S), NEW b \in S
  PROVE  /\ Append(q, b) \in Seq(S) /\ Len(Append(q, b)) >= Len(q)
         /\ \A n \in DOMAIN Append(q, b) : Append(q, b)[n] = b \/ \E m \in DOMAIN q : Append(q, b)[n] = q[m]
  <1>1. /\ Append(q, b) \in Seq(S) /\ Len(Append(q, b)) = Len(q) + 1
        /\ DOMAIN Append(q, b) = 1..(Len(q) + 1)
        /\ Len(q) \in Nat /\ DOMAIN q = 1..Len(q)
    OBVIOUS
  <1>2. ASSUME NEW n \in DOMAIN Append(q, b)
        PROVE  Append(q, b)[n] = b \/ \E m \in DOMAIN q : Append(q, b)[n] = q[m]
    <2>1. n \in DOMAIN q \/ n = Len(q) + 1
      BY <1>1
    <2>2. CASE n \in DOMAIN q
      BY <2>2
    <2>3. CASE n = Len(q) + 1
      BY <2>3
    <2> QED BY <2>1, <2>2, <2>3
  <1>3. Len(Append(q, b)) >= Len(q)
    BY <1>1
  <1> QED BY <1>1, <1>2, <1>3

LEMMA Tailed ==
  ASSUME NEW S, NEW q \in Seq(S), q # << >>
  PROVE  /\ Tail(q) \in Seq(S) /\ Len(Tail(q)) = Len(q) - 1
         /\ \A n \in DOMAIN Tail(q) : \E m \in DOMAIN q : Tail(q)[n] = q[m]
  <1>1. Tail(q) \in Seq(S) /\ Len(Tail(q)) = Len(q) - 1 /\ Len(q) \in Nat /\ DOMAIN q = 1..Len(q)
    BY HeadTailProperties
  <1>2. DOMAIN Tail(q) = 1..(Len(q) - 1)
    BY <1>1
  <1>3. ASSUME NEW n \in DOMAIN Tail(q) PROVE \E m \in DOMAIN q : Tail(q)[n] = q[m]
    <2>1. n + 1 \in DOMAIN q
      BY <1>1, <1>2
    <2>2. Tail(q)[n] = q[n + 1]
      BY <1>1, <1>2, HeadTailProperties
    <2> QED BY <2>1, <2>2
  <1> QED BY <1>1, <1>3

\* What the journal is after a block: each of its blocks is one it had or the new one.
Grown(block) == IF Len(Append(journal, block)) > JournalDepth THEN Tail(Append(journal, block))
                ELSE Append(journal, block)

LEMMA JournalGrows ==
  ASSUME EngineInv, NEW block \in Blocks
  PROVE  /\ Grown(block) \in Seq(SUBSET Writes) /\ Len(Grown(block)) >= Len(journal)
         /\ \A n \in DOMAIN Grown(block) :
              Grown(block)[n] = block \/ \E m \in DOMAIN journal : Grown(block)[n] = journal[m]
  <1> DEFINE longer == Append(journal, block)
  <1>1. journal \in Seq(SUBSET Writes) /\ block \in SUBSET Writes
    BY BlockWrites DEF EngineInv, EngineTypes
  <1>2. /\ longer \in Seq(SUBSET Writes) /\ Len(longer) >= Len(journal)
        /\ \A n \in DOMAIN longer : longer[n] = block \/ \E m \in DOMAIN journal : longer[n] = journal[m]
    BY <1>1, Appended
  <1>3. longer # << >> /\ Len(longer) = Len(journal) + 1 /\ Len(journal) \in Nat
    BY <1>1
  <1>4. Grown(block) = longer \/ Grown(block) = Tail(longer)
    BY DEF Grown
  <1> HIDE DEF longer
  <1>5. /\ Tail(longer) \in Seq(SUBSET Writes) /\ Len(Tail(longer)) = Len(longer) - 1
        /\ \A n \in DOMAIN Tail(longer) : \E m \in DOMAIN longer : Tail(longer)[n] = longer[m]
    BY <1>2, <1>3, Tailed
  <1>6. Len(Tail(longer)) >= Len(journal)
    BY <1>3, <1>5
  <1>7. CASE Grown(block) = longer
    BY <1>2, <1>7
  <1>8. CASE Grown(block) = Tail(longer)
    BY <1>2, <1>5, <1>6, <1>8
  <1> QED BY <1>4, <1>7, <1>8

LEMMA IngestBlockKeeps ==
  ASSUME EngineInv, ingest_block
  PROVE  EngineInv'
  <1>1. PICK block \in Blocks, outcome \in {"sound", "failed", "unknown", "recovered"} :
    /\ journal' = Grown(block)
    /\ \/ UNCHANGED <<registry, routing, lifecycles>>
       \/ set_pool_status({KeyOf(w.handler) : w \in block}, "Degraded")
       \/ set_pool_status({KeyOf(w.handler) : w \in block}, "Ready")
    BY Zenon DEF ingest_block, Blocks, Grown
  <1>2. Outdate /\ UNCHANGED <<handlers, index, adapters, generations, reservations>>
    BY DEF ingest_block, families
  <1> DEFINE ks == {KeyOf(w.handler) : w \in block}
  <1>3. ks \subseteq Keys
    BY BlockWrites, PoolKeys
  <1>4. /\ journal' \in Seq(SUBSET Writes)
        /\ \A n \in DOMAIN journal' : journal'[n] = block \/ \E m \in DOMAIN journal : journal'[n] = journal[m]
    BY <1>1, JournalGrows
  <1>5. \A n \in DOMAIN journal' : \A w \in journal'[n] : w.before \subseteq w.slots
    BY <1>4, BlockWrites DEF EngineInv, EngineTypes
  <1>6. Restated(ks)
    BY <1>1 DEF Restated
  <1> HIDE DEF ks
  <1> QED BY <1>2, <1>3, <1>4, <1>5, <1>6, BatchKeeps

\* A reorg cuts the journal after some prefix; the rest is rolled back.
LEMMA JournalShrinks ==
  ASSUME EngineInv, NEW n \in 1..Len(journal)
  PROVE  /\ SubSeq(journal, 1, Len(journal) - n) \in Seq(SUBSET Writes)
         /\ Len(SubSeq(journal, 1, Len(journal) - n)) = Len(journal) - n
         /\ \A m \in 1..(Len(journal) - n) : SubSeq(journal, 1, Len(journal) - n)[m] = journal[m]
         /\ DOMAIN SubSeq(journal, 1, Len(journal) - n) = 1..(Len(journal) - n)
         /\ DOMAIN SubSeq(journal, Len(journal) - n + 1, Len(journal)) = 1..n
         /\ \A m \in 1..n : SubSeq(journal, Len(journal) - n + 1, Len(journal))[m] = journal[Len(journal) - n + m]
  <1>1. journal \in Seq(SUBSET Writes) /\ Len(journal) \in Nat
    BY DEF EngineInv, EngineTypes
  <1> QED BY <1>1

LEMMA IngestReorgKeeps ==
  ASSUME EngineInv, ingest_reorg
  PROVE  EngineInv'
  <1> DEFINE ks == {KeyOf(i) : i \in active}
  <1>1. PICK n \in 1..Len(journal) :
          /\ journal' = SubSeq(journal, 1, Len(journal) - n)
          /\ \/ UNCHANGED <<registry, routing, lifecycles>>
             \/ set_pool_status(ks, "Degraded")
    BY Zenon DEF ingest_reorg
  <1>2. Outdate /\ UNCHANGED <<handlers, index, adapters, generations, reservations>>
    BY DEF ingest_reorg, families
  <1>3. ks \subseteq Keys
    BY PoolKeys, KeysOfInstances
  <1>4. journal' \in Seq(SUBSET Writes)
    BY <1>1, JournalShrinks
  <1>5. \A m \in DOMAIN journal' : \A w \in journal'[m] : w.before \subseteq w.slots
    <2>1. \A m \in DOMAIN journal' : m \in DOMAIN journal /\ journal'[m] = journal[m]
      BY <1>1, JournalShrinks DEF EngineInv, EngineTypes
    <2> QED BY <2>1 DEF EngineInv, EngineTypes
  <1>6. Restated(ks)
    BY <1>1 DEF Restated
  <1> HIDE DEF ks
  <1> QED BY <1>2, <1>3, <1>4, <1>5, <1>6, BatchKeeps

-----------------------------------------------------------------------------
(* Eviction.                                                                *)

\* What is purged is a slot no remaining pool covers.
LEMMA PurgeSpares ==
  ASSUME ReverseMaps, NEW owned, NEW gone, NEW s \in evict_exclusive_state(owned, gone)
  PROVE  /\ s \in Slots
         /\ \A o \in pools : o.instance \notin gone => s \notin Covered(o.deps)
  <1>1. /\ s \in Slots
        /\ \/ pools_for_address(AddressOf[s], gone) = {}
           \/ pools_for_slot(s, gone) = {}
    BY DEF evict_exclusive_state
  <1>2. ASSUME NEW o \in pools, o.instance \notin gone, s \in Covered(o.deps) PROVE FALSE
    <2>1. s \in o.deps.slots \/ AddressOf[s] \in o.deps.whole
      BY <1>2 DEF Covered
    <2>2. AddressOf[s] \in associated_addresses(o.deps)
      BY <2>1 DEF associated_addresses
    <2>3. <<AddressOf[s], o.instance>> \in address_pools
      BY <2>2, EntryMember DEF ReverseMaps
    <2>4. o.instance \in pools_for_address(AddressOf[s], gone)
      <3>1. <<AddressOf[s], o.instance>>[2] = o.instance /\ <<AddressOf[s], o.instance>>[1] = AddressOf[s]
        OBVIOUS
      <3> QED BY <1>2, <2>3, <3>1 DEF pools_for_address, owners
    <2>5. o.instance \in pools_for_slot(s, gone)
      <3>1. CASE s \in o.deps.slots
        <4>1. <<s, o.instance>> \in slot_pools
          BY <3>1, EntryMember DEF ReverseMaps
        <4>2. <<s, o.instance>>[2] = o.instance /\ <<s, o.instance>>[1] = s
          OBVIOUS
        <4> QED BY <1>2, <4>1, <4>2 DEF pools_for_slot, owners
      <3>2. CASE AddressOf[s] \in o.deps.whole
        <4>1. <<AddressOf[s], o.instance>> \in whole_account_pools
          BY <3>2, EntryMember DEF ReverseMaps
        <4>2. <<AddressOf[s], o.instance>>[2] = o.instance /\ <<AddressOf[s], o.instance>>[1] = AddressOf[s]
          OBVIOUS
        <4> QED BY <1>2, <4>1, <4>2 DEF pools_for_slot, owners
      <3> QED BY <2>1, <3>1, <3>2
    <2> QED BY <1>1, <2>4, <2>5
  <1> QED BY <1>1, <1>2

\* A slot a fence lists and no pool covers is purged.
LEMMA PurgeReaches ==
  ASSUME ReverseMaps, NEW owned, NEW f \in owned, NEW s \in Slots, s \in f.deps.slots,
         \A o \in pools : s \notin Covered(o.deps)
  PROVE  s \in evict_exclusive_state(owned, {})
  <1>1. owners(slot_pools, s, {}) = {}
    <2> SUFFICES ASSUME NEW e \in slot_pools, e[1] = s PROVE FALSE
      BY DEF owners
    <2>1. PICK o \in pools : e \in o.deps.slots \X {o.instance}
      BY EntryMember DEF ReverseMaps
    <2>2. s \in o.deps.slots
      BY <2>1
    <2> QED BY <2>2 DEF Covered
  <1>2. owners(whole_account_pools, AddressOf[s], {}) = {}
    <2> SUFFICES ASSUME NEW e \in whole_account_pools, e[1] = AddressOf[s] PROVE FALSE
      BY DEF owners
    <2>1. PICK o \in pools : e \in o.deps.whole \X {o.instance}
      BY EntryMember DEF ReverseMaps
    <2>2. AddressOf[s] \in o.deps.whole
      BY <2>1
    <2> QED BY <2>2 DEF Covered
  <1>3. AddressOf[s] \in associated_addresses(f.deps)
    BY DEF associated_addresses
  <1> QED BY <1>1, <1>2, <1>3 DEF evict_exclusive_state, pools_for_slot

\* What a policy does to a batch that is being detached.
LEMMA PolicyKeepsFenced ==
  ASSUME EngineInv, Fenced, NEW owned, owned \subseteq pools, detach(owned),
         NEW policy, apply_policy(owned, policy)
  PROVE  Fenced' /\ \A s \in cache \ cache' : \A o \in pools' : s \notin Covered(o.deps)
  <1> DEFINE gone == InstancesOf(owned)
             purged == evict_exclusive_state(owned, gone)
             listed == purged \intersect UNION {o.deps.slots : o \in owned}
             fenced(s) == {o.instance : o \in {x \in owned \union eviction_fences : s \in x.deps.slots}}
  <1>1. pools' = pools \ owned /\ journal' = journal
    BY DetachFacts
  <1>2. \A o \in pools' : o \in pools /\ o.instance \notin gone
    BY <1>1, OneRecord DEF EngineInv, InstancesOf
  <1>3. \A s \in purged : s \in Slots /\ \A o \in pools' : s \notin Covered(o.deps)
    <2> HIDE DEF gone
    <2> QED BY <1>2, PurgeSpares DEF EngineInv
  <1>4. CASE policy = "Retain"
    <2>1. UNCHANGED <<cache, eviction_fences, evicted>>
      BY <1>4 DEF apply_policy
    <2> QED BY <1>1, <1>2, <2>1 DEF Fenced, Covered
  <1>5. CASE policy = "Exclusive"
    <2>1. /\ cache' = cache \ purged
          /\ eviction_fences' = eviction_fences \union Journaled(owned, journal)
      BY <1>5 DEF apply_policy, record_eviction_fences, InstancesOf
    <2>2. evicted' = evicted \union {<<s, Writers(s) \subseteq fenced(s)>> : s \in listed}
      BY <1>5 DEF apply_policy, InstancesOf
    <2>3. ASSUME NEW s \in listed, Writers(s) \subseteq fenced(s),
                 NEW n \in DOMAIN journal, NEW w \in journal[n], s \in w.slots
          PROVE  \E f \in eviction_fences' : f.instance = w.handler /\ s \in f.deps.slots
      <3>1. w \in UNION Range(journal)
        BY <2>3 DEF Range
      <3>2. w.handler \in Writers(s)
        BY <2>3, <3>1 DEF Writers
      <3>3. PICK x \in owned \union eviction_fences : x.instance = w.handler /\ s \in x.deps.slots
        BY <2>3, <3>2
      <3>4. x \in eviction_fences'
        <4>1. CASE x \in eviction_fences
          BY <2>1, <4>1
        <4>2. CASE x \in owned
          BY <2>1, <3>1, <3>3, <4>2 DEF Journaled, journaled_handler_ids
        <4> QED BY <4>1, <4>2
      <3> QED BY <3>3, <3>4
    <2> HIDE DEF gone, purged
    <2>4. ASSUME NEW e \in evicted', e[2] = TRUE
          PROVE  /\ e[1] \in Slots /\ e[1] \notin cache'
                 /\ \A o \in pools' : e[1] \notin Covered(o.deps)
                 /\ \A n \in DOMAIN journal : \A w \in journal[n] :
                      e[1] \in w.slots => \E f \in eviction_fences' : f.instance = w.handler /\ e[1] \in f.deps.slots
      <3>1. CASE e \in evicted
        BY <1>2, <2>1, <2>4, <3>1 DEF Fenced
      <3>2. CASE e \in {<<s, Writers(s) \subseteq fenced(s)>> : s \in listed}
        <4>1. PICK s \in listed : e = <<s, Writers(s) \subseteq fenced(s)>>
          BY <3>2
        <4>2. e[1] = s /\ e[2] = (Writers(s) \subseteq fenced(s))
          BY <4>1, Zenon
        <4>3. Writers(s) \subseteq fenced(s)
          BY <2>4, <4>2, Zenon
        <4>4. s \in purged
          OBVIOUS
        <4>5. \A n \in DOMAIN journal : \A w \in journal[n] :
                s \in w.slots => \E f \in eviction_fences' : f.instance = w.handler /\ s \in f.deps.slots
          BY <2>3, <4>3, Zenon
        <4> QED BY <1>3, <2>1, <4>2, <4>4, <4>5
      <3> QED BY <2>2, <2>4, <3>1, <3>2
    <2>5. Fenced'
      BY <1>1, <2>4 DEF Fenced, Covered
    <2>6. \A s \in cache \ cache' : \A o \in pools' : s \notin Covered(o.deps)
      BY <1>3, <2>1
    <2> QED BY <2>5, <2>6
  <1> QED BY <1>4, <1>5 DEF apply_policy

LEMMA EnterKeepsFenced ==
  ASSUME EngineInv, Fenced, NEW owned, NEW status, commit_prepared_pool_additions(owned, status)
  PROVE  Fenced' /\ cache \subseteq cache'
  <1> DEFINE ks == KeysOf(owned)
             readopted == {f \in eviction_fences : KeyOf(f.instance) \in ks}
             adopted == UNION {Covered(o.deps) : o \in owned \union readopted}
  <1>0. /\ journal' = journal /\ eviction_fences' = eviction_fences \ readopted
        /\ cache' = cache \union UNION {Covered(o.deps) : o \in owned}
        /\ evicted' = {e \in evicted : e[1] \notin adopted}
    BY Zenon DEF commit_prepared_pool_additions, Adopt
  <1>1. /\ pools' = pools \union owned /\ journal' = journal
        /\ eviction_fences' = eviction_fences \ readopted
        /\ cache' = cache \union UNION {Covered(o.deps) : o \in owned}
        /\ evicted' = {e \in evicted : e[1] \notin adopted}
    BY <1>0, EnterFacts
  <1>2. \A e \in evicted' : \A o \in owned \union readopted : e[1] \notin Covered(o.deps)
    BY <1>1
  <1>3. \A f \in readopted : f.deps.slots \subseteq Covered(f.deps)
    BY DEF Covered
  <1> HIDE DEF readopted, adopted
  <1>4. ASSUME NEW e \in evicted', e[2] = TRUE
        PROVE  /\ e[1] \in Slots /\ e[1] \notin cache'
               /\ \A o \in pools' : e[1] \notin Covered(o.deps)
               /\ \A n \in DOMAIN journal : \A w \in journal[n] :
                    e[1] \in w.slots => \E f \in eviction_fences' : f.instance = w.handler /\ e[1] \in f.deps.slots
    <2>1. e \in evicted
      BY <1>1
    <2>2. e[1] \in Slots /\ e[1] \notin cache' /\ \A o \in pools' : e[1] \notin Covered(o.deps)
      BY <1>1, <1>2, <1>4, <2>1 DEF Fenced
    <2>3. ASSUME NEW n \in DOMAIN journal, NEW w \in journal[n], e[1] \in w.slots
          PROVE  \E f \in eviction_fences' : f.instance = w.handler /\ e[1] \in f.deps.slots
      <3>1. PICK f \in eviction_fences : f.instance = w.handler /\ e[1] \in f.deps.slots
        BY <1>4, <2>1, <2>3 DEF Fenced
      <3>2. f \notin readopted
        BY <1>2, <1>3, <3>1
      <3> QED BY <1>1, <3>1, <3>2
    <2> QED BY <2>2, <2>3
  <1>5. journal' = journal /\ cache \subseteq cache'
    BY <1>1
  <1>6. Fenced'
    BY <1>4, <1>5 DEF Fenced, Covered
  <1> QED BY <1>5, <1>6

LEMMA RefreshKeepsFenced ==
  ASSUME EngineInv, Fenced, commit_pool_refresh
  PROVE  Fenced' /\ cache \subseteq cache'
  <1>1. \/ UNCHANGED <<index, cache, evicted>>
        \/ \E token \in prepared : /\ Replaces(token.previous, Renewed(token))
                                   /\ cache' = cache \union Covered(token.deps)
                                   /\ evicted' = Adopt(Covered(token.deps))
    BY RefreshCases, Zenon DEF Replaced, Restored
  <1>2. UNCHANGED <<eviction_fences, journal>>
    BY DEF commit_pool_refresh
  <1>3. CASE UNCHANGED <<index, cache, evicted>>
    BY <1>2, <1>3 DEF Fenced, index, Covered
  <1>4. ASSUME NEW token \in prepared, Replaces(token.previous, Renewed(token)),
               cache' = cache \union Covered(token.deps), evicted' = Adopt(Covered(token.deps))
        PROVE  Fenced' /\ cache \subseteq cache'
    <2> DEFINE new == Renewed(token)
    <2>1. new.deps = token.deps
      BY DEF Renewed, PoolOwnership
    <2>2. pools' = (pools \ {token.previous}) \union {new}
      BY <1>4 DEF Replaces
    <2> HIDE DEF new
    <2>3. \A e \in evicted' : e \in evicted /\ e[1] \notin Covered(token.deps)
      BY <1>4 DEF Adopt
    <2>4. ASSUME NEW e \in evicted', e[2] = TRUE
          PROVE  /\ e[1] \in Slots /\ e[1] \notin cache'
                 /\ \A o \in pools' : e[1] \notin Covered(o.deps)
                 /\ \A n \in DOMAIN journal : \A w \in journal[n] :
                      e[1] \in w.slots => \E f \in eviction_fences : f.instance = w.handler /\ e[1] \in f.deps.slots
      BY <1>4, <2>1, <2>2, <2>3, <2>4 DEF Fenced
    <2>5. cache \subseteq cache'
      BY <1>4
    <2>6. Fenced'
      BY <1>2, <2>4 DEF Fenced, Covered
    <2> QED BY <2>5, <2>6
  <1> QED BY <1>1, <1>3, <1>4

LEMMA ReplaceRegistryKeepsFenced ==
  ASSUME EngineInv, Fenced, replace_registry
  PROVE  Fenced' /\ cache \subseteq cache'
  <1>0. PICK d, status : install_members(d, status)
    BY ReplaceRegistryFacts, Zenon
  <1>1. \E adopted : /\ adopted = UNION {Covered(o.deps) : o \in pools'}
                     /\ cache' = cache \union adopted /\ evicted' = Adopt(adopted)
    BY <1>0, Zenon DEF install_members
  <1>2. journal' = <<>> /\ DOMAIN journal' = {}
    BY ReplaceRegistryFacts
  <1>3. \A e \in evicted' : /\ e \in evicted /\ \A o \in pools' : e[1] \notin Covered(o.deps)
                            /\ e[1] \in cache' => e[1] \in cache
    BY <1>1 DEF Adopt
  <1> QED BY <1>1, <1>2, <1>3 DEF Fenced, Covered

LEMMA IngestBlockKeepsFenced ==
  ASSUME EngineInv, Fenced, ingest_block
  PROVE  Fenced' /\ cache \subseteq cache'
  <1>1. PICK block \in Blocks :
    /\ journal' = Grown(block) /\ cache' = cache \union UNION {w.slots : w \in block}
    /\ eviction_fences' = Journaled(eviction_fences, Grown(block))
    BY DEF ingest_block, Blocks, Grown, retire_eviction_fences
  <1>2. UNCHANGED <<index, evicted>> /\ pools' = pools
    BY DEF ingest_block, index
  <1>3. ASSUME NEW e \in evicted, e[2] = TRUE
        PROVE  /\ e[1] \in Slots /\ e[1] \notin cache'
               /\ \A o \in pools : e[1] \notin Covered(o.deps)
               /\ \A n \in DOMAIN journal' : \A w \in journal'[n] :
                    e[1] \in w.slots => \E f \in eviction_fences' : f.instance = w.handler /\ e[1] \in f.deps.slots
    <2>1. e[1] \in Slots /\ e[1] \notin cache /\ \A o \in pools : e[1] \notin Covered(o.deps)
      BY <1>3 DEF Fenced
    <2>2. \A w \in block : e[1] \notin w.slots
      BY <2>1, BlockWrites
    <2>3. e[1] \notin cache'
      BY <1>1, <2>1, <2>2
    <2>4. ASSUME NEW n \in DOMAIN journal', NEW w \in journal'[n], e[1] \in w.slots
          PROVE  \E f \in eviction_fences' : f.instance = w.handler /\ e[1] \in f.deps.slots
      <3>1. PICK m \in DOMAIN journal : journal'[n] = journal[m]
        BY <1>1, <2>2, <2>4, JournalGrows
      <3>2. PICK f \in eviction_fences : f.instance = w.handler /\ e[1] \in f.deps.slots
        BY <1>3, <2>4, <3>1 DEF Fenced
      <3>3. w \in UNION Range(Grown(block))
        BY <1>1, <2>4 DEF Range
      <3> QED BY <1>1, <3>2, <3>3 DEF Journaled, journaled_handler_ids
    <2> QED BY <2>1, <2>3, <2>4
  <1> QED BY <1>1, <1>2, <1>3 DEF Fenced, Covered

LEMMA IngestReorgKeepsFenced ==
  ASSUME EngineInv, Fenced, ingest_reorg
  PROVE  /\ Fenced'
         /\ \A s \in cache \ cache' :
              \/ \A o \in pools' : s \notin Covered(o.deps)
              \/ Len(journal') < Len(journal)
                 /\ \E n \in Len(journal') + 1..Len(journal) : s \in Written(journal[n])
  <1>1. PICK n \in 1..Len(journal) :
    LET dropped == SubSeq(journal, Len(journal) - n + 1, Len(journal))
        j == SubSeq(journal, 1, Len(journal) - n)
    IN /\ journal' = j
       /\ cache' = Rollback(cache, dropped) \ evict_exclusive_state(eviction_fences, {})
       /\ eviction_fences' = Journaled(eviction_fences, j)
    BY Zenon DEF ingest_reorg, retire_eviction_fences
  <1>2. pools' = pools /\ evicted' = evicted
    BY DEF ingest_reorg, index
  <1>3. Len(journal) \in Nat /\ DOMAIN journal = 1..Len(journal)
    BY DEF EngineInv, EngineTypes
  <1> DEFINE dropped == SubSeq(journal, Len(journal) - n + 1, Len(journal))
             j == SubSeq(journal, 1, Len(journal) - n)
  <1>4. /\ DOMAIN dropped = 1..n /\ \A m \in 1..n : dropped[m] = journal[Len(journal) - n + m]
        /\ DOMAIN j = 1..(Len(journal) - n) /\ \A m \in DOMAIN j : j[m] = journal[m]
        /\ Len(j) = Len(journal) - n
    BY JournalShrinks
  <1>5. /\ journal' = j
        /\ cache' = Rollback(cache, dropped) \ evict_exclusive_state(eviction_fences, {})
        /\ eviction_fences' = Journaled(eviction_fences, j)
    BY <1>1
  <1> HIDE DEF dropped, j
  <1>6. \A m \in DOMAIN dropped : \E q \in DOMAIN journal : dropped[m] = journal[q] /\ q = Len(journal) - n + m
    BY <1>3, <1>4
  <1>7. \A m \in DOMAIN j : m \in DOMAIN journal
    BY <1>3, <1>4
  <1>8. ASSUME NEW e \in evicted, e[2] = TRUE
        PROVE  /\ e[1] \in Slots /\ e[1] \notin cache'
               /\ \A o \in pools : e[1] \notin Covered(o.deps)
               /\ \A m \in DOMAIN journal' : \A w \in journal'[m] :
                    e[1] \in w.slots => \E f \in eviction_fences' : f.instance = w.handler /\ e[1] \in f.deps.slots
    <2>1. e[1] \in Slots /\ e[1] \notin cache /\ \A o \in pools : e[1] \notin Covered(o.deps)
      BY <1>8 DEF Fenced
    <2>2. ASSUME e[1] \in Rollback(cache, dropped) PROVE e[1] \in evict_exclusive_state(eviction_fences, {})
      <3>1. PICK m \in DOMAIN dropped : e[1] \in Before(dropped[m])
        BY <2>1, <2>2 DEF Rollback
      <3>2. PICK q \in DOMAIN journal : dropped[m] = journal[q]
        BY <1>6
      <3>3. PICK w \in journal[q] : e[1] \in w.before
        BY <3>1, <3>2 DEF Before
      <3>4. e[1] \in w.slots
        BY <3>3 DEF EngineInv, EngineTypes
      <3>5. PICK f \in eviction_fences : e[1] \in f.deps.slots
        BY <1>8, <3>4 DEF Fenced
      <3> QED BY <2>1, <3>5, PurgeReaches DEF EngineInv
    <2>3. ASSUME NEW m \in DOMAIN journal', NEW w \in journal'[m], e[1] \in w.slots
          PROVE  \E f \in eviction_fences' : f.instance = w.handler /\ e[1] \in f.deps.slots
      <3>1. m \in DOMAIN journal /\ w \in journal[m]
        BY <1>4, <1>5, <1>7, <2>3
      <3>2. PICK f \in eviction_fences : f.instance = w.handler /\ e[1] \in f.deps.slots
        BY <1>8, <2>3, <3>1 DEF Fenced
      <3>3. w \in UNION Range(j)
        BY <1>5, <2>3 DEF Range
      <3> QED BY <1>5, <3>2, <3>3 DEF Journaled, journaled_handler_ids
    <2> QED BY <1>5, <2>1, <2>2, <2>3
  <1>9. ASSUME NEW s \in cache \ cache'
        PROVE  \/ \A o \in pools' : s \notin Covered(o.deps)
               \/ Len(journal') < Len(journal)
                  /\ \E m \in Len(journal') + 1..Len(journal) : s \in Written(journal[m])
    <2>1. CASE s \in evict_exclusive_state(eviction_fences, {})
      <3>1. \A o \in pools : s \notin Covered(o.deps)
        BY <2>1, PurgeSpares DEF EngineInv
      <3> QED BY <1>2, <3>1
    <2>2. CASE s \notin Rollback(cache, dropped)
      <3>1. PICK m \in DOMAIN dropped : s \in Written(dropped[m])
        BY <2>2 DEF Rollback
      <3>2. dropped[m] = journal[Len(journal) - n + m] /\ m \in 1..n
        BY <1>4
      <3>3. Len(journal') = Len(journal) - n
        BY <1>4, <1>5
      <3>4. /\ Len(journal) - n + m \in (Len(journal) - n) + 1..Len(journal)
            /\ Len(journal) - n < Len(journal)
        BY <1>3, <3>2
      <3> QED BY <3>1, <3>2, <3>3, <3>4
    <2> QED BY <1>5, <2>1, <2>2
  <1> QED BY <1>2, <1>8, <1>9 DEF Fenced, Covered

-----------------------------------------------------------------------------
(* The degraded counter.                                                    *)

DegradedKeys(reg) == {k \in Keys : IsDegraded(reg[k])}

\* Counting what is left, and what is added.
LEMMA Counting ==
  ASSUME NEW D, NEW X, IsFiniteSet(D), X \subseteq D
  PROVE  /\ IsFiniteSet(X) /\ Cardinality(X) \in Nat /\ Cardinality(D) \in Nat
         /\ IsFiniteSet(D \ X) /\ Cardinality(D \ X) = Cardinality(D) - Cardinality(X)
  <1>1. IsFiniteSet(X) /\ D \intersect X = X
    BY FS_Subset
  <1> QED BY <1>1, FS_Difference, FS_CardinalityType

LEMMA CountingUnion ==
  ASSUME NEW D, NEW X, IsFiniteSet(D), IsFiniteSet(X), D \intersect X = {}
  PROVE  Cardinality(D \union X) = Cardinality(D) + Cardinality(X)
  <1>1. Cardinality(D) \in Nat /\ Cardinality(X) \in Nat
    BY FS_CardinalityType
  <1>2. Cardinality(D \intersect X) = 0
    BY FS_EmptySet
  <1>3. Cardinality(D \union X) = Cardinality(D) + Cardinality(X) - Cardinality(D \intersect X)
    BY FS_Union
  <1> QED BY <1>1, <1>2, <1>3

\* The keys a status change leaves degraded.
LEMMA RestateCounts ==
  ASSUME EngineInv, Counted, NEW ks, ks \subseteq Keys, NEW s \in {"Ready", "Degraded"},
         set_pool_status(ks, s)
  PROVE  Counted'
  <1> DEFINE there == {k \in ks : registry[k] # NoPool}
             left == {k \in there : IsDegraded(registry[k])}
  <1>1. degraded_pool_count' = degraded_pool_count - Cardinality(left)
                                 + (IF s = "Degraded" THEN Cardinality(there) ELSE 0)
    BY DEF set_pool_status, DegradedIn
  <1>2. registry' = [k \in Keys |-> IF k \in there THEN Registration(registry[k].deps, s) ELSE registry[k]]
    BY DEF set_pool_status
  <1>3. there \subseteq Keys /\ left \subseteq there
    OBVIOUS
  <1> DEFINE D == DegradedKeys(registry)
  <1>4. /\ degraded_pool_count = Cardinality(D) /\ IsFiniteSet(D)
        /\ left = D \intersect there /\ left \subseteq D /\ IsFiniteSet(there) /\ IsFiniteSet(left)
    <2>1. left = D \intersect there
      BY DEF DegradedKeys
    <2> QED BY <2>1, <1>3, EngineAssumption, FS_Subset DEF Counted, DegradedIn, DegradedKeys
  <1> HIDE DEF there, left, D
  <1>5. /\ IsFiniteSet(D \ left) /\ Cardinality(D \ left) = Cardinality(D) - Cardinality(left)
        /\ Cardinality(D) \in Nat /\ Cardinality(left) \in Nat
    BY <1>4, Counting
  <1>6. CASE s = "Ready"
    <2>1. DegradedKeys(registry') = D \ left
      <3>1. \A k \in Keys : IsDegraded(registry'[k]) <=> k \notin there /\ IsDegraded(registry[k])
        BY <1>2, <1>6 DEF IsDegraded, Registration
      <3> QED BY <1>4, <3>1 DEF DegradedKeys, D
    <2>2. degraded_pool_count' = Cardinality(D \ left)
      BY <1>1, <1>4, <1>5, <1>6
    <2> QED BY <2>1, <2>2 DEF Counted, DegradedIn, DegradedKeys, IsDegraded
  <1>7. CASE s = "Degraded"
    <2>1. DegradedKeys(registry') = (D \ left) \union there
      <3>1. \A k \in Keys : IsDegraded(registry'[k]) <=> k \in there \/ IsDegraded(registry[k])
        BY <1>2, <1>7 DEF IsDegraded, Registration
      <3> QED BY <1>3, <1>4, <3>1 DEF DegradedKeys, D
    <2>2. (D \ left) \intersect there = {}
      BY <1>4
    <2>3. Cardinality((D \ left) \union there) = Cardinality(D \ left) + Cardinality(there)
      BY <1>4, <1>5, <2>2, CountingUnion
    <2>4. degraded_pool_count' = Cardinality((D \ left) \union there)
      <3>1. Cardinality(there) \in Nat
        BY <1>4, FS_CardinalityType
      <3> QED BY <1>1, <1>4, <1>5, <1>7, <2>3, <3>1
    <2> QED BY <2>1, <2>4 DEF Counted, DegradedIn, DegradedKeys, IsDegraded
  <1> QED BY <1>6, <1>7

\* Taking keys out of the registry takes the degraded ones out of the count.
LEMMA DetachCounts ==
  ASSUME EngineInv, Counted, NEW owned, owned \subseteq pools, detach(owned)
  PROVE  Counted'
  <1> DEFINE ks == KeysOf(owned)
             D == DegradedKeys(registry)
             left == {k \in ks : IsDegraded(registry[k])}
  <1>1. /\ degraded_pool_count' = degraded_pool_count - Cardinality(left)
        /\ registry' = [k \in Keys |-> IF k \in ks THEN NoPool ELSE registry[k]]
    BY DetachFacts DEF DegradedIn
  <1>2. ks \subseteq Keys
    BY PoolKeys DEF KeysOf
  <1>3. left \subseteq D /\ IsFiniteSet(D) /\ degraded_pool_count = Cardinality(D)
    BY <1>2, EngineAssumption, FS_Subset DEF Counted, DegradedIn, DegradedKeys
  <1>4. DegradedKeys(registry') = D \ left
    <2> HIDE DEF ks
    <2>1. \A k \in Keys : IsDegraded(registry'[k]) <=> k \notin ks /\ IsDegraded(registry[k])
      BY <1>1, EmptyIsRegistered DEF IsDegraded
    <2> QED BY <2>1 DEF DegradedKeys
  <1> HIDE DEF ks, D, left
  <1>5. Cardinality(D \ left) = Cardinality(D) - Cardinality(left)
    BY <1>3, Counting
  <1> QED BY <1>1, <1>3, <1>4, <1>5 DEF Counted, DegradedIn, DegradedKeys, IsDegraded

LEMMA EnterCounts ==
  ASSUME EngineInv, Counted, NEW owned, NEW status, Enterable(owned, status),
         commit_prepared_pool_additions(owned, status)
  PROVE  Counted'
  <1> DEFINE ks == KeysOf(owned)
             of(k) == CHOOSE o \in owned : KeyOf(o.instance) = k
             D == DegradedKeys(registry)
             X == {k \in ks : status[k] = "Degraded"}
  <1>1. registry' = [k \in Keys |-> IF k \in ks THEN Registration(of(k).deps, status[k]) ELSE registry[k]]
    BY EnterFacts, Zenon DEF register_pool
  <1>2. degraded_pool_count' = degraded_pool_count + Cardinality(X)
    BY Zenon DEF commit_prepared_pool_additions
  <1>3. \A k \in ks : k \in Keys /\ registry[k] = NoPool /\ status[k] \in PoolStatuses
    BY KeysOfInstances DEF Enterable, KeysOf, Record
  <1> HIDE DEF ks, of
  <1>4. \A k \in Keys : IsDegraded(registry'[k]) <=> IsDegraded(registry[k]) \/ k \in X
    BY <1>1, <1>3, NoPoolIsRegistered DEF IsDegraded
  <1>5. /\ DegradedKeys(registry') = D \union X /\ D \intersect X = {}
    BY <1>3, <1>4, NoPoolIsRegistered DEF DegradedKeys, IsDegraded, PoolStatuses
  <1>6. X \subseteq Keys /\ D \subseteq Keys /\ degraded_pool_count = Cardinality(D)
    BY <1>3 DEF DegradedKeys, Counted, DegradedIn
  <1> HIDE DEF D, X
  <1>7. IsFiniteSet(X) /\ IsFiniteSet(D)
    BY <1>6, EngineAssumption, FS_Subset
  <1>8. Cardinality(D \union X) = Cardinality(D) + Cardinality(X)
    BY <1>5, <1>7, CountingUnion
  <1> QED BY <1>2, <1>5, <1>6, <1>8 DEF Counted, DegradedIn, DegradedKeys, IsDegraded

\* A refresh whose points agree finds the registration its token recorded, so
\* undoing it leaves both views as they were.
LEMMA TokensAreCurrent ==
  ASSUME EngineInv, PointChecked = TRUE, NEW t \in prepared, Passed(t)
  PROVE  t.registration = registry[KeyOf(t.previous.instance)]
  <1>1. t.current = TRUE
    BY DEF Passed, EngineInv, Tokens
  <1> QED BY <1>1 DEF Passed, EngineInv, Tokens

LEMMA RestoredIsSame ==
  ASSUME EngineInv, PointChecked = TRUE, NEW t \in prepared, Passed(t), Restored(t)
  PROVE  registry' = registry /\ (Views => routing' = routing)
  <1> DEFINE q == KeyOf(t.previous.instance)
  <1>1. PICK done \in {<<{}, {}>>, <<{q}, {}>>, <<{q}, {q}>>} :
          /\ registry' = update_pool(update_pool(registry, done[1], Registration(t.deps, "Ready")), done[1], t.registration)
          /\ routing' = update_pool(update_pool(routing, done[2], Registration(t.deps, "Ready")), done[2], t.registration)
    BY Zenon DEF Restored
  <1>2. /\ registry' = [k \in Keys |-> IF k \in done[1] THEN t.registration ELSE registry[k]]
        /\ routing' = [k \in Keys |-> IF k \in done[2] THEN t.registration ELSE routing[k]]
    BY <1>1, UpdatedTwice
  <1>3. done[1] \subseteq {q} /\ done[2] \subseteq {q}
    OBVIOUS
  <1>4. t.registration = registry[q] /\ registry = [k \in Keys |-> registry[k]]
    BY TokensAreCurrent DEF EngineInv, EngineTypes
  <1> HIDE DEF q
  <1>5. registry' = registry
    BY <1>2, <1>3, <1>4
  <1>6. Views => routing' = routing
    BY <1>2, <1>3, <1>4 DEF Views
  <1> QED BY <1>5, <1>6

\* The refresh uncounts by the status its token recorded; the registry has the
\* same one because the caller compares points first.
LEMMA RefreshCounts ==
  ASSUME EngineInv, Counted, PointChecked = TRUE, commit_pool_refresh
  PROVE  Counted'
  <1>1. \/ UNCHANGED <<registry, degraded_pool_count>>
        \/ \E t \in prepared : Passed(t) /\ Replaced(t)
    BY RefreshCases, RestoredIsSame DEF Restored
  <1>2. CASE UNCHANGED <<registry, degraded_pool_count>>
    BY <1>2 DEF Counted, DegradedIn, IsDegraded
  <1>3. ASSUME NEW token \in prepared, Passed(token), Replaced(token)
        PROVE  Counted'
    <2> DEFINE k == KeyOf(token.previous.instance)
               D == DegradedKeys(registry)
               left == {j \in {k} : IsDegraded(registry[j])}
    <2>1. k \in Keys
      BY <1>3, PoolKeys DEF Passed
    <2>2. token.registration = registry[k]
      BY <1>3, TokensAreCurrent
    <2>3. left \subseteq D /\ IsFiniteSet(D) /\ degraded_pool_count = Cardinality(D)
      BY <2>1, EngineAssumption, FS_Subset DEF Counted, DegradedIn, DegradedKeys
    <2>4. Cardinality(left) = UncountedBy(token)
      <3>1. CASE IsDegraded(registry[k])
        <4>1. left = {k}
          BY <3>1
        <4> QED BY <2>2, <3>1, <4>1, FS_Singleton DEF UncountedBy
      <3>2. CASE ~IsDegraded(registry[k])
        <4>1. left = {}
          BY <3>2
        <4> QED BY <2>2, <3>2, <4>1, FS_EmptySet DEF UncountedBy
      <3> QED BY <3>1, <3>2
    <2>7. /\ registry' = [j \in Keys |-> IF j \in {k} THEN Registration(token.deps, "Ready") ELSE registry[j]]
          /\ degraded_pool_count' = degraded_pool_count - UncountedBy(token)
      BY <1>3, Zenon DEF Replaced, update_pool
    <2>5. DegradedKeys(registry') = D \ left
      <3>1. \A j \in Keys : IsDegraded(registry'[j]) <=> j # k /\ IsDegraded(registry[j])
        BY <2>1, <2>7, NoPoolIsRegistered DEF IsDegraded, PoolStatuses
      <3> QED BY <3>1 DEF DegradedKeys
    <2> HIDE DEF k, D, left
    <2>6. Cardinality(D \ left) = Cardinality(D) - Cardinality(left)
      BY <2>3, Counting
    <2> QED BY <2>3, <2>4, <2>5, <2>6, <2>7 DEF Counted, DegradedIn, DegradedKeys, IsDegraded
  <1> QED BY <1>1, <1>2, <1>3

-----------------------------------------------------------------------------
(* The invariants.                                                          *)

\* The fields the eviction argument speaks of, untouched.
LEMMA QuietKeepsFenced ==
  ASSUME Fenced, UNCHANGED <<pools, cache, eviction_fences, journal, evicted>>
  PROVE  Fenced'
  BY DEF Fenced, Covered

\* One step: the structures, and the fences.
LEMMA EngineStep ==
  ASSUME EngineInv, [Next]_vars
  PROVE  EngineInv'
  <1>1. CASE UNCHANGED vars
    <2>1. UNCHANGED <<registry, routing, handlers, index, generations, journal, adapters, reservations, lifecycles, prepared>>
      BY <1>1 DEF vars, index
    <2>2. Tokens'
      BY <2>1, SameTokens
    <2>3. lifecycles' \in [Instances -> Phases] /\ \A j \in reservations' : lifecycles'[j] = "Queued"
      BY <2>1, ReservedIsInactive DEF EngineInv, EngineTypes
    <2>4. \A j \in Instances : lifecycles'[j] \in Serving <=> j \in active
      BY <2>1 DEF EngineInv, Agreement
    <2> QED BY <2>1, <2>2, <2>3, <2>4, SameTopology
  <1>2. CASE add_pools \/ commit_pool_reservation
    BY <1>2, AddPoolsKeeps, CommitReservationKeeps, AbandonedKeeps
  <1> QED BY <1>1, <1>2, ReserveKeeps, CancelKeeps, AcknowledgeKeeps,
             PrepareKeeps, RefreshKeeps, RemovalKeeps, AddAdapterKeeps, ReplaceRegistryKeeps, IngestBlockKeeps, IngestReorgKeeps, Zenon DEF Next

\* A step that neither removes nor rolls back leaves every cached slot alone.
Spared == \A s \in cache \ cache' :
            \/ \A o \in pools' : s \notin Covered(o.deps)
            \/ Len(journal') < Len(journal)
               /\ \E n \in Len(journal') + 1..Len(journal) : s \in Written(journal[n])

LEMMA FencedStep ==
  ASSUME EngineInv, Fenced, [Next]_vars
  PROVE  Fenced' /\ Spared
  <1>0. cache \subseteq cache' => Spared
    BY DEF Spared
  <1>1. ASSUME UNCHANGED <<pools, cache, eviction_fences, journal, evicted>> PROVE Fenced' /\ Spared
    BY <1>0, <1>1, QuietKeepsFenced
  <1>2. CASE UNCHANGED vars
    BY <1>1, <1>2 DEF vars
  <1>16. Abandoned => Fenced' /\ Spared
    BY <1>1 DEF Abandoned, Undone, index
  <1>3. CASE add_pools
    BY <1>0, <1>3, <1>16, AddPoolsKeeps, EnterKeepsFenced
  <1>4. CASE commit_pool_reservation
    BY <1>0, <1>4, <1>16, CommitReservationKeeps, EnterKeepsFenced
  <1>5. CASE reserve_pool_generation
    BY <1>1, <1>5 DEF reserve_pool_generation, index
  <1>6. CASE cancel_pool_reservation
    BY <1>1, <1>6 DEF cancel_pool_reservation, index
  <1>7. CASE acknowledge_live_delivery
    BY <1>1, <1>7 DEF acknowledge_live_delivery, index
  <1>8. CASE prepare_pool_refresh
    BY <1>1, <1>8 DEF prepare_pool_refresh, index
  <1>9. CASE add_adapter
    BY <1>1, <1>9 DEF add_adapter, index
  <1>10. CASE commit_pool_refresh
    BY <1>0, <1>10, RefreshKeepsFenced
  <1>11. CASE replace_registry
    BY <1>0, <1>11, ReplaceRegistryKeepsFenced
  <1>12. CASE ingest_block
    BY <1>0, <1>12, IngestBlockKeepsFenced
  <1>13. CASE ingest_reorg
    BY <1>13, IngestReorgKeepsFenced DEF Spared
  <1>14. CASE remove_pools \/ remove_adapter_cascade
    BY <1>14, <1>16, RemovalCases, PolicyKeepsFenced DEF Spared
  <1> QED BY <1>2, <1>3, <1>4, <1>5, <1>6, <1>7, <1>8, <1>9, <1>10, <1>11, <1>12, <1>13, <1>14 DEF Next

LEMMA CountedStep ==
  ASSUME EngineInv, Counted, PointChecked = TRUE, [Next]_vars
  PROVE  Counted'
  <1>1. ASSUME UNCHANGED <<registry, degraded_pool_count>> PROVE Counted'
    BY <1>1 DEF Counted, DegradedIn, IsDegraded
  <1>2. CASE UNCHANGED vars
    BY <1>1, <1>2 DEF vars
  <1>13. Abandoned => Counted'
    BY <1>1 DEF Abandoned, Undone
  <1>3. CASE add_pools
    BY <1>3, <1>13, AddPoolsKeeps, EnterCounts
  <1>4. CASE commit_pool_reservation
    BY <1>4, <1>13, CommitReservationKeeps, EnterCounts
  <1>5. CASE reserve_pool_generation \/ cancel_pool_reservation \/ acknowledge_live_delivery
    BY <1>1, <1>5 DEF reserve_pool_generation, cancel_pool_reservation, acknowledge_live_delivery
  <1>6. CASE prepare_pool_refresh \/ add_adapter
    BY <1>1, <1>6 DEF prepare_pool_refresh, add_adapter
  <1>7. CASE commit_pool_refresh
    BY <1>7, RefreshCounts
  <1>8. CASE remove_pools \/ remove_adapter_cascade
    BY <1>8, <1>13, RemovalCases, DetachCounts
  <1>10. CASE replace_registry
    <2>1. \E d, status : /\ registry' = member_registry(d, status)
                         /\ degraded_pool_count' = DegradedIn(member_registry(d, status), Keys)
      BY <1>10, ReplaceRegistryFacts, Zenon DEF install_members
    <2> QED BY <2>1 DEF Counted, DegradedIn, IsDegraded
  <1>11. CASE ingest_block
    <2>1. PICK block \in Blocks :
            \/ UNCHANGED <<registry, degraded_pool_count>>
            \/ set_pool_status({KeyOf(w.handler) : w \in block}, "Degraded")
            \/ set_pool_status({KeyOf(w.handler) : w \in block}, "Ready")
      BY <1>11, Zenon DEF ingest_block, Blocks
    <2>2. {KeyOf(w.handler) : w \in block} \subseteq Keys
      BY BlockWrites, PoolKeys
    <2> QED BY <1>1, <2>1, <2>2, RestateCounts
  <1>12. CASE ingest_reorg
    <2>1. \/ UNCHANGED <<registry, degraded_pool_count>>
          \/ set_pool_status({KeyOf(i) : i \in active}, "Degraded")
      BY <1>12, Zenon DEF ingest_reorg
    <2>2. {KeyOf(i) : i \in active} \subseteq Keys
      BY PoolKeys, KeysOfInstances
    <2> QED BY <1>1, <2>1, <2>2, RestateCounts
  <1> QED BY <1>2, <1>3, <1>4, <1>5, <1>6, <1>7, <1>8, <1>10, <1>11, <1>12 DEF Next

\* The two registry views change together.
LEMMA ViewsStep ==
  ASSUME EngineInv, Views, PointChecked = TRUE, [Next]_vars
  PROVE  Views'
  <1>1. ASSUME UNCHANGED <<registry, routing>> PROVE Views'
    BY <1>1 DEF Views
  <1>2. CASE UNCHANGED vars
    BY <1>1, <1>2 DEF vars
  <1>3. Abandoned => Views'
    BY <1>1 DEF Abandoned, Undone
  <1>4. ASSUME NEW owned, NEW status, commit_prepared_pool_additions(owned, status) PROVE Views'
    <2>1. registry' = register_pool(registry, owned, status) /\ routing' = register_pool(routing, owned, status)
      BY <1>4, EnterFacts
    <2> QED BY <2>1, Zenon DEF Views
  <1>5. CASE add_pools \/ commit_pool_reservation
    BY <1>3, <1>4, <1>5, AddPoolsKeeps, CommitReservationKeeps
  <1>6. CASE reserve_pool_generation \/ cancel_pool_reservation \/ acknowledge_live_delivery
    BY <1>1, <1>6 DEF reserve_pool_generation, cancel_pool_reservation, acknowledge_live_delivery
  <1>7. CASE prepare_pool_refresh \/ add_adapter
    BY <1>1, <1>7 DEF prepare_pool_refresh, add_adapter
  <1>8. CASE commit_pool_refresh
    <2>1. ASSUME NEW t \in prepared, Replaced(t) PROVE Views'
      BY <2>1, Zenon DEF Replaced, Views
    <2> QED BY <1>1, <1>8, <2>1, RefreshCases, RestoredIsSame
  <1>9. CASE remove_pools \/ remove_adapter_cascade
    <2>1. ASSUME NEW owned, detach(owned) PROVE Views'
      <3>1. /\ registry' = [k \in Keys |-> IF k \in KeysOf(owned) THEN NoPool ELSE registry[k]]
            /\ routing' = [k \in Keys |-> IF k \in KeysOf(owned) THEN NoPool ELSE routing[k]]
        BY <2>1, DetachFacts
      <3> QED BY <3>1 DEF Views
    <2> QED BY <1>3, <1>9, <2>1, RemovalCases
  <1>10. CASE replace_registry
    BY <1>10, ReplaceRegistryFacts, Zenon DEF install_members, Views
  <1>11. ASSUME NEW ks, NEW s, set_pool_status(ks, s) PROVE Views'
    BY <1>11, Zenon DEF set_pool_status, Views
  <1>12. CASE ingest_block
    BY <1>1, <1>11, <1>12, Zenon DEF ingest_block
  <1>13. CASE ingest_reorg
    BY <1>1, <1>11, <1>13, Zenon DEF ingest_reorg
  <1> QED BY <1>2, <1>5, <1>6, <1>7, <1>8, <1>9, <1>10, <1>12, <1>13 DEF Next

\* Each status has one state, and none is Live.
LEMMA StatesTellStatuses ==
  ASSUME NEW s \in PoolStatuses
  PROVE  /\ pool_runtime_state(s) # "Live"
         /\ pool_runtime_state(s) = "Searchable" => s = "Ready"
         /\ pool_runtime_state("Ready") = "Searchable"
  BY DEF PoolStatuses, pool_runtime_state

\* An active instance shows the state of its registration.
Shows(i) == \/ lifecycles[i] = pool_runtime_state(registry[KeyOf(i)].status)
            \/ lifecycles[i] = "Live" /\ registry[KeyOf(i)].status = "Ready"

LEMMA ActiveStatus ==
  ASSUME EngineInv, NEW i \in active
  PROVE  i \in Instances /\ KeyOf(i) \in Keys /\ registry[KeyOf(i)] # NoPool
         /\ registry[KeyOf(i)].status \in PoolStatuses
  <1>1. i \in Instances /\ KeyOf(i) \in Keys /\ registry[KeyOf(i)] # NoPool
    BY PoolKeys
  <1> QED BY <1>1 DEF EngineInv, EngineTypes, Registered

LEMMA SameShown ==
  ASSUME EngineInv, Shown, NEW i \in active,
         lifecycles'[i] = lifecycles[i], registry'[KeyOf(i)] = registry[KeyOf(i)]
  PROVE  \/ lifecycles'[i] = pool_runtime_state(registry'[KeyOf(i)].status)
         \/ lifecycles'[i] = "Live" /\ registry'[KeyOf(i)].status = "Ready"
  BY Zenon DEF Shown

LEMMA ShownStep ==
  ASSUME EngineInv, Shown, PointChecked = TRUE, [Next]_vars
  PROVE  Shown'
  <1> DEFINE S(i) == \/ lifecycles'[i] = pool_runtime_state(registry'[KeyOf(i)].status)
                     \/ lifecycles'[i] = "Live" /\ registry'[KeyOf(i)].status = "Ready"
  <1>0. (\A i \in active' : S(i)) => Shown'
    BY DEF Shown, pool_runtime_state, KeyOf
  <1> HIDE DEF S
  <1>1. ASSUME NEW i \in active, lifecycles'[i] = lifecycles[i], registry'[KeyOf(i)] = registry[KeyOf(i)]
        PROVE  S(i)
    BY <1>1, SameShown DEF S
  <1>2. ASSUME UNCHANGED <<registry, active, lifecycles>> PROVE Shown'
    BY <1>0, <1>1, <1>2
  <1>3. CASE UNCHANGED vars
    BY <1>2, <1>3 DEF vars
  <1>4. Abandoned => Shown'
    BY <1>2 DEF Abandoned, Undone, index
  <1>5. ASSUME NEW owned, NEW status, Enterable(owned, status), commit_prepared_pool_additions(owned, status)
        PROVE  Shown'
    <2> DEFINE ks == KeysOf(owned)
               of(k) == CHOOSE o \in owned : KeyOf(o.instance) = k
    <2>1. /\ registry' = [k \in Keys |-> IF k \in ks THEN Registration(of(k).deps, status[k]) ELSE registry[k]]
          /\ active' = active \union InstancesOf(owned)
      BY <1>5, EnterFacts, Zenon DEF register_pool
    <2>2. lifecycles' = [i \in Instances |->
            IF i \in InstancesOf(owned) THEN pool_runtime_state(status[KeyOf(i)]) ELSE lifecycles[i]]
      BY <1>5, Zenon DEF commit_prepared_pool_additions
    <2>3. ASSUME NEW i \in InstancesOf(owned)
          PROVE  i \in Instances /\ KeyOf(i) \in ks /\ KeyOf(i) \in Keys
                 /\ status[KeyOf(i)] \in PoolStatuses /\ registry[KeyOf(i)] = NoPool
      BY <1>5, KeysOfInstances DEF InstancesOf, KeysOf, Enterable, Record
    <2>4. \A k \in ks : \E i \in InstancesOf(owned) : KeyOf(i) = k
      BY DEF InstancesOf, KeysOf
    <2> HIDE DEF ks, of
    <2>5. ASSUME NEW i \in InstancesOf(owned) PROVE S(i)
      <3>1. registry'[KeyOf(i)].status = status[KeyOf(i)]
        BY <2>1, <2>3 DEF Registration
      <3> QED BY <2>2, <2>3, <3>1 DEF S
    <2>6. ASSUME NEW i \in active, i \notin InstancesOf(owned) PROVE S(i)
      <3>1. i \in Instances /\ KeyOf(i) \in Keys /\ KeyOf(i) \notin ks
        BY <2>3, <2>4, ActiveStatus
      <3> QED BY <1>1, <2>1, <2>2, <2>6, <3>1
    <2> QED BY <1>0, <2>1, <2>5, <2>6
  <1>6. CASE add_pools \/ commit_pool_reservation
    BY <1>4, <1>5, <1>6, AddPoolsKeeps, CommitReservationKeeps
  <1>7. CASE reserve_pool_generation
    <2>1. PICK k \in Keys : /\ registry[k] = NoPool
                            /\ lifecycles' = [lifecycles EXCEPT ![<<k, generations[k] + 1>>] = "Queued"]
      BY <1>7 DEF reserve_pool_generation
    <2>2. registry' = registry /\ active' = active
      BY <1>7 DEF reserve_pool_generation, index
    <2>3. \A i \in active : i # <<k, generations[k] + 1>>
      BY <2>1, ActiveStatus DEF KeyOf
    <2>4. \A i \in active : lifecycles'[i] = lifecycles[i]
      BY <2>1, <2>3, ActiveStatus DEF EngineInv, EngineTypes
    <2> QED BY <1>0, <1>1, <2>2, <2>4
  <1>8. CASE cancel_pool_reservation
    <2>1. PICK j \in reservations : lifecycles' = [lifecycles EXCEPT ![j] = "Removed"]
      BY <1>8 DEF cancel_pool_reservation
    <2>2. registry' = registry /\ active' = active
      BY <1>8 DEF cancel_pool_reservation, index
    <2>3. \A i \in active : lifecycles'[i] = lifecycles[i]
      BY <2>1, ReservedIsInactive, ActiveStatus DEF EngineInv, EngineTypes
    <2> QED BY <1>0, <1>1, <2>2, <2>3
  <1>9. CASE acknowledge_live_delivery
    <2>1. PICK T \in SUBSET active :
            /\ \A i \in T : lifecycles[i] \in {"Searchable", "Live"}
            /\ lifecycles' = [i \in Instances |-> IF i \in T THEN "Live" ELSE lifecycles[i]]
      BY <1>9 DEF acknowledge_live_delivery
    <2>2. registry' = registry /\ active' = active
      BY <1>9 DEF acknowledge_live_delivery, index
    <2>3. ASSUME NEW i \in T PROVE S(i)
      <3>1. registry[KeyOf(i)].status = "Ready"
        <4>1. registry[KeyOf(i)].status \in PoolStatuses /\ lifecycles[i] \in {"Searchable", "Live"}
          BY <2>1, ActiveStatus
        <4>2. \/ lifecycles[i] = pool_runtime_state(registry[KeyOf(i)].status)
              \/ registry[KeyOf(i)].status = "Ready"
          BY Zenon DEF Shown
        <4>3. CASE lifecycles[i] = pool_runtime_state(registry[KeyOf(i)].status)
          <5>1. pool_runtime_state(registry[KeyOf(i)].status) # "Live"
            BY <4>1, StatesTellStatuses
          <5> QED BY <4>1, <4>3, <5>1, StatesTellStatuses
        <4> QED BY <4>2, <4>3
      <3>2. lifecycles'[i] = "Live"
        BY <2>1, ActiveStatus
      <3> QED BY <2>2, <3>1, <3>2 DEF S
    <2>4. ASSUME NEW i \in active, i \notin T PROVE S(i)
      BY <1>1, <2>1, <2>2, <2>4, ActiveStatus
    <2> QED BY <1>0, <2>2, <2>3, <2>4
  <1>10. CASE prepare_pool_refresh \/ add_adapter
    BY <1>2, <1>10 DEF prepare_pool_refresh, add_adapter, index
  <1>11. CASE commit_pool_refresh
    <2>1. ASSUME NEW t \in prepared, Passed(t), Replaced(t) PROVE Shown'
      <3> DEFINE j == t.previous.instance
                 q == KeyOf(j)
      <3>1. /\ registry' = [k \in Keys |-> IF k \in {q} THEN Registration(t.deps, "Ready") ELSE registry[k]]
            /\ lifecycles' = [lifecycles EXCEPT ![j] = IF lifecycles[j] = "Live" THEN "Live" ELSE "Searchable"]
            /\ active' = active
        BY <2>1, Zenon DEF Replaced, update_pool, Replaces
      <3>2. j \in active /\ t.previous \in pools
        BY <2>1 DEF Passed
      <3>3. \A i \in active : KeyOf(i) = q => i = j
        BY <3>2, PoolKeys DEF EngineInv, Ledger
      <3> HIDE DEF j, q
      <3>4. ASSUME NEW i \in active, i # j PROVE S(i)
        <4>1. KeyOf(i) # q /\ i \in Instances /\ KeyOf(i) \in Keys
          BY <3>3, <3>4, ActiveStatus
        <4> QED BY <1>1, <3>1, <3>4, <4>1 DEF EngineInv, EngineTypes
      <3>5. S(j)
        <4>1. j \in Instances /\ q \in Keys /\ KeyOf(j) = q
          BY <3>2, ActiveStatus DEF q
        <4>2. registry'[q].status = "Ready"
          BY <3>1, <4>1 DEF Registration
        <4>3. lifecycles'[j] = "Live" \/ lifecycles'[j] = "Searchable"
          BY <3>1, <4>1 DEF EngineInv, EngineTypes
        <4>4. pool_runtime_state("Ready") = "Searchable"
          BY StatesTellStatuses DEF PoolStatuses
        <4> QED BY <4>1, <4>2, <4>3, <4>4 DEF S
      <3> QED BY <1>0, <3>1, <3>4, <3>5
    <2>2. ASSUME NEW t \in prepared, Passed(t), Restored(t) PROVE Shown'
      BY <1>2, <2>2, RestoredIsSame DEF Restored, index
    <2>3. UNCHANGED <<registry, index, lifecycles>> => Shown'
      BY <1>2 DEF index
    <2> QED BY <1>11, <2>1, <2>2, <2>3, RefreshCases
  <1>12. CASE remove_pools \/ remove_adapter_cascade
    <2>1. ASSUME NEW owned \in SUBSET pools, detach(owned) PROVE Shown'
      <3>1. /\ registry' = [k \in Keys |-> IF k \in KeysOf(owned) THEN NoPool ELSE registry[k]]
            /\ active' = active \ InstancesOf(owned)
            /\ lifecycles' = [i \in Instances |-> IF i \in InstancesOf(owned) THEN "Removed" ELSE lifecycles[i]]
        BY <2>1, DetachFacts
      <3>2. ASSUME NEW i \in active, i \notin InstancesOf(owned) PROVE S(i)
        <4>1. i \in Instances /\ KeyOf(i) \in Keys /\ KeyOf(i) \notin KeysOf(owned)
          <5>1. PICK o \in pools : o.instance = i
            BY PoolKeys
          <5>2. \A p \in owned : KeyOf(p.instance) # KeyOf(i)
            BY <3>2, <5>1 DEF EngineInv, Ledger, InstancesOf
          <5> QED BY <5>2, ActiveStatus DEF KeysOf
        <4> QED BY <1>1, <3>1, <3>2, <4>1
      <3> QED BY <1>0, <3>1, <3>2
    <2> QED BY <1>4, <1>12, <2>1, RemovalCases
  <1>13. CASE replace_registry
    <2>1. PICK ks \in SUBSET Keys : \E d \in [ks -> Dependencies], status \in [ks -> Statuses] : install_members(d, status)
      BY <1>13, ReplaceRegistryFacts, Zenon
    <2>2. PICK d \in [ks -> Dependencies], status \in [ks -> Statuses] : install_members(d, status)
      BY <2>1
    <2>3. DOMAIN d = ks
      OBVIOUS
    <2>4. /\ registry' = [k \in Keys |-> IF k \in ks THEN Registration(d[k], status[k]) ELSE NoPool]
          /\ active' = InstancesOf(members(d))
          /\ lifecycles' = [i \in Instances |->
               IF i \in InstancesOf(members(d)) THEN pool_runtime_state(status[KeyOf(i)])
               ELSE IF i \in active THEN "Removed" ELSE lifecycles[i]]
      BY <2>2, <2>3, Zenon DEF install_members, member_registry
    <2>5. active' \subseteq Instances
      BY <1>13, ReplaceRegistryKeeps DEF EngineInv, Agreement, Ledger, Record
    <2>6. ASSUME NEW i \in active' PROVE KeyOf(i) \in ks
      BY <2>3, <2>4 DEF InstancesOf, members, PoolOwnership, KeyOf
    <2>7. ASSUME NEW i \in active' PROVE S(i)
      <3>1. registry'[KeyOf(i)].status = status[KeyOf(i)]
        BY <2>4, <2>6 DEF Registration
      <3>2. lifecycles'[i] = pool_runtime_state(status[KeyOf(i)])
        BY <2>4, <2>5
      <3> QED BY <3>1, <3>2 DEF S
    <2> QED BY <1>0, <2>7
  <1>14. ASSUME NEW ks, NEW s, set_pool_status(ks, s), active' = active PROVE Shown'
    <2> DEFINE there == {k \in ks : registry[k] # NoPool}
    <2>1. /\ registry' = [k \in Keys |-> IF k \in there THEN Registration(registry[k].deps, s) ELSE registry[k]]
          /\ lifecycles' = [i \in Instances |->
               IF i \in active /\ KeyOf(i) \in there THEN pool_runtime_state(s) ELSE lifecycles[i]]
      BY <1>14 DEF set_pool_status
    <2> HIDE DEF there
    <2>2. ASSUME NEW i \in active, KeyOf(i) \in there PROVE S(i)
      <3>1. registry'[KeyOf(i)].status = s /\ lifecycles'[i] = pool_runtime_state(s)
        BY <2>1, <2>2, ActiveStatus DEF Registration
      <3> QED BY <3>1 DEF S
    <2>3. ASSUME NEW i \in active, KeyOf(i) \notin there PROVE S(i)
      BY <1>1, <2>1, <2>3, ActiveStatus
    <2> QED BY <1>0, <1>14, <2>2, <2>3
  <1>15. CASE ingest_block
    <2>1. active' = active
      BY <1>15 DEF ingest_block, index
    <2> QED BY <1>2, <1>14, <1>15, <2>1, Zenon DEF ingest_block
  <1>16. CASE ingest_reorg
    <2>1. active' = active
      BY <1>16 DEF ingest_reorg, index
    <2> QED BY <1>2, <1>14, <1>16, <2>1, Zenon DEF ingest_reorg
  <1> QED BY <1>3, <1>6, <1>7, <1>8, <1>9, <1>10, <1>11, <1>12, <1>13, <1>15, <1>16 DEF Next

\* For every set of keys, families and declarations, every step of the engine
\* keeps registry, ownership records, reverse maps, ledger, reservations and the
\* outstanding refresh token consistent.
THEOREM EngineInvariance == Spec => []EngineInv
  <1>1. Init => EngineInv
    BY InitKeeps
  <1>2. EngineInv /\ [Next]_vars => EngineInv'
    BY EngineStep
  <1> QED BY <1>1, <1>2, PTL DEF Spec

\* Every structure of the engine describes the same pools, both registry views
\* agree, the degraded count is exact and every lifecycle is that of its
\* status, whatever the pools, the statuses they are added with and the step at
\* which a batch fails, provided the caller commits a refresh only when no batch
\* came in between (commit_pool_refresh compares points).
THEOREM StructuresAlwaysAgree ==
  ASSUME PointChecked = TRUE
  PROVE  Spec => []StructuresAgree
  <1> DEFINE Inv == EngineInv /\ Counted /\ Views /\ Shown
  <1>1. Init => Inv
    <2> SUFFICES ASSUME Init PROVE Counted /\ Views /\ Shown
      BY InitKeeps
    <2>1. \A k \in Keys : ~IsDegraded(registry[k])
      BY DEF Init, IsDegraded, NoPool
    <2>2. {k \in Keys : IsDegraded(registry[k])} = {} /\ degraded_pool_count = 0
      BY <2>1 DEF Init
    <2>3. Counted
      BY <2>2, FS_EmptySet DEF Counted, DegradedIn
    <2> QED BY <2>3 DEF Init, Views, Shown
  <1>2. Inv /\ [Next]_vars => Inv'
    BY EngineStep, CountedStep, ViewsStep, ShownStep
  <1>3. Inv => StructuresAgree
    <2> SUFFICES ASSUME Inv PROVE StructuresAgree
      OBVIOUS
    <2>1. \A i \in active : LET status == registry[KeyOf(i)].status
                            IN \/ lifecycles[i] = pool_runtime_state(status)
                               \/ lifecycles[i] = "Live" /\ status = "Ready"
      BY Zenon DEF Shown
    <2>2. \A i \in Instances \ active : lifecycles[i] \in {"None", "Queued", "Removed"}
      BY DEF EngineInv, EngineTypes, Agreement, Phases
    <2> QED BY <2>1, <2>2, Zenon DEF EngineInv, Counted, Views, Agreement, ReverseMaps, StructuresAgree
  <1> HIDE DEF Inv
  <1> QED BY <1>1, <1>2, <1>3, PTL DEF Spec

\* A slot purged on request, all of whose journaled writers were evicted with
\* it, never comes back before a registration adopts it: record_eviction_fences
\* and the purge after a rollback remember enough.
THEOREM EvictionIsFinal == Spec => []EvictedStaysGone
  <1>1. Init => EngineInv /\ Fenced
    BY InitKeeps
  <1>2. EngineInv /\ Fenced /\ [Next]_vars => EngineInv' /\ Fenced'
    BY EngineStep, FencedStep
  <1>3. Fenced => EvictedStaysGone
    <2> SUFFICES ASSUME Fenced, NEW s \in cache, <<s, TRUE>> \in evicted PROVE FALSE
      BY DEF EvictedStaysGone
    <2>1. <<s, TRUE>>[2] = TRUE /\ <<s, TRUE>>[1] = s
      OBVIOUS
    <2> QED BY <2>1 DEF Fenced
  <1> QED BY <1>1, <1>2, <1>3, PTL DEF Spec

\* No step takes a slot that a remaining pool covers out of the cache, unless
\* it rolls back a block that wrote it.
THEOREM EvictionAlwaysSpares == Spec => EvictionSparesLiving
  <1>1. Init => EngineInv /\ Fenced
    BY InitKeeps
  <1>2. EngineInv /\ Fenced /\ [Next]_vars => EngineInv' /\ Fenced'
    BY EngineStep, FencedStep
  <1>3. EngineInv /\ Fenced /\ [Next]_vars => [Spared]_vars
    BY FencedStep
  <1> QED BY <1>1, <1>2, <1>3, PTL DEF Spec, EvictionSparesLiving, Spared
=============================================================================
