------------------------------ MODULE PoolRepair ------------------------------
(***************************************************************************)
(* How pool state is kept right after its cold start: the sync engine      *)
(* applies the events of a block, degrades the pools it is not sure of,    *)
(* and the runtime actor schedules the repairs that make them Ready again. *)
(* Sources: sync_manager.rs, sync_manager/reorg.rs, reactive.rs, types.rs, *)
(* live_runtime.rs, live_runtime/repair_supersession.rs,                   *)
(* live_runtime/reorg.rs.                                                  *)
(*                                                                         *)
(* A cached slot holds the block whose write it reflects, so "the cached   *)
(* value is the chain's value" can be stated.  One action is one handler   *)
(* of the actor or one step of the worker.  What the actor and the worker  *)
(* know about a pool is one record; its jobs are numbered by the smallest  *)
(* number the worker does not hold (the code's ids only grow).             *)
(***************************************************************************)
EXTENDS Naturals, Sequences, FiniteSets, SequencesExt, FiniteSetsExt

CONSTANTS
  Block, Genesis, Parent, Number,  \* the block tree
  Pool, Slot,
  SlotsOf,     \* SlotsOf[p]: the slots p's adapter reads
  Touch,       \* Touch[b][p]: the slots of p that block b writes
  Kinds,       \* Kinds[p]: how p's adapter treats an event
  Lazy,        \* Lazy[p]: slots a lazy cold start of p leaves to deferred work
  Skipped,     \* Skipped[p]: slots it neither reads nor defers
  Learned,     \* Learned[p]: slots of p's learned quote read set
  Wide,        \* pools whose dependencies are a whole account
  Installed,   \* pools active when the runtime is spawned
  Modes,       \* subset of {"live", "resync"}: who executes repairs
  Jobs,        \* Jobs[p]: numbers of the jobs the worker can hold for p
  Rounds,      \* bound on the rounds of a refresh
  Retained,    \* RETAINED_BLOCKS
  Faults,      \* whether an ingest may fail in the engine
  Budget       \* bound on removals, requests, cancellations and faults

Cold == "cold"     \* the slot is not in the cache
Bad  == "bad"      \* a relative update was applied to a value that was not current
None == "none"

ASSUME TreeAssumption ==
  /\ Genesis \in Block /\ Cold \notin Block
  /\ Parent \in [Block -> Block] /\ Number \in [Block -> Nat]
  /\ \A b \in Block \ {Genesis} : Number[b] = Number[Parent[b]] + 1
ASSUME BoundAssumption ==
  Retained \in Nat \ {0} /\ Rounds \in Nat \ {0} /\ Faults \in BOOLEAN /\ Budget \in Nat
ASSUME PoolAssumption ==
  /\ Kinds \in [Pool -> SUBSET {"write", "delta", "verify", "cold", "other", "undecoded"}]
  /\ SlotsOf \in [Pool -> SUBSET Slot] /\ Modes \subseteq {"live", "resync"}
  /\ Jobs \in [Pool -> SUBSET (Nat \ {0})]
  /\ \A p \in Pool : Lazy[p] \cup Skipped[p] \cup Learned[p] \subseteq SlotsOf[p]
  /\ \A b \in Block, p \in Pool : Touch[b][p] \subseteq SlotsOf[p]

VARIABLES
  mode,        \* "live": the actor defers repairs; "resync": ingest_batch executes them
  trusted, point, health,
  history,     \* event_free_reorg_history: sequence of [block, has_logs]
  delivered,   \* blocks delivered so far: each is delivered once
  spent,       \* commands and faults so far
  pools,       \* per pool: registration, cached slots, intent, attempt, jobs
  owed,        \* ghost: slots whose refresh a report demanded and nothing performed
  inherited    \* ghost: slots whose word outlived a removal and nothing has read since

vars == <<mode, trusted, point, health, history, delivered, spent, pools, owed, inherited>>

Lineage[b \in Block] == IF b = Genesis THEN {b} ELSE {b} \cup Lineage[Parent[b]]

\* The block whose write slot s of p holds after block b.
Truth(b, p, s) ==
  LET writers == {w \in Lineage[b] \ {Genesis} : s \in Touch[w][p]}
  IN  IF writers = {} THEN Genesis
      ELSE CHOOSE w \in writers : \A v \in writers : Number[v] <= Number[w]

-----------------------------------------------------------------------------
(* Repair actions, intents and attempts.                                   *)

NoRepair == [act |-> "none", slots |-> {}]
VerifySlots(S) == IF S = {} THEN NoRepair ELSE [act |-> "verify", slots |-> S]
ColdStartRepair == [act |-> "cold", slots |-> {}]
LazyRepair == [act |-> "lazy", slots |-> {}]   \* a cold start under another policy than Eager

\* RepairAction::combine: absorbing None, union of equal shapes, else the later.
combine(a, b) ==
  CASE a.act = "none" -> b
    [] a.act # "none" /\ b.act = "none" -> a
    [] a.act = b.act /\ a.act \in {"verify", "other"} -> [a EXCEPT !.slots = @ \cup b.slots]
    [] OTHER -> b

NoIntent == [kind |-> "none", act |-> "none", slots |-> {}]
RepairIntent(a) == [kind |-> "repair", act |-> a.act, slots |-> a.slots]
\* Deferred work: slots to verify, or a cold start and slots to verify after it.
Deferred(act, S) ==
  IF act # "verify" \/ S # {} THEN [kind |-> "deferred", act |-> act, slots |-> S] ELSE NoIntent

\* retain_followup_intent
retain_followup_intent(P, i) ==
  CASE i = NoIntent -> P
    [] i.kind = "deferred" /\ P.intent.kind = "repair" -> P
    [] i.kind = "repair" /\ P.intent.kind = "repair" ->
         [P EXCEPT !.intent = RepairIntent(combine([act |-> @.act, slots |-> @.slots],
                                                   [act |-> i.act, slots |-> i.slots]))]
    [] OTHER -> [P EXCEPT !.intent = i]

NoWork == [id |-> 0, kind |-> "none", task |-> "none", slots |-> {},
           queued |-> FALSE, completed |-> 0]

FreeIds(P) == P.ids \ {j.id : j \in P.jobs}

\* The task queue_repair / queue_deferred make of an intent; "none" is
\* UnsupportedFollowUp.
task_of(i) ==
  CASE i.act = "cold" -> "refresh" [] i.act = "lazy" -> "lazy" [] i.act = "verify" -> "patch"
    [] OTHER -> "none"
refreshes(task) == task \in {"refresh", "lazy"}

\* worker.cancel: queued jobs leave at once, a running one at its next report.
WithoutQueued(P) == {j \in P.jobs : ~(j.id = P.work.id /\ j.phase = "queued")}

\* cancel_scheduled_work, the follow-up part.
cancel_scheduled_work(P) ==
  [P EXCEPT !.work = NoWork, !.jobs = WithoutQueued(P),
            !.shown = IF P.work.kind = "repair" THEN "Degraded" ELSE @]

\* worker.submit and the bookkeeping after it; the job keeps its own copy.
submit(P, i, b) ==
  LET id == Min(FreeIds(P))
  IN  [P EXCEPT
        !.work = [id |-> id, kind |-> i.kind, task |-> task_of(i), slots |-> i.slots,
                  queued |-> TRUE, completed |-> 0],
        !.jobs = @ \cup {[id |-> id, task |-> task_of(i), slots |-> i.slots, baseline |-> b,
                          phase |-> "queued", round |-> 0, stale |-> FALSE]},
        !.shown = IF i.kind = "repair" THEN "CatchingUp" ELSE @]

\* queue_followup: <<the pool afterwards, whether the intent was served>>.
queue_followup(P, i, b, ok) ==
  LET same    == P.work.kind = i.kind /\ P.work.task = task_of(i) /\ P.work.slots = i.slots
      busy    == P.work # NoWork /\ (i.kind # "repair" \/ P.work.kind = "repair")
      cleared == IF P.work = NoWork THEN P ELSE cancel_scheduled_work(P)
  IN  CASE ~ok -> <<P, FALSE>>
        [] ok /\ same -> <<P, TRUE>>
        [] ok /\ ~same /\ busy -> <<P, FALSE>>
        [] ok /\ ~same /\ ~busy /\ FreeIds(P) = {} -> <<cleared, FALSE>>
        [] OTHER -> <<submit(cleared, i, b), TRUE>>

\* drain_followup_intents, for one pool.
drain_followup_intents(P, b, ok) ==
  CASE P.intent = NoIntent -> P
    [] P.intent # NoIntent /\ ~P.active -> [P EXCEPT !.intent = NoIntent, !.waiting = None]
    [] P.active /\ P.intent # NoIntent /\ P.waiting = b -> P
    [] OTHER ->
         LET Q == [P EXCEPT !.waiting = None]
             r == queue_followup(Q, P.intent, b, ok)
         IN  IF task_of(P.intent) = "none" THEN [Q EXCEPT !.intent = NoIntent]
             ELSE IF r[2] THEN [r[1] EXCEPT !.intent = NoIntent] ELSE r[1]

Drained(PP, b, ok) == [p \in Pool |-> drain_followup_intents(PP[p], b, ok)]

-----------------------------------------------------------------------------
(* EventFreeReorgHistory.                                                  *)

reset(b) == <<[block |-> b, has_logs |-> TRUE]>>

parent_index(b) == {i \in DOMAIN history : history[i].block = Parent[b]}

replacement_proof(b, has_logs) ==
  IF has_logs \/ parent_index(b) = {} THEN <<>>
  ELSE LET dropped == SubSeq(history, Min(parent_index(b)) + 1, Len(history))
       IN  IF \E i \in DOMAIN dropped : dropped[i].has_logs THEN <<>> ELSE dropped

record(b, has_logs) ==
  IF parent_index(b) = {} THEN reset(b)
  ELSE LET grown == Append(SubSeq(history, 1, Min(parent_index(b))),
                           [block |-> b, has_logs |-> has_logs])
       IN  SubSeq(grown, IF Len(grown) > Retained THEN Len(grown) - Retained + 1 ELSE 1, Len(grown))

\* verify_event_free_reorg: the blocks the engine dropped are the proved ones.
verify_event_free_reorg(b, proof) ==
  proof # <<>> /\ {proof[i].block : i \in DOMAIN proof} = Lineage[point] \ Lineage[b]

-----------------------------------------------------------------------------
(* The reactive handlers and the engine's bookkeeping, for one pool.       *)

\* The reactive runtime's rollback: a journaled write of a dropped block is
\* undone, an imported value stays; which of the two a value is, is not tracked.
rolled_back(P, p, b, undo) ==
  [s \in Slot |-> IF undo /\ P.val[s] \in Block \ Lineage[Parent[b]]
                  THEN Truth(Parent[b], p, s) ELSE P.val[s]]

\* handle_routed_log: what the decoded event's updates leave in the cache.
apply_updates(val, p, b, k) ==
  [s \in Slot |->
     CASE s \notin Touch[b][p] -> val[s]
       [] s \in Touch[b][p] /\ k = "write" -> b
       [] s \in Touch[b][p] /\ k = "delta" ->
            IF val[s] = Cold THEN Cold ELSE IF val[s] = Truth(Parent[b], p, s) THEN b ELSE Bad
       [] s \in Touch[b][p] /\ k = "other" -> Cold
       [] OTHER -> val[s]]

\* predict_cold_skips and verify_slots_for_predicted_skips.
verify_slots_for_predicted_skips(val, p, b, k) ==
  VerifySlots(IF k = "delta" THEN {s \in Touch[b][p] : val[s] = Cold} ELSE {})

\* The repair an event ends with: its own, then the one for skipped deltas.
event_repair(val, p, b, k) ==
  combine(CASE k = "verify" -> VerifySlots(Touch[b][p])
            [] k = "cold" -> ColdStartRepair
            [] k = "other" -> [act |-> "other", slots |-> Touch[b][p]]
            [] OTHER -> NoRepair,
          verify_slots_for_predicted_skips(val, p, b, k))

\* The slots a repair is about.
Demand(p, a) == IF a.act = "cold" THEN SlotsOf[p] ELSE a.slots

\* set_pool_status: the engine's lifecycle map follows, `shown` overrides it.
set_pool_status(P, s) == [P EXCEPT !.status = s]

require_explicit_refresh(P) == [P EXCEPT !.status = "Degraded", !.fence = TRUE]

\* finish_ingest with deferred repairs.
finish_ingest(P, p, b, k, val, full) ==
  LET repair == IF full THEN ColdStartRepair ELSE event_repair(val, p, b, k)
      Q == [P EXCEPT !.val = apply_updates(val, p, b, k)]
      R == IF full \/ repair # NoRepair \/ k = "undecoded" THEN require_explicit_refresh(Q) ELSE Q
  IN  IF repair = NoRepair THEN R ELSE retain_followup_intent(R, RepairIntent(repair))

\* should_recover and PendingTargets::satisfied_by.
should_recover(P, p, refreshed) ==
  IF P.fence \/ P.targets # {} THEN ~P.fence /\ P.targets \subseteq refreshed
  ELSE p \notin Wide /\ SlotsOf[p] # {} /\ SlotsOf[p] \subseteq refreshed

\* finish_ingest when ingest_batch executed the slot repairs itself:
\* mark_failed_resync_pools, mark_decode_failed_pools,
\* mark_unresolved_event_pools and recover_resynced_pools.
finish_resync(P, p, b, k, val, full, ok) ==
  LET repair == event_repair(val, p, b, k)
      asked  == IF repair.act = "verify" THEN repair.slots ELSE {}
      done   == IF ok THEN asked ELSE {}
      Q == [P EXCEPT !.val = [s \in Slot |-> IF s \in done THEN b
                                             ELSE apply_updates(val, p, b, k)[s]]]
      R == IF asked # done THEN [Q EXCEPT !.status = "Degraded", !.targets = @ \cup asked] ELSE Q
      T == IF full \/ k \in {"undecoded", "cold", "other"} THEN require_explicit_refresh(R) ELSE R
      now == T # Q
  IN  IF T.status = "Degraded" /\ ~now /\ done # {} /\ should_recover(T, p, done)
      THEN [set_pool_status(T, "Ready") EXCEPT !.targets = {}] ELSE T

\* missing_quote_read_set: the learned slots that are not cached.
missing_quote_read_set(P, p) ==
  IF P.active THEN Deferred("verify", {s \in Learned[p] : P.val[s] = Cold}) ELSE NoIntent

registry_quality(PP) ==
  IF \E p \in Pool : PP[p].active /\ PP[p].status = "Degraded" THEN "Degraded" ELSE "Healthy"

-----------------------------------------------------------------------------
(* Canonical input.                                                        *)

\* What a lazy cold start leaves as the cache has it.
Unread(p) == Lazy[p] \cup Skipped[p]

\* apply_prepared_storage: the slots a cold start at block b read are written over
\* what is cached, the `unread` ones stay.
apply_prepared_storage(val, p, b, unread) ==
  [s \in Slot |-> IF s \in SlotsOf[p] \ unread THEN Truth(b, p, s) ELSE val[s]]

Absent == [active |-> FALSE, status |-> "Ready", fence |-> FALSE, targets |-> {},
           val |-> [s \in Slot |-> Cold], intent |-> NoIntent, waiting |-> None,
           work |-> NoWork, shown |-> None, jobs |-> {}, ids |-> {}]

Init ==
  /\ mode \in Modes /\ trusted = TRUE /\ point = Genesis /\ health = "Healthy"
  /\ history = reset(Genesis) /\ delivered = {Genesis} /\ spent = 0
  /\ pools = [p \in Pool |->
       IF p \in Installed
       THEN [Absent EXCEPT !.active = TRUE, !.ids = Jobs[p],
             !.val = [s \in Slot |-> IF s \in SlotsOf[p] \ Unread(p) THEN Genesis ELSE Cold]]
       ELSE [Absent EXCEPT !.ids = Jobs[p]]]
  /\ owed = [p \in Pool |-> {}]
  /\ inherited = [p \in Pool |-> {}]

\* A command or a fault, within the bound.
Spend == spent < Budget /\ spent' = spent + 1

Untrust == trusted' = FALSE /\ health' = "Untrusted"

\* Blocks the subscriber may hand over next.
Deliverable(b) == b \in Block \ delivered /\ trusted

\* How each active pool's adapter treats the block's log, if it has one.
Treatments(b) ==
  {k \in [Pool -> {"none"} \cup UNION {Kinds[p] : p \in Pool}] :
     \A p \in Pool : IF pools[p].active /\ Touch[b][p] # {} THEN k[p] \in Kinds[p]
                     ELSE k[p] = "none"}

\* A step away from the parent is a reorganisation or a gap.
jumps(b) == Parent[b] # point

\* The repairs the report of block b demands of p.
NewlyOwed(p, b, k, val, full) ==
  IF ~pools[p].active THEN {}
  ELSE IF full \/ k = "undecoded" THEN SlotsOf[p] ELSE Demand(p, event_repair(val, p, b, k))

\* An event that gives a slot its whole value, or purges it, ends its inheritance.
Rewritten(p, b, k) == IF k \in {"write", "other"} THEN Touch[b][p] ELSE {}

\* ingest, with a report the actor accepts.  The rollback is the cache's, so it
\* reaches the words that a removed pool left behind.
ingest(b) ==
  /\ mode = "live" /\ Deliverable(b)
  /\ \E k \in Treatments(b), undo \in IF jumps(b) THEN BOOLEAN ELSE {FALSE} :
       LET val == [p \in Pool |-> rolled_back(pools[p], p, b, undo)]
           has_logs == \E p \in Pool : k[p] # "none"
           full == jumps(b) /\ ~verify_event_free_reorg(b, replacement_proof(b, has_logs))
           ingested == [p \in Pool |->
             IF pools[p].active THEN finish_ingest(pools[p], p, b, k[p], val[p], full)
             ELSE [pools[p] EXCEPT !.val = val[p]]]
           repaired == Drained(ingested, b, TRUE)
           hydrated == [p \in Pool |->
             retain_followup_intent(repaired[p], missing_quote_read_set(repaired[p], p))]
       IN  /\ point' = b /\ delivered' = delivered \cup {b}
           /\ history' = record(b, has_logs)
           /\ pools' = Drained(hydrated, b, TRUE)
           /\ health' = registry_quality(ingested)
           /\ owed' = [p \in Pool |-> owed[p] \cup NewlyOwed(p, b, k[p], val[p], full)]
           /\ inherited' = [p \in Pool |-> inherited[p] \ Rewritten(p, b, k[p])]
  /\ UNCHANGED <<mode, trusted, spent>>

\* AmmSyncEngine::ingest_batch: the caller's own loop, no actor.
ingest_batch(b) ==
  /\ mode = "resync" /\ Deliverable(b)
  /\ \E k \in Treatments(b), ok \in [Pool -> BOOLEAN],
          undo \in IF jumps(b) THEN BOOLEAN ELSE {FALSE} :
       LET full == jumps(b)
           val == [p \in Pool |-> rolled_back(pools[p], p, b, undo)]
           repair(p) == event_repair(val[p], p, b, k[p])
           kept(p) == IF ok[p] /\ repair(p).act = "verify" THEN owed[p] \ repair(p).slots
                      ELSE owed[p] \cup Demand(p, repair(p))
       IN  /\ pools' = [p \in Pool |->
                IF pools[p].active THEN finish_resync(pools[p], p, b, k[p], val[p], full, ok[p])
                ELSE pools[p]]
           /\ owed' = [p \in Pool |->
                IF pools[p].active /\ (full \/ k[p] = "undecoded") THEN SlotsOf[p]
                ELSE IF pools[p].active /\ k[p] # "none" THEN kept(p) ELSE owed[p]]
  /\ point' = b /\ delivered' = delivered \cup {b}
  /\ UNCHANGED <<mode, trusted, health, history, spent, inherited>>

\* ingest, when the engine fails or reports an error: trust is lost.
ingest_fails(b) ==
  /\ mode = "live" /\ Faults /\ Deliverable(b) /\ Untrust /\ Spend
  /\ UNCHANGED <<mode, point, history, delivered, pools, owed, inherited>>

-----------------------------------------------------------------------------
(* Commands: install, remove, queue_repair, queue_deferred, cancel_work.   *)

\* Mutant: the proof survives imported state.
PublishKeepingProof(PP) ==
  pools' = PP /\ health' = registry_quality(PP) /\ UNCHANGED history

\* publish_commit without canonical timing: the proof is discarded.
PublishLifecycle(PP) ==
  /\ pools' = PP /\ health' = registry_quality(PP) /\ history' = reset(point)

\* commit_scheduled_pool / install_prepared_pools: the prepared storage is state
\* read at the point; a slot it leaves out keeps the word the cache has for it.
install(p) ==
  /\ mode = "live" /\ trusted /\ ~pools[p].active
  /\ LET Q == [Absent EXCEPT !.active = TRUE, !.jobs = pools[p].jobs, !.ids = Jobs[p],
                !.val = apply_prepared_storage(pools[p].val, p, point, Unread(p))]
         R == retain_followup_intent(Q, Deferred("verify", Lazy[p]))
     IN  PublishLifecycle([pools EXCEPT ![p] = drain_followup_intents(R, point, TRUE)])
  /\ owed' = [owed EXCEPT ![p] = {}]
  /\ inherited' = [inherited EXCEPT ![p] = @ \cap Unread(p)]
  /\ UNCHANGED <<mode, trusted, point, delivered, spent>>

\* The slots AmmEvictionPolicy leaves cached: all of them (Retain, and every removal
\* a reorganisation causes), none (Exclusive), or, at an address other pools share,
\* those the pool never declared.
EvictionPolicies(p) == {SlotsOf[p], {}, Unread(p)}

\* remove_pool_serialized: work is detached, its job may still report.
remove_pool(p, kept) ==
  /\ mode = "live" /\ trusted /\ pools[p].active /\ Spend
  /\ PublishLifecycle([pools EXCEPT ![p] =
       [Absent EXCEPT !.jobs = WithoutQueued(pools[p]), !.ids = Jobs[p],
                      !.val = [s \in Slot |-> IF s \in kept THEN pools[p].val[s] ELSE Cold]]])
  /\ owed' = [owed EXCEPT ![p] = {}]
  /\ inherited' = [inherited EXCEPT ![p] = kept]
  /\ UNCHANGED <<mode, trusted, point, delivered>>

\* queue_repair and queue_deferred as commands: nothing is retained.
request_followup(p, i) ==
  /\ mode = "live" /\ trusted /\ pools[p].active /\ task_of(i) # "none" /\ Spend
  /\ pools' = [pools EXCEPT ![p] = queue_followup(@, i, point, TRUE)[1]]
  /\ pools' # pools
  /\ UNCHANGED <<mode, trusted, point, health, history, delivered, owed, inherited>>

\* cancel_work: the attempt ends, nothing is drained.
cancel_work(p) ==
  /\ pools[p].work # NoWork /\ Spend
  /\ pools' = [pools EXCEPT ![p] = cancel_scheduled_work(@)]
  /\ UNCHANGED <<mode, trusted, point, health, history, delivered, owed, inherited>>

-----------------------------------------------------------------------------
(* Reports of the worker.                                                  *)

SetJob(P, j, k) == [P EXCEPT !.jobs = (@ \ {j}) \cup {k}]
scheduled(P, j) == P.work # NoWork /\ P.work.id = j.id
Failing(j, stale) == [j EXCEPT !.phase = "failing", !.stale = stale]

Report(p, Q) ==
  /\ pools' = [pools EXCEPT ![p] = Q]
  /\ UNCHANGED <<mode, trusted, point, health, history, delivered, owed, inherited>>
WorkerStep(p, Q) == Report(p, Q) /\ UNCHANGED spent

\* mark_scheduled_work_started -> start_scheduled_work.
start_scheduled_work(p, j) ==
  LET P == pools[p] IN
  /\ j.phase = "queued"
  /\ IF scheduled(P, j) /\ P.work.queued
     THEN WorkerStep(p, [SetJob(P, j, [j EXCEPT !.phase = "running"]) EXCEPT !.work.queued = FALSE])
     ELSE WorkerStep(p, SetJob(P, j, Failing(j, FALSE)))

\* report_scheduled_round: the last round, or one with a successor.
report_scheduled_round(p, j, next) ==
  LET P == pools[p] IN
  /\ j.phase = "running" /\ (next => refreshes(j.task) /\ j.round + 1 < Rounds)
  /\ IF scheduled(P, j) /\ ~P.work.queued /\ P.work.completed = j.round
     THEN WorkerStep(p, [SetJob(P, j, [j EXCEPT !.phase = IF next THEN "between" ELSE "done",
                                                !.round = @ + 1])
                         EXCEPT !.work.queued = next, !.work.completed = @ + 1])
     ELSE WorkerStep(p, SetJob(P, j, Failing(j, FALSE)))

\* begin_scheduled_round
begin_scheduled_round(p, j) ==
  LET P == pools[p] IN
  /\ j.phase = "between"
  /\ IF scheduled(P, j) /\ P.work.queued /\ P.work.completed = j.round /\ refreshes(P.work.task)
     THEN WorkerStep(p, [SetJob(P, j, [j EXCEPT !.phase = "running"]) EXCEPT !.work.queued = FALSE])
     ELSE WorkerStep(p, SetJob(P, j, Failing(j, FALSE)))

\* The provider fails the read.
provider_fails(p, j) ==
  /\ j.phase \in {"queued", "running"} /\ Spend
  /\ Report(p, SetJob(pools[p], j, Failing(j, FALSE)))

\* Work cancelled in the worker: the job disappears.
worker_drops(p, j) ==
  /\ ~scheduled(pools[p], j)
  /\ WorkerStep(p, [pools[p] EXCEPT !.jobs = @ \ {j}])

\* The intent a failed or superseded attempt goes back to.
retry_intent(w) ==
  IF w.kind = "repair"
  THEN RepairIntent(CASE w.task = "refresh" -> ColdStartRepair [] w.task = "lazy" -> LazyRepair
                      [] OTHER -> VerifySlots(w.slots))
  ELSE Deferred(CASE w.task = "refresh" -> "cold" [] w.task = "lazy" -> "lazy" [] OTHER -> "verify",
                w.slots)

\* resolve_repair_commit: a fenced repair whose target was replaced goes back
\* to its intent at once; a mismatch at the current point waits for a block.
resolve_repair_commit(P, target) ==
  IF P.work.kind = "repair" /\ P.active /\ P.status = "Degraded"
  THEN LET Q == [P EXCEPT !.work = NoWork, !.shown = "Degraded",
                          !.waiting = IF target = point THEN target ELSE @]
       IN  drain_followup_intents(retain_followup_intent(Q, retry_intent(P.work)), point, trusted)
  ELSE P

\* A commit the actor refuses: not scheduled, or its baseline is stale.
commit_refused(p, j) ==
  LET P == pools[p] IN
  /\ j.phase = "done"
  /\ \/ /\ ~scheduled(P, j)
        /\ WorkerStep(p, SetJob(P, j, Failing(j, FALSE)))
     \/ /\ scheduled(P, j) /\ j.baseline # point
        /\ WorkerStep(p, resolve_repair_commit(SetJob(P, j, Failing(j, TRUE)), j.baseline))

\* begin_replace refuses the point: the provider's block of that height differs.
commit_mismatched(p, j) ==
  LET P == pools[p] IN
  /\ j.phase = "done" /\ refreshes(j.task) /\ scheduled(P, j) /\ j.baseline = point
  /\ WorkerStep(p, resolve_repair_commit(SetJob(P, j, Failing(j, FALSE)), point))

\* require_trusted after the subscriber fence of a refresh.
commit_distrusted(p, j) ==
  /\ j.phase = "done" /\ refreshes(j.task) /\ scheduled(pools[p], j)
  /\ j.baseline = point /\ ~trusted
  /\ WorkerStep(p, SetJob(pools[p], j, Failing(j, FALSE)))

\* finish_followup
finish_followup(P, j) ==
  drain_followup_intents([P EXCEPT !.work = NoWork, !.shown = None, !.jobs = @ \ {j}],
                         point, trusted)

\* commit_pool_refresh: the registration is replaced, its targets forgotten.
commit_pool_refresh(P) == [P EXCEPT !.status = "Ready", !.fence = FALSE, !.targets = {}]

\* Under a lazy policy the slots the refresh did not read stay as they are, and
\* those it defers become the pool's next work.
commit_scheduled_refresh(p, j) ==
  LET P == pools[p]
      unread == IF j.task = "lazy" THEN Unread(p) ELSE {}
      put_off == IF j.task = "lazy" THEN Lazy[p] ELSE {}
      Q == [commit_pool_refresh(P) EXCEPT
              !.val = apply_prepared_storage(P.val, p, j.baseline, unread)]
      R == finish_followup(Q, j)
      S == retain_followup_intent(R, Deferred("verify", P.work.slots \cup put_off))
  IN
  /\ j.phase = "done" /\ refreshes(j.task) /\ scheduled(P, j) /\ j.baseline = point /\ trusted
  /\ PublishLifecycle([pools EXCEPT ![p] = drain_followup_intents(S, point, trusted)])
  /\ owed' = [owed EXCEPT ![p] = @ \cap unread]
  /\ inherited' = [inherited EXCEPT ![p] = @ \cap unread]
  /\ UNCHANGED <<mode, trusted, point, delivered, spent>>

\* Mutant: the baseline of a slot patch is not compared with the point.
commit_stale_patch(p, j) ==
  LET P == pools[p]
      Q == [P EXCEPT !.val = [s \in Slot |-> IF s \in j.slots THEN Truth(j.baseline, p, s)
                                             ELSE @[s]]]
      R == IF P.work.kind = "repair" THEN commit_pool_refresh(Q) ELSE Q
  IN
  /\ j.phase = "done" /\ j.task = "patch" /\ scheduled(P, j)
  /\ PublishLifecycle([pools EXCEPT ![p] = finish_followup(R, j)])
  /\ owed' = [owed EXCEPT ![p] = @ \ j.slots]
  /\ inherited' = [inherited EXCEPT ![p] = @ \ j.slots]
  /\ UNCHANGED <<mode, trusted, point, delivered, spent>>

\* commit_scheduled_slot_patch: no require_trusted on this path.
commit_scheduled_slot_patch(p, j) ==
  LET P == pools[p]
      Q == [P EXCEPT !.val = [s \in Slot |-> IF s \in j.slots THEN Truth(j.baseline, p, s)
                                             ELSE @[s]]]
      R == IF P.work.kind = "repair" THEN commit_pool_refresh(Q) ELSE Q
  IN
  /\ j.phase = "done" /\ j.task = "patch" /\ scheduled(P, j) /\ j.baseline = point
  /\ PublishLifecycle([pools EXCEPT ![p] = finish_followup(R, j)])
  /\ owed' = [owed EXCEPT ![p] = @ \ j.slots]
  /\ inherited' = [inherited EXCEPT ![p] = @ \ j.slots]
  /\ UNCHANGED <<mode, trusted, point, delivered, spent>>

\* Mutants: the failed repair is still shown as catching up; the attempt is
\* not taken off the books.
fail_still_catching_up(p, j) ==
  LET P == [pools[p] EXCEPT !.jobs = @ \ {j}]
      Q == [P EXCEPT !.work = NoWork]
      R == IF j.stale THEN retain_followup_intent(Q, retry_intent(P.work)) ELSE Q
  IN
  /\ j.phase = "failing"
  /\ IF scheduled(P, j) THEN WorkerStep(p, drain_followup_intents(R, point, trusted))
     ELSE WorkerStep(p, P)
fail_keeps_work(p, j) ==
  j.phase = "failing" /\ WorkerStep(p, [pools[p] EXCEPT !.jobs = @ \ {j}])

\* fail_scheduled_work: only a stale baseline puts the intent back.
fail_scheduled_work(p, j) ==
  LET P == [pools[p] EXCEPT !.jobs = @ \ {j}]
      Q == [P EXCEPT !.work = NoWork,
                     !.shown = IF P.work.kind = "repair" THEN "Degraded" ELSE @]
      R == IF j.stale THEN retain_followup_intent(Q, retry_intent(P.work)) ELSE Q
  IN
  /\ j.phase = "failing"
  /\ IF scheduled(P, j) THEN WorkerStep(p, drain_followup_intents(R, point, trusted))
     ELSE WorkerStep(p, P)

JobStep(p, j) ==
  \/ start_scheduled_work(p, j) \/ begin_scheduled_round(p, j)
  \/ report_scheduled_round(p, j, TRUE) \/ report_scheduled_round(p, j, FALSE)
  \/ commit_refused(p, j) \/ commit_mismatched(p, j) \/ commit_distrusted(p, j)
  \/ commit_scheduled_refresh(p, j) \/ commit_scheduled_slot_patch(p, j)
  \/ fail_scheduled_work(p, j)

\* What callers may ask for.
Requests(p) == {RepairIntent(ColdStartRepair), RepairIntent(LazyRepair), Deferred("cold", SlotsOf[p])}

Next ==
  \/ \E b \in Block : ingest(b) \/ ingest_batch(b) \/ ingest_fails(b)
  \/ \E p \in Pool :
       \/ install(p) \/ cancel_work(p)
       \/ \E kept \in EvictionPolicies(p) : remove_pool(p, kept)
       \/ \E i \in Requests(p) : request_followup(p, i)
       \/ \E j \in pools[p].jobs : JobStep(p, j) \/ provider_fails(p, j) \/ worker_drops(p, j)

Spec == Init /\ [][Next]_vars

\* The worker's loop keeps running; jobs are served in any order.
LiveSpec == Spec /\ WF_vars(\E p \in Pool : \E j \in pools[p].jobs : JobStep(p, j))

-----------------------------------------------------------------------------
(* Properties.                                                             *)

Values == Block \cup {Cold, Bad}

TypeOK ==
  /\ mode \in Modes /\ trusted \in BOOLEAN /\ point \in delivered /\ delivered \subseteq Block
  /\ health \in {"Healthy", "Degraded", "Untrusted"}
  /\ Len(history) \in 1..Retained /\ \A i \in DOMAIN history : history[i].block \in delivered
  /\ \A p \in Pool : LET P == pools[p] IN
       /\ P.active \in BOOLEAN /\ P.status \in {"Ready", "Degraded"} /\ P.fence \in BOOLEAN
       /\ P.targets \subseteq SlotsOf[p] /\ P.val \in [Slot -> Values]
       /\ P.intent.kind \in {"none", "repair", "deferred"} /\ P.waiting \in Block \cup {None}
       /\ P.work.id \in {0} \cup Jobs[p] /\ P.shown \in {None, "CatchingUp", "Degraded"}
       /\ Cardinality({j.id : j \in P.jobs}) = Cardinality(P.jobs)
       /\ owed[p] \subseteq SlotsOf[p] /\ inherited[p] \subseteq SlotsOf[p]

\* The cached slots of p that do not hold the chain's value at the point.
Wrong(p) == {s \in Slot : pools[p].val[s] \notin {Cold, Truth(point, p, s)}}

\* A cached slot of a registered pool that does not hold the chain's value at the
\* point is one some report demanded to refresh, or one whose word outlived an earlier
\* registration and that nothing has read since: state never goes wrong unnoticed
\* while its pool is registered, whatever the order of blocks, reorganisations,
\* patches, refreshes, removals and installs.  The event-free shortcut around a
\* full refresh (live_runtime/reorg.rs) and the baseline checks of the commits are
\* what this rests on.
StaleIsOwed ==
  trusted => \A p \in Pool : pools[p].active => Wrong(p) \subseteq owed[p] \cup inherited[p]

\* docs/live-runtime-master-plan.md:326: "A historical staging baseline never enters
\* the canonical graph by itself": a pool that a trusted runtime shows Ready, with no
\* work of it outstanding, holds words of no earlier point.
ReadyIsCurrent ==
  trusted => \A p \in Pool : LET P == pools[p] IN
    P.active /\ P.status = "Ready" /\ owed[p] = {} /\ P.work = NoWork /\ P.intent = NoIntent
      => Wrong(p) = {}

\* Observers see CatchingUp exactly while a repair of the pool is scheduled, and
\* scheduled work belongs to an active pool and has its attempt in the worker: no
\* failure, retry, supersession or removal leaves a lifecycle that nothing will end.
LifecycleHonest ==
  \A p \in Pool : LET P == pools[p] IN
    /\ (P.shown = "CatchingUp") = (P.work.kind = "repair")
    /\ P.work # NoWork => P.active /\ \E j \in P.jobs : j.id = P.work.id

\* An explicit-refresh fence with work still owed lets the pool be quoted only
\* after that work: sync_manager.rs "A later partial event repair cannot clear it".
FenceHolds == \A p \in Pool : pools[p].active /\ owed[p] # {} => pools[p].status = "Degraded"

\* A repair that waits behind another attempt gets its turn: every attempt
\* ends, by its commit, its failure, its cancellation or by being superseded,
\* however often blocks overtake its baseline, and the next drain takes the
\* intent unless trust is lost, it waits for a block or the worker is full.
RepairsEnd ==
  \A p \in Pool :
    (pools[p].intent.kind = "repair" /\ pools[p].work # NoWork)
      ~> \/ pools[p].intent.kind # "repair" \/ pools[p].work = NoWork

\* What a reader of the snapshot sees of a pool.
ViewOf(p) ==
  LET P == pools[p] IN
  CASE ~P.active -> "absent"
    [] P.active /\ P.status = "Degraded" -> "fenced"
    [] P.active /\ P.status = "Ready" /\ Wrong(p) = {} -> "exact"
    [] P.active /\ P.status = "Ready" /\ Wrong(p) # {} /\ Wrong(p) \subseteq inherited[p] -> "inherited"
    [] OTHER -> IF Wrong(p) \subseteq owed[p] \cup inherited[p] THEN "suspect" ELSE "broken"

Abstract == INSTANCE QuoteView WITH view <- [p \in Pool |-> ViewOf(p)]

\* The actor, the engine and the worker together implement the promise.
ImplementsQuoteView == Abstract!Spec
=============================================================================
