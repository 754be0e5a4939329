--------------------------- MODULE LifecycleFence ---------------------------
(***************************************************************************)
(* The topology handshake between the runtime actor (live_runtime.rs) and  *)
(* the subscriber driver (subscriber_driver.rs).                           *)
(*                                                                         *)
(* Both are tasks that own their state and talk over bounded queues: the   *)
(* driver submits one canonical batch at a time and waits for the answer;  *)
(* the actor runs begin / commit / abort transactions against the driver   *)
(* so that a pool's log interests and its registration change between two  *)
(* canonical blocks.  While the actor waits for a begin it goes on serving *)
(* canonical batches, and while the driver waits for a delivery it goes on *)
(* serving commands, so each may be deep inside one handler when it starts *)
(* the next: the actor's nesting is the variable frames.                   *)
(***************************************************************************)
EXTENDS Integers, Sequences, FiniteSets

CONSTANTS
  Pool,              \* pool keys; a pool's interests are one subscriber owner
  InitialPools,      \* pools active when the subscriber is attached
  MAX_CANONICAL_BURST, \* canonical batches before one control command runs
  Preconfirmations,  \* does the subscriber deliver preconfirmed batches
  ContinueCanonical, \* is that the preconfirmation rejection policy
  Reorgs,            \* may a delivered block orphan a pool's registration
  EngineFaults,      \* may the engine refuse a change behind the fence
  OwnerFaults,       \* may the subscriber refuse a prepared owner's next state
  MaxLineage,        \* bound: blocks the driver delivers in one drain
  MaxBlocks,         \* bound: canonical blocks in a behaviour
  MaxRequests        \* bound: topology requests in a behaviour

ASSUME FenceAssumption ==
  /\ InitialPools \subseteq Pool
  /\ MAX_CANONICAL_BURST \in Nat \ {0}
  /\ {Preconfirmations, ContinueCanonical, Reorgs, EngineFaults,
      OwnerFaults} \subseteq BOOLEAN
  /\ MaxLineage \in Nat \ {0}
  /\ {MaxBlocks, MaxRequests} \subseteq Nat

VARIABLES
  \* The actor.
  trusted,            \* AmmRuntimeActor.trusted
  point,              \* the canonical block of the published snapshot
  interest_revision,  \* revision a canonical batch must carry
  pools,              \* active pools
  frames,             \* handlers under way, innermost last
  result,             \* outcome of the handler that returned last
  canonical_streak,   \* canonical batches since the last control command
  \* The queues.
  commands,           \* actor's control queue
  canonical,          \* actor's canonical queue
  requests,           \* topology requests issued so far
  d_commands,         \* driver's control queue
  replies,            \* replies[d]: driver's answer to the handler at depth d
  delivery_reply,     \* actor's answer to the driver's batch or preview
  \* The driver.
  d_paused,           \* paused
  d_revision,         \* interest_revision
  d_pending,          \* the open topology transaction
  d_next_transaction, \* next_transaction
  d_owners,           \* state of each owner epoch
  d_work,             \* what the driver is doing
  d_refused           \* history: a commit was refused for an owner's state and
                      \* no abort of that transaction can follow

actor_vars == <<trusted, point, interest_revision, pools, frames, result, canonical_streak>>
driver_vars == <<d_paused, d_revision, d_pending, d_next_transaction, d_owners, d_work,
                d_refused>>
vars == <<actor_vars, commands, canonical, requests, d_commands, replies,
          delivery_reply, driver_vars>>

NoTransaction == [id |-> 0, kind |-> "none", owner |-> "none"]
Nothing == [kind |-> "none", id |-> 0]

\* A topology handler, the ingest it serves at its fence, the removal that
\* ingest starts: the driver, waiting for that ingest, submits nothing more.
MaxDepth == 3
Idle == [kind |-> "idle", remaining |-> 0, submitted |-> FALSE]

Init ==
  /\ trusted = TRUE
  /\ point = 0
  /\ interest_revision = 0
  /\ pools = InitialPools
  /\ frames = <<>>
  /\ result = "ok"
  /\ canonical_streak = 0
  /\ commands = <<>>
  /\ canonical = <<>>
  /\ requests = 0
  /\ d_commands = <<>>
  /\ replies = [d \in 1..MaxDepth |-> Nothing]
  /\ delivery_reply = "none"
  /\ d_paused = FALSE
  /\ d_revision = 0
  /\ d_pending = NoTransaction
  /\ d_next_transaction = 0
  /\ d_owners = [p \in Pool |-> IF p \in InitialPools THEN "Active" ELSE "None"]
  /\ d_work = Idle
  /\ d_refused = FALSE

-----------------------------------------------------------------------------
(* External: callers of the runtime handle. *)

Request(op, p) ==
  /\ requests < MaxRequests
  /\ requests' = requests + 1
  /\ commands' = Append(commands, [op |-> op, pool |-> p, baseline |-> point])
  /\ UNCHANGED <<actor_vars, canonical, d_commands, replies, delivery_reply, driver_vars>>

-----------------------------------------------------------------------------
(* The driver. *)

driver_alive == d_work.kind \notin {"failed"}

\* run_inner reads a batch whose drain will deliver n blocks.  A paused driver
\* only reads commands.
d_next_batch(n) ==
  /\ d_work.kind = "idle"
  /\ ~d_paused
  /\ point + n <= MaxBlocks
  /\ d_work' = [kind |-> "deliver", remaining |-> n, submitted |-> FALSE]
  /\ UNCHANGED <<actor_vars, commands, canonical, requests, d_commands, replies,
                 delivery_reply, d_paused, d_revision, d_pending,
                 d_next_transaction, d_owners, d_refused>>

\* deliver_through_sealed / drain_sealable: build the next block's batch under
\* the driver's current revision and submit it (ingest_subscriber_batch).
d_submit ==
  /\ d_work.kind = "deliver" /\ ~d_work.submitted
  /\ canonical' = Append(canonical, [revision |-> d_revision])
  /\ d_work' = [d_work EXCEPT !.submitted = TRUE]
  /\ UNCHANGED <<actor_vars, commands, requests, d_commands, replies,
                 delivery_reply, d_paused, d_revision, d_pending,
                 d_next_transaction, d_owners, d_refused>>

\* An error ends run_inner: the driver stops and reports the loss to the actor.
d_fails ==
  /\ d_work' = [Idle EXCEPT !.kind = "failed"]
  /\ commands' = Append(commands, [op |-> "report_subscriber_failure",
                                   pool |-> "none", baseline |-> point])

\* The answer to the batch: go on with the next block, or stop.
d_delivered ==
  /\ d_work.kind = "deliver" /\ d_work.submitted
  /\ delivery_reply # "none"
  /\ delivery_reply' = "none"
  /\ IF delivery_reply = "ok"
     THEN /\ d_work' = IF d_work.remaining = 1 THEN Idle
                       ELSE [d_work EXCEPT !.remaining = @ - 1, !.submitted = FALSE]
          /\ UNCHANGED commands
     ELSE d_fails
  /\ UNCHANGED <<actor_vars, canonical, requests, d_commands, replies, d_paused,
                 d_revision, d_pending, d_next_transaction, d_owners, d_refused>>

\* handle_batch forwards a preconfirmed batch to the actor's control queue and
\* waits for the answer without serving commands.
d_preconfirmation ==
  /\ Preconfirmations
  /\ d_work.kind = "idle"
  /\ ~d_paused
  /\ commands' = Append(commands, [op |-> "ingest_preconfirmation",
                                   pool |-> "none", baseline |-> point])
  /\ d_work' = [Idle EXCEPT !.kind = "preconfirmation"]
  /\ UNCHANGED <<actor_vars, canonical, requests, d_commands, replies,
                 delivery_reply, d_paused, d_revision, d_pending,
                 d_next_transaction, d_owners, d_refused>>

\* handle_preconfirmation_result: only the rejection of the batch itself is
\* discarded, and only under ContinueCanonical.
d_preconfirmed ==
  /\ d_work.kind = "preconfirmation"
  /\ delivery_reply # "none"
  /\ delivery_reply' = "none"
  /\ IF delivery_reply = "ok" \/ (delivery_reply = "rejected" /\ ContinueCanonical)
     THEN d_work' = Idle /\ UNCHANGED commands
     ELSE d_fails
  /\ UNCHANGED <<actor_vars, canonical, requests, d_commands, replies,
                 d_paused, d_revision, d_pending, d_next_transaction, d_owners, d_refused>>

\* A provider request of a delivery fails.
d_provider_error ==
  /\ d_work.kind = "deliver" /\ ~d_work.submitted
  /\ d_fails
  /\ UNCHANGED <<actor_vars, canonical, requests, d_commands, replies,
                 delivery_reply, d_paused, d_revision, d_pending,
                 d_next_transaction, d_owners, d_refused>>

\* Mutant: commands wait for the end of the delivery.
d_serves_between_batches == d_work.kind = "idle"

\* The driver takes a command while idle (paused or not), or while a submitted
\* batch has no answer yet (ingest_while_servicing_controls).
d_serves ==
  \/ d_work.kind = "idle"
  \/ d_work.kind = "deliver" /\ d_work.submitted /\ delivery_reply = "none"

\* The driver's own map owners: the epochs it has activated and not finalized.
registered(p) == d_owners[p] \in {"Active", "Removing", "Replacing"}

Take(kind) ==
  /\ d_serves
  /\ d_commands # <<>>
  /\ Head(d_commands).kind = kind
  /\ d_commands' = Tail(d_commands)

Reply(kind, id) ==
  replies' = [replies EXCEPT ![Head(d_commands).depth] = [kind |-> kind, id |-> id]]
Refuse ==
  /\ Reply("error", 0)
  /\ UNCHANGED <<d_paused, d_revision, d_pending, d_next_transaction, d_owners>>

\* Mutant: open a transaction without pausing.
Open_unpaused(kind, owner, state) ==
  /\ d_owners' = [d_owners EXCEPT ![owner] = state]
  /\ d_next_transaction' = d_next_transaction + 1
  /\ d_pending' = [id |-> d_next_transaction + 1, kind |-> kind, owner |-> owner]
  /\ Reply("transaction", d_next_transaction + 1)
  /\ UNCHANGED <<d_paused, d_revision>>

\* Pause, move the owner to its prepared state and open a transaction.
Open(kind, owner, state) ==
  /\ d_paused' = TRUE
  /\ d_owners' = [d_owners EXCEPT ![owner] = state]
  /\ d_next_transaction' = d_next_transaction + 1
  /\ d_pending' = [id |-> d_next_transaction + 1, kind |-> kind, owner |-> owner]
  /\ Reply("transaction", d_next_transaction + 1)
  /\ UNCHANGED d_revision

\* A begin that fails once the driver has paused: resume, and answer the error.
Resume ==
  /\ d_paused' = FALSE
  /\ Reply("error", 0)
  /\ UNCHANGED <<d_revision, d_pending, d_next_transaction, d_owners>>

\* begin_add: staging may fail, and then delivery resumes.
begin_add ==
  /\ Take("begin_add")
  /\ \/ d_pending # NoTransaction /\ Refuse
     \/ d_pending = NoTransaction /\ Open("add", Head(d_commands).pool, "Staged")
     \/ d_pending = NoTransaction /\ Resume
  /\ UNCHANGED <<actor_vars, commands, canonical, requests, delivery_reply, d_work, d_refused>>

\* begin_remove: the subscriber may refuse to prepare an active owner.
begin_remove ==
  /\ Take("begin_remove")
  /\ LET owner == Head(d_commands).pool
         free == d_pending = NoTransaction /\ d_owners[owner] = "Active" IN
     \/ ~free /\ Refuse
     \/ free /\ Open("remove", owner, "Removing")
     \/ free /\ OwnerFaults /\ Resume
  /\ UNCHANGED <<actor_vars, commands, canonical, requests, delivery_reply, d_work, d_refused>>

begin_replace ==
  /\ Take("begin_replace")
  /\ LET owner == Head(d_commands).pool IN
     \/ (d_pending # NoTransaction \/ ~registered(owner)) /\ Refuse
     \/ d_pending = NoTransaction /\ registered(owner)
        /\ Open("replace", owner, "Replacing")
     \/ d_pending = NoTransaction /\ registered(owner) /\ Resume
  /\ UNCHANGED <<actor_vars, commands, canonical, requests, delivery_reply, d_work, d_refused>>

\* Close the open transaction: resume delivery.
Close(state) ==
  /\ d_owners' = [d_owners EXCEPT ![d_pending.owner] = state]
  /\ d_pending' = NoTransaction
  /\ d_paused' = FALSE
  /\ Reply("done", 0)
  /\ UNCHANGED d_next_transaction

stale_transaction == d_pending = NoTransaction \/ d_pending.id # Head(d_commands).id

\* The owners are no longer in their prepared state: the transaction stays open,
\* the driver paused.  Only an addition's caller aborts it then.
owner_state_refused ==
  /\ Refuse
  /\ d_refused' = (d_refused \/ d_pending.kind # "add")

\* The activation or finalization itself is refused: the transaction is gone, the
\* driver paused, and no abort finds anything to undo.
owner_step_refused ==
  /\ d_pending.kind \in {"add", "remove"}
  /\ d_pending' = NoTransaction
  /\ Reply("error", 0)
  /\ d_refused' = TRUE
  /\ UNCHANGED <<d_paused, d_revision, d_next_transaction, d_owners>>

commit ==
  /\ Take("commit")
  /\ \/ stale_transaction /\ Refuse /\ UNCHANGED d_refused
     \/ /\ ~stale_transaction
        /\ Close(IF d_pending.kind = "remove" THEN "None" ELSE "Active")
        /\ d_revision' = Head(d_commands).revision
        /\ UNCHANGED d_refused
     \/ ~stale_transaction /\ OwnerFaults /\ owner_state_refused
     \/ ~stale_transaction /\ OwnerFaults /\ owner_step_refused
  /\ UNCHANGED <<actor_vars, commands, canonical, requests, delivery_reply, d_work>>

\* Mutant: an abort drops the owner whatever the transaction was.
abort_dropping_owner ==
  /\ Take("abort")
  /\ IF stale_transaction
     THEN Refuse
     ELSE Close("None") /\ UNCHANGED d_revision
  /\ UNCHANGED <<actor_vars, commands, canonical, requests, delivery_reply, d_work, d_refused>>

abort ==
  /\ Take("abort")
  /\ IF stale_transaction
     THEN Refuse
     ELSE /\ Close(IF d_pending.kind = "add" THEN "None" ELSE "Active")
          /\ UNCHANGED d_revision
  /\ UNCHANGED <<actor_vars, commands, canonical, requests, delivery_reply, d_work, d_refused>>

\* A driver that has stopped answers Closed.
d_closed ==
  /\ d_work.kind = "failed"
  /\ d_commands # <<>>
  /\ d_commands' = Tail(d_commands)
  /\ Reply("error", 0)
  /\ UNCHANGED <<actor_vars, commands, canonical, requests, delivery_reply, driver_vars>>

-----------------------------------------------------------------------------
(* The actor. *)

Top == frames[Len(frames)]
Push(frame) == frames' = Append(frames, frame)
Pop == frames' = SubSeq(frames, 1, Len(frames) - 1)
At(stage) == frames # <<>> /\ Top.stage = stage
SetTop(frame) == frames' = [frames EXCEPT ![Len(frames)] = frame]

\* The innermost handler returns.
Return(outcome) == Pop /\ result' = outcome

\* Ask the driver on behalf of the handler at a depth.
Send(kind, p, depth, id, revision) ==
  d_commands' = Append(d_commands, [kind |-> kind, pool |-> p, depth |-> depth,
                                    id |-> id, revision |-> revision])
answer == replies[Len(frames)]
Receive == replies' = [replies EXCEPT ![Len(frames)] = Nothing]

Frame(op, p, baseline, stage) ==
  [op |-> op, pool |-> p, baseline |-> baseline, stage |-> stage, id |-> 0, orphans |-> {}]

begin_command(op) ==
  CASE op = "install" -> "begin_add"
    [] op = "remove" -> "begin_remove"
    [] op = "refresh" -> "begin_replace"

\* The checks install_prepared_pools, remove_pool_serialized and
\* commit_scheduled_refresh make before the fence and again after it; a refresh
\* asks for trust only after it.
admissible(op, p, baseline, fenced) ==
  /\ op # "refresh" \/ fenced => trusted
  /\ op = "install" => p \notin pools /\ baseline = point
  /\ op = "refresh" => p \in pools /\ baseline = point
  /\ op = "remove" => p \in pools

\* run: canonical input first, one control command after a burst.
may_take_control == canonical = <<>> \/ canonical_streak >= MAX_CANONICAL_BURST

\* A control command that opens a topology transaction.
handle_control ==
  /\ frames = <<>>
  /\ commands # <<>>
  /\ may_take_control
  /\ LET command == Head(commands) IN
     /\ command.op \in {"install", "remove", "refresh"}
     /\ IF admissible(command.op, command.pool, command.baseline, FALSE)
        THEN /\ Push(Frame(command.op, command.pool, command.baseline, "fence"))
             /\ Send(begin_command(command.op), command.pool, 1, 0, 0)
             /\ UNCHANGED result
        ELSE /\ result' = "error"
             /\ UNCHANGED <<frames, d_commands>>
  /\ commands' = Tail(commands)
  /\ canonical_streak' = 0
  /\ UNCHANGED <<trusted, point, interest_revision, pools, canonical, requests,
                 replies, delivery_reply, driver_vars>>

\* ReportSubscriberFailure: mark_untrusted.
report_subscriber_failure ==
  /\ frames = <<>>
  /\ commands # <<>>
  /\ may_take_control
  /\ Head(commands).op = "report_subscriber_failure"
  /\ trusted' = FALSE
  /\ commands' = Tail(commands)
  /\ canonical_streak' = 0
  /\ UNCHANGED <<point, interest_revision, pools, frames, result, canonical,
                 requests, d_commands, replies, delivery_reply, driver_vars>>

\* IngestPreconfirmation: publish a preview, reject the batch, or fail; canonical
\* state is unchanged.
ingest_preconfirmation ==
  /\ frames = <<>>
  /\ commands # <<>>
  /\ may_take_control
  /\ Head(commands).op = "ingest_preconfirmation"
  /\ delivery_reply' \in IF trusted THEN {"ok", "rejected", "error"} ELSE {"error"}
  /\ commands' = Tail(commands)
  /\ canonical_streak' = 0
  /\ UNCHANGED <<trusted, point, interest_revision, pools, frames, result,
                 canonical, requests, d_commands, replies, driver_vars>>

\* ingest: refuse the batch, lose trust in the engine's result, or publish the
\* block and then remove every pool whose registration the block orphaned.
\* Taken by run, and by await_subscriber_fence while the driver has not
\* answered a begin.
ingest ==
  /\ frames = <<>> \/ At("fence")
  /\ canonical # <<>>
  /\ frames = <<>> => canonical_streak < MAX_CANONICAL_BURST \/ commands = <<>>
  /\ canonical' = Tail(canonical)
  /\ canonical_streak' = IF frames = <<>> /\ canonical_streak < MAX_CANONICAL_BURST
                         THEN canonical_streak + 1 ELSE canonical_streak
  /\ LET accepted == trusted /\ Head(canonical).revision = interest_revision IN
     \/ /\ ~accepted
        /\ delivery_reply' = "error"
        /\ UNCHANGED <<trusted, point, frames>>
     \/ /\ accepted
        /\ trusted' = FALSE   \* mark_untrusted
        /\ delivery_reply' = "error"
        /\ UNCHANGED <<point, frames>>
     \/ /\ accepted
        /\ point' = point + 1
        /\ \E orphans \in SUBSET (IF Reorgs THEN pools ELSE {}) :
             Push([Frame("ingest", "none", point, "reorg_actions")
                     EXCEPT !.orphans = orphans])
        /\ UNCHANGED <<trusted, delivery_reply>>
  /\ UNCHANGED <<interest_revision, pools, result, commands, requests,
                 d_commands, replies, driver_vars>>

\* ingest, after publication: remove the next orphaned pool.
remove_orphan ==
  /\ At("reorg_actions")
  /\ \E p \in Top.orphans :
       LET rest == [Top EXCEPT !.orphans = @ \ {p}, !.stage = "removing"] IN
       /\ IF trusted /\ p \in pools
          THEN /\ frames' = Append([frames EXCEPT ![Len(frames)] = rest],
                                   Frame("remove", p, point, "fence"))
               /\ Send("begin_remove", p, Len(frames) + 1, 0, 0)
               /\ UNCHANGED result
          ELSE /\ SetTop(rest)
               /\ result' = IF p \in pools THEN "error" ELSE "ok"
               /\ UNCHANGED d_commands
  /\ UNCHANGED <<trusted, point, interest_revision, pools, canonical_streak,
                 commands, canonical, requests, replies, delivery_reply, driver_vars>>

\* Mutant: the error of a removal is ignored.
orphan_skipped ==
  /\ At("removing")
  /\ SetTop([Top EXCEPT !.stage = "reorg_actions"])
  /\ UNCHANGED <<trusted, point, interest_revision, pools, result, canonical_streak,
                 commands, canonical, requests, d_commands, replies, delivery_reply, driver_vars>>

\* The removal returned: an error ends ingest (the ? in the loop).
orphan_removed ==
  /\ At("removing")
  /\ IF result = "ok"
     THEN SetTop([Top EXCEPT !.stage = "reorg_actions"]) /\ UNCHANGED delivery_reply
     ELSE Pop /\ delivery_reply' = "error"
  /\ UNCHANGED <<trusted, point, interest_revision, pools, result, canonical_streak,
                 commands, canonical, requests, d_commands, replies, driver_vars>>

\* ingest returns: the driver's batch is answered.
ingested ==
  /\ At("reorg_actions")
  /\ Top.orphans = {}
  /\ Return("ok")
  /\ delivery_reply' = "ok"
  /\ UNCHANGED <<trusted, point, interest_revision, pools, canonical_streak,
                 commands, canonical, requests, d_commands, replies, driver_vars>>

\* Mutant: return the error of the second check without an abort.
begun_without_abort ==
  /\ At("fence")
  /\ canonical = <<>>
  /\ answer # Nothing
  /\ Receive
  /\ IF answer.kind = "error" \/ ~admissible(Top.op, Top.pool, Top.baseline, TRUE)
     THEN /\ Return("error")
          /\ UNCHANGED <<pools, d_commands>>
     ELSE /\ SetTop([Top EXCEPT !.stage = "commit", !.id = answer.id])
          /\ pools' = IF Top.op = "install" THEN pools \cup {Top.pool} ELSE pools
          /\ Send("commit", Top.pool, Len(frames), answer.id, interest_revision + 1)
          /\ UNCHANGED result
  /\ UNCHANGED <<trusted, point, interest_revision, canonical_streak, commands,
                 canonical, requests, delivery_reply, driver_vars>>

\* await_subscriber_fence: the begin is answered and no canonical batch waits
\* (the select prefers canonical input).  The checks run again: abort, or go on
\* to the commit.  An install mutates the engine before the subscriber commits
\* (and aborts when the engine refuses), the others after.
begun ==
  /\ At("fence")
  /\ canonical = <<>>
  /\ answer # Nothing
  /\ Receive
  /\ LET valid == admissible(Top.op, Top.pool, Top.baseline, TRUE) IN
     \/ /\ answer.kind = "error"
        /\ Return("error")
        /\ UNCHANGED <<pools, d_commands>>
     \/ /\ answer.kind # "error"
        /\ ~valid \/ (EngineFaults /\ Top.op = "install")
        /\ SetTop([Top EXCEPT !.stage = "abort", !.id = answer.id])
        /\ Send("abort", Top.pool, Len(frames), answer.id, 0)
        /\ UNCHANGED <<pools, result>>
     \/ /\ answer.kind # "error" /\ valid
        /\ SetTop([Top EXCEPT !.stage = "commit", !.id = answer.id])
        /\ pools' = IF Top.op = "install" THEN pools \cup {Top.pool} ELSE pools
        /\ Send("commit", Top.pool, Len(frames), answer.id, interest_revision + 1)
        /\ UNCHANGED result
  /\ UNCHANGED <<trusted, point, interest_revision, canonical_streak, commands,
                 canonical, requests, delivery_reply, driver_vars>>

\* The subscriber committed: mutate the engine, advance the revision, publish.
\* An engine that refuses the change, or the prepared accounts, now that the
\* subscriber has moved on costs the runtime its trust.
committed ==
  /\ At("commit")
  /\ answer.kind = "done"
  /\ Receive
  /\ \/ /\ interest_revision' = interest_revision + 1
        /\ pools' = IF Top.op = "remove" THEN pools \ {Top.pool} ELSE pools
        /\ Return("ok")
        /\ UNCHANGED trusted
     \/ /\ EngineFaults /\ Top.op # "install"
        /\ trusted' = FALSE
        /\ Return("error")
        /\ UNCHANGED <<interest_revision, pools>>
     \/ /\ EngineFaults /\ Top.op # "remove"
        /\ interest_revision' = interest_revision + 1
        /\ trusted' = FALSE
        /\ Return("error")
        /\ UNCHANGED pools
  /\ UNCHANGED <<point, canonical_streak, commands, canonical, requests,
                 d_commands, delivery_reply, driver_vars>>

\* The subscriber refused the commit: an install rolls the engine back, aborts
\* and gives up trust; the others only return the error.
commit_refused ==
  /\ At("commit")
  /\ answer.kind = "error"
  /\ Receive
  /\ IF Top.op = "install"
     THEN /\ pools' = pools \ {Top.pool}
          /\ trusted' = FALSE
          /\ SetTop([Top EXCEPT !.stage = "abort"])
          /\ Send("abort", Top.pool, Len(frames), Top.id, 0)
          /\ UNCHANGED result
     ELSE /\ Return("error")
          /\ UNCHANGED <<pools, trusted, d_commands>>
  /\ UNCHANGED <<point, interest_revision, canonical_streak, commands, canonical,
                 requests, delivery_reply, driver_vars>>

\* The abort is answered, whatever the answer.
aborted ==
  /\ At("abort")
  /\ answer # Nothing
  /\ Receive
  /\ Return("error")
  /\ UNCHANGED <<trusted, point, interest_revision, pools, canonical_streak,
                 commands, canonical, requests, d_commands, delivery_reply, driver_vars>>

-----------------------------------------------------------------------------
Actor ==
  \/ handle_control \/ report_subscriber_failure \/ ingest_preconfirmation
  \/ ingest \/ remove_orphan \/ orphan_removed \/ ingested
  \/ begun \/ committed \/ commit_refused \/ aborted

Driver ==
  \/ d_submit \/ d_delivered \/ d_preconfirmed
  \/ begin_add \/ begin_remove \/ begin_replace \/ commit \/ abort \/ d_closed

Next ==
  \/ \E op \in {"install", "remove", "refresh"}, p \in Pool : Request(op, p)
  \/ \E n \in 1..MaxLineage : d_next_batch(n)
  \/ d_preconfirmation
  \/ d_provider_error
  \/ Actor
  \/ Driver

Spec == Init /\ [][Next]_vars
FairSpec == Spec /\ WF_vars(Actor) /\ WF_vars(Driver)

-----------------------------------------------------------------------------
(* Properties. *)

Transactions == [id : Nat, kind : {"none", "add", "remove", "replace"},
                 owner : Pool \cup {"none"}]
Frames == [op : {"install", "remove", "refresh", "ingest"}, pool : Pool \cup {"none"},
           baseline : Nat, id : Nat, orphans : SUBSET Pool,
           stage : {"fence", "commit", "abort", "reorg_actions", "removing"}]

\* Every variable in its range: at most one canonical batch in flight (the driver
\* waits for each answer) and at most three handlers nested in the actor.
TypeOK ==
  /\ trusted \in BOOLEAN
  /\ point \in 0..MaxBlocks
  /\ interest_revision \in Nat /\ d_revision \in Nat
  /\ pools \subseteq Pool
  /\ frames \in Seq(Frames) /\ Len(frames) <= MaxDepth
  /\ result \in {"ok", "error"}
  /\ canonical_streak \in 0..MAX_CANONICAL_BURST
  /\ Len(canonical) <= 1
  /\ \A i \in 1..Len(canonical) : canonical[i].revision \in Nat
  /\ requests \in 0..MaxRequests
  /\ Len(d_commands) <= MaxDepth
  /\ replies \in [1..MaxDepth -> [kind : {"none", "transaction", "done", "error"}, id : Nat]]
  /\ delivery_reply \in {"none", "ok", "rejected", "error"}
  /\ d_paused \in BOOLEAN
  /\ d_pending \in Transactions
  /\ d_next_transaction \in Nat
  /\ d_owners \in [Pool -> {"None", "Staged", "Active", "Removing", "Replacing"}]
  /\ d_work \in [kind : {"idle", "deliver", "preconfirmation", "failed"},
                 remaining : 0..MaxLineage, submitted : BOOLEAN]
  /\ d_refused \in BOOLEAN

\* A batch that a trusted actor is about to ingest carries the actor's own
\* interest revision, whatever topology transaction ran between the driver
\* building it and the actor taking it: ingest never has to refuse one as
\* InterestRevisionMismatch.
NoMismatch ==
  (frames = <<>> \/ At("fence")) /\ canonical # <<>> /\ trusted
    => Head(canonical).revision = interest_revision

\* Actor and driver have no exchange under way and the driver is running.
Quiescent == frames = <<>> /\ d_commands = <<>> /\ driver_alive

\* Between transactions a trusted actor and its driver agree on the topology: the
\* pools the actor serves are exactly the owners the driver has registered, and
\* both count the same interest revision.  An aborted, refused or nested transaction
\* leaves neither a pool without interests nor interests without a pool; and each
\* of those owners is active, unless the subscriber refused a commit that its
\* caller does not abort.
TopologyAgrees ==
  Quiescent /\ trusted =>
    /\ pools = {p \in Pool : registered(p)}
    /\ ~d_refused => \A p \in pools : d_owners[p] = "Active"
    /\ interest_revision = d_revision

\* Between transactions the driver is never left paused or with a transaction
\* open: every early return of the actor's handlers after a successful begin
\* goes through a commit or an abort, the install whose commit the subscriber
\* refused included.  The one way out is a refusal for an owner's state that no
\* abort follows (a removal's or a refresh's, or one after the driver has
\* given the transaction up); StrandedIsFenced is about that one.
NeverStranded == Quiescent /\ ~d_refused => ~d_paused /\ d_pending = NoTransaction

\* docs/live-runtime-cache-actor.md:138: "Before publication, failure aborts the
\* subscriber stage. After actor mutation, an impossible or disconnected
\* acknowledgement fences the runtime as `Untrusted`".  So a driver that is left
\* paused belongs to a runtime that has lost its trust.
StrandedIsFenced == Quiescent /\ trusted => ~d_paused

\* Every handler of the actor returns: neither side waits for the other for ever,
\* although the driver's batch is answered by an actor that itself waits for
\* the driver.
HandshakeCompletes == (frames # <<>>) ~> (frames = <<>>)

\* The driver does not wait for the answer to a preview for ever.
PreviewsAnswered == []<>(d_work.kind # "preconfirmation")

\* A preview that is queued behind the handler that waits for the driver is the
\* only thing that keeps a handler of the actor from returning.
HandshakeWithoutPreview == PreviewsAnswered => HandshakeCompletes

\* A pool whose registration a published block orphaned is removed, or, when
\* the removal is refused inside ingest, the failure costs the runtime its trust:
\* a trusted runtime does not go on serving it.
OrphansRemoved ==
  PreviewsAnswered =>
    \A p \in Pool :
      (\E d \in 1..Len(frames) : p \in frames[d].orphans /\ p \in pools)
        ~> (p \notin pools \/ ~trusted)

=============================================================================
