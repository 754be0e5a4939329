---------------------------- MODULE Publication ----------------------------
(***************************************************************************)
(* What the runtime actor publishes and to whom: versioned snapshots, the   *)
(* reliable commit channel with its bounded capacity, the lossy observer    *)
(* channel, the status, and the disposable preview built on speculative     *)
(* cache contents.                                                          *)
(*                                                                          *)
(* The actor runs one handler at a time.  A handler that changes topology   *)
(* waits at the subscriber fence (or drains ready canonical input), where   *)
(* blocks are ingested inside it, and a block may start the removal of an   *)
(* orphaned pool inside its own handler: `stack' holds the suspended        *)
(* handlers, the running one last.                                          *)
(***************************************************************************)
EXTENDS Naturals, Sequences, SequencesExt

CONSTANTS Capacity,          \* critical_change_capacity
          ObserverCapacity,  \* observer_capacity
          MaxVersion,        \* bound: commits
          MaxSequence,       \* bound: observer events
          MaxDepth           \* bound: nested handlers

VARIABLES version, point, revision, sequence, health, trusted,
          stack,        \* suspended handlers, the running one last
          speculative,  \* the cache holds the updates of a preview
          preview,      \* the published preview: at most one
          snapshot,     \* the latest published snapshot
          persisted,    \* what flush_persistent_cache wrote: was it speculative
          critical,     \* the commit channel and its consumer
          ring, sent,   \* the observer channel: retained events, events ever sent
          observer,     \* one observer: events taken or skipped, last sequence seen
          shutdown,     \* requested, and not yet seen by changed(); requested; no
          exited
vars == <<version, point, revision, sequence, health, trusted, stack, speculative, preview,
          snapshot, persisted, critical, ring, sent, observer, shutdown, exited>>

published == <<version, point, revision, snapshot, critical>>
observed  == <<sequence, ring, sent>>
outside   == <<persisted, observer, shutdown, exited>>

Idle == stack = <<>> /\ ~exited
\* The loop takes the next input: no shutdown, and within the bounds.
Ready == Idle /\ shutdown = "no" /\ sequence < MaxSequence

\* What a snapshot says of itself, and a preview of the state it is built on.
AmmStateSnapshot(v, p, r, spec) == [version |-> v, point |-> p, revision |-> r, speculative |-> spec]
AmmPreconfirmedSnapshot(v, p, r) == [version |-> v, point |-> p, revision |-> r]

\* AmmRuntime::spawn
Init ==
  /\ version = 0 /\ point = 0 /\ revision = 0 /\ sequence = 0
  /\ health = "Healthy" /\ trusted = TRUE /\ stack = <<>>
  /\ speculative = FALSE /\ preview = {}
  /\ snapshot = AmmStateSnapshot(0, 0, 0, FALSE)
  /\ persisted = FALSE
  /\ critical = [registered |-> FALSE, open |-> FALSE, queue |-> <<>>, last |-> 0]
  /\ ring = <<>> /\ sent = 0 /\ observer = [taken |-> 0, last |-> 0, skipped |-> 0]
  /\ shutdown = "no" /\ exited = FALSE

-----------------------------------------------------------------------------
(* Pieces the handlers are made of.                                         *)

\* next_event_sequence: the sequence of the first of n events.
next_event_sequence == sequence + 1
next_commit_identity == [version |-> version + 1, first |-> next_event_sequence]

\* n events numbered from `first': status and observers.
Send(first, n) ==
  /\ sequence' = first + n - 1
  /\ ring' = LET all == ring \o [i \in 1..n |-> first + i - 1]
             IN  SubSeq(all, Max({1, Len(all) - ObserverCapacity + 1}), Len(all))
  /\ sent' = sent + n

\* publish_runtime_events, publish_live_transitions
publish_runtime_events(n) == Send(next_event_sequence, n)

DiscardPreview == speculative' = FALSE /\ preview' = {}

\* mark_untrusted, from a handler that ends.
mark_untrusted ==
  /\ DiscardPreview /\ trusted' = FALSE
  /\ IF health = "Untrusted" THEN UNCHANGED <<health, observed>>
     ELSE health' = "Untrusted" /\ publish_runtime_events(1)

\* publish_commit and publish_commit_status, with the identity the handler took.
publish_commit(id, p, r, permit, n) ==
  /\ version' = id.version /\ point' = p /\ revision' = r
  /\ snapshot' = AmmStateSnapshot(id.version, p, r, speculative)
  /\ critical' = IF permit THEN [critical EXCEPT !.queue = Append(@, id.version)] ELSE critical
  /\ \E h \in {"Healthy", "Degraded"} : health' = h
  /\ Send(id.first, n)

Top == Last(stack)
Pop == stack' = Front(stack)
Handler(op, pc, id) == [op |-> op, pc |-> pc, id |-> id]
At(pc, id) == [stack EXCEPT ![Len(stack)] = Handler(@.op, pc, id)]
Enter(frames, op, pc) ==
  /\ Len(stack) < MaxDepth
  /\ stack' = Append(frames, Handler(op, pc, next_commit_identity))

\* reserve_critical, its three outcomes.
Permit   == critical.registered /\ critical.open /\ Len(critical.queue) < Capacity
NoPermit == ~critical.registered \/ ~critical.open
Unregister == critical' = IF critical.registered /\ ~critical.open
                          THEN [critical EXCEPT !.registered = FALSE] ELSE critical
Closed   == critical.registered /\ shutdown = "unseen" /\ shutdown' = "seen"

-----------------------------------------------------------------------------
(* Control commands.  handle_control discards the preview before every      *)
(* command that may commit state or write the cache out.                    *)

Discarding == {"topology", "refresh", "adapter", "patch", "flush", "fail", "attach"}
Command == Discarding \cup {"queue", "invalidate"}

\* Mutant: a slot patch is taken for a command that changes no topology.
handle_control_of_topology(c) ==
  IF c \in Discarding \ {"patch"} THEN DiscardPreview ELSE UNCHANGED <<speculative, preview>>

handle_control(c) ==
  IF c \in Discarding \cup {"invalidate"} THEN DiscardPreview
  ELSE UNCHANGED <<speculative, preview>>

\* Install, remove, watcher, cascade and refresh wait at the fence; the
\* adapter commands drain canonical input first; a slot patch does neither
\* and does not ask for trust.
BeginCommit(c) ==
  /\ Ready /\ version < MaxVersion
  /\ \/ c \in {"topology", "refresh", "adapter"} /\ Enter(stack, c, "fence") /\ trusted
     \/ c = "patch" /\ Enter(stack, c, "reserve")
  /\ handle_control(c)
  /\ UNCHANGED <<published, observed, health, trusted, outside>>

\* Work queued, started, progressed, failed or cancelled, a subscriber
\* attached, a preview invalidated: events only.
ReportEvents(c) ==
  /\ Ready /\ c \in {"fail", "attach", "queue", "invalidate"}
  /\ handle_control(c)
  /\ IF c = "invalidate" THEN UNCHANGED observed ELSE publish_runtime_events(1)
  /\ UNCHANGED <<published, health, trusted, stack, outside>>

\* FlushPersistentCache
flush_persistent_cache ==
  /\ Ready /\ handle_control("flush")
  /\ persisted' = (persisted \/ speculative')
  /\ UNCHANGED <<published, observed, health, trusted, stack, observer, shutdown, exited>>

\* ReportSubscriberFailure
report_subscriber_failure ==
  /\ Ready /\ mark_untrusted
  /\ UNCHANGED <<published, stack, outside>>

reject_preconfirmation == DiscardPreview /\ publish_runtime_events(1)

\* ingest_preconfirmation: a batch that does not validate leaves everything;
\* one that fails leaves no preview; one the runtime may not show is reported.
ingest_preconfirmation ==
  /\ Ready /\ trusted
  /\ \/ /\ speculative' = TRUE
        /\ preview' = {AmmPreconfirmedSnapshot(version, point, revision)}
        /\ UNCHANGED observed
     \/ DiscardPreview /\ UNCHANGED observed
     \/ reject_preconfirmation
  /\ UNCHANGED <<published, health, trusted, stack, outside>>

\* subscribe_changes: one consumer, from the snapshot published last.
subscribe_changes ==
  /\ Ready /\ ~(critical.registered /\ critical.open)
  /\ critical' = [registered |-> TRUE, open |-> TRUE, queue |-> <<>>, last |-> snapshot.version]
  /\ UNCHANGED <<version, point, revision, snapshot, observed, health, trusted, stack,
                 speculative, preview, outside>>

-----------------------------------------------------------------------------
(* Canonical blocks.                                                        *)

\* ingest up to its reservation: from the loop, or inside a waiting handler.
begin_ingest ==
  /\ ~exited /\ trusted /\ version < MaxVersion
  /\ \/ Ready
     \/ stack # <<>> /\ Top.pc = "fence" /\ sequence < MaxSequence
  /\ Enter(stack, "ingest", "reserve") /\ DiscardPreview
  /\ UNCHANGED <<published, observed, health, trusted, outside>>

\* ingest after its reservation: a commit, perhaps with incidents, and then
\* perhaps the removal of a pool the reorganisation orphaned.
ingest_commits(permit) ==
  \E n \in 1..2 :
    /\ publish_commit(next_commit_identity, point + 1, revision, permit, n)
    /\ \/ Pop
       \/ stack' = At("removing", Top.id)
    /\ UNCHANGED <<trusted, speculative, preview, outside>>

\* The orphan's removal is a handler of its own inside ingest.
remove_orphan ==
  /\ stack # <<>> /\ Top.pc = "removing"
  /\ \/ trusted /\ version < MaxVersion /\ Enter(At("removed", Top.id), "topology", "fence")
     \/ Pop
  /\ UNCHANGED <<published, observed, health, trusted, speculative, preview, outside>>
end_ingest ==
  /\ stack # <<>> /\ Top.pc = "removed" /\ Pop
  /\ UNCHANGED <<published, observed, health, trusted, speculative, preview, outside>>

-----------------------------------------------------------------------------
(* The rest of a commit handler.                                            *)

\* Mutant: the identity taken before the fence is used after it.
take_preflight_identity == stack' = At("reserve", Top.id)

\* After the fence the identity is taken again: blocks may have been committed.
take_identity == stack' = At("reserve", next_commit_identity)

\* await_subscriber_fence ends: acknowledged, refused, or shut down.
pass_fence ==
  /\ stack # <<>> /\ Top.pc = "fence"
  /\ \/ trusted /\ take_identity /\ UNCHANGED shutdown
     \/ Pop /\ UNCHANGED shutdown
     \/ Pop /\ shutdown = "unseen" /\ shutdown' = "seen"
  /\ UNCHANGED <<published, observed, health, trusted, speculative, preview, persisted,
                 observer, exited>>

commit_revision == IF Top.op = "topology" THEN {revision + 1}
                   ELSE IF Top.op = "refresh" THEN {revision, revision + 1} ELSE {revision}

\* What follows a granted (or unnecessary) reservation.
after_reservation(permit) ==
  \/ /\ Top.op = "ingest" /\ ingest_commits(permit)
  \/ /\ Top.op # "ingest"
     /\ \E r \in commit_revision : publish_commit(Top.id, point, r, permit, 1)
      /\ Pop /\ UNCHANGED <<trusted, speculative, preview, outside>>
  \/ /\ Pop /\ mark_untrusted       \* the engine failed after the point of no return
     /\ Unregister /\ UNCHANGED <<version, point, revision, snapshot, outside>>
  \/ /\ Top.op # "ingest"           \* refused before anything changed
     /\ Pop /\ Unregister
     /\ UNCHANGED <<version, point, revision, snapshot, observed, health, trusted,
                    speculative, preview, outside>>

\* Mutant: the reservation does not listen to the shutdown.
reserve_without_shutdown ==
  /\ stack # <<>> /\ Top.pc = "reserve"
  /\ (Permit \/ NoPermit) /\ after_reservation(Permit)

\* reserve_critical and what the handler does with its answer.
reserve_critical ==
  /\ stack # <<>> /\ Top.pc = "reserve"
  /\ \/ (Permit \/ NoPermit) /\ after_reservation(Permit)
     \/ /\ Closed /\ Pop
        /\ UNCHANGED <<published, observed, health, trusted, speculative, preview, persisted,
                       observer, exited>>

-----------------------------------------------------------------------------
(* The consumer, the observer and shutdown.                                 *)

\* AmmChangeSubscription::next_commit
next_commit ==
  /\ critical.open /\ critical.queue # <<>>
  /\ critical' = [critical EXCEPT !.queue = Tail(@), !.last = Head(critical.queue)]
  /\ UNCHANGED <<version, point, revision, snapshot, observed, health, trusted, stack,
                 speculative, preview, outside>>

drop_subscription ==
  /\ critical.open
  /\ critical' = [critical EXCEPT !.open = FALSE, !.queue = <<>>]
  /\ UNCHANGED <<version, point, revision, snapshot, observed, health, trusted, stack,
                 speculative, preview, outside>>

\* AmmObserver::next_event: the lag is told before the next retained event.
next_event ==
  /\ observer.taken < sent
  /\ LET oldest == sent - Len(ring) IN
     observer' = IF observer.taken < oldest
                 THEN [observer EXCEPT !.taken = oldest, !.skipped = @ + oldest - observer.taken]
                 ELSE [taken |-> observer.taken + 1, skipped |-> 0,
                       last |-> ring[observer.taken + 1 - oldest]]
  /\ UNCHANGED <<published, observed, health, trusted, stack, speculative, preview, persisted,
                 shutdown, exited>>

\* AmmRuntimeHandle::shutdown, which then waits for `exited'.
request_shutdown ==
  /\ shutdown = "no" /\ shutdown' = "unseen"
  /\ UNCHANGED <<published, observed, health, trusted, stack, speculative, preview, persisted,
                 observer, exited>>

\* The loop sees the request between two inputs: publish_shutting_down.
stop ==
  /\ Idle /\ shutdown # "no" /\ DiscardPreview
  /\ Send(next_event_sequence, 1)
  /\ health' = "ShuttingDown" /\ exited' = TRUE
  /\ UNCHANGED <<published, trusted, stack, persisted, observer, shutdown>>

Controls ==
  \/ \E c \in Command : BeginCommit(c) \/ ReportEvents(c)
  \/ flush_persistent_cache \/ report_subscriber_failure \/ ingest_preconfirmation
  \/ subscribe_changes

Handlers == remove_orphan \/ end_ingest \/ pass_fence \/ reserve_critical \/ stop
Next == Controls \/ begin_ingest \/ Handlers \/ next_commit \/ drop_subscription
        \/ next_event \/ request_shutdown
Spec == Init /\ [][Next]_vars

\* A handler that can go on does: the actor's task is scheduled by tokio.  The
\* consumer and the observer are callers and owe nothing.
Fairness == WF_vars(Handlers)

-----------------------------------------------------------------------------
(* The consumer of commits misses nothing: the versions waiting for it are  *)
(* exactly those after the last one it took (or after the snapshot it       *)
(* subscribed with), up to the version of the runtime.  A handler that used *)
(* an identity from before its fence would publish a version twice.         *)
ConsumerMissesNothing ==
  critical.registered /\ critical.open =>
    critical.queue = [i \in 1..(version - critical.last) |-> critical.last + i]

(* A preview is anchored to the state published now and lives only in the   *)
(* preview channel: no snapshot and no persisted cache carries speculative  *)
(* contents, and no preview outlives the commit, the loss of trust or the   *)
(* end of the runtime it was built on.                                      *)
PreviewIsolated ==
  /\ ~snapshot.speculative /\ ~persisted
  /\ \A p \in preview : /\ p = AmmPreconfirmedSnapshot(version, point, revision)
                        /\ trusted /\ ~exited /\ stack = <<>>

(* What an observer is told of its lag is exact: the event it takes follows *)
(* the last one it took by one and the skipped count, so sequence numbers   *)
(* are neither reused nor left out whichever handler sent them.             *)
LagIsExact ==
  [][observer'.last # observer.last =>
       observer'.last = observer.last + 1 + observer.skipped]_vars

(* A shutdown requested while the actor is idle, or while one command waits *)
(* for capacity, is carried out whatever the consumer of commits does.      *)
ShutdownReleases ==
  /\ shutdown = "unseen" /\ Len(stack) <= 1
  /\ stack # <<>> => Top.pc = "reserve" /\ Top.op # "ingest"
  ~> exited

(* Every shutdown is carried out: "Promptly stop the actor and release      *)
(* tasks waiting on bounded capacity."                                      *)
ShutdownPrompt == shutdown = "unseen" ~> exited
=============================================================================
