-------------------------- MODULE CanonicalAssembly --------------------------
(***************************************************************************)
(* How the Alloy subscriber driver (src/adapters/subscriber_driver.rs)     *)
(* turns two independent subscriptions, newHeads and logs, into the        *)
(* ordered sequence of canonical block batches the runtime actor ingests.  *)
(*                                                                         *)
(* A block becomes a batch in one of two ways:                             *)
(*   seal       the logs the subscription delivered, when a proof says the *)
(*              buffered set is complete (a later block was seen on the    *)
(*              only log stream, or the header's bloom excludes every      *)
(*              registered interest);                                      *)
(*   reconcile  an eth_getLogs pinned to the block hash.                   *)
(*                                                                         *)
(* The node, the transport and the subscriber library are external: they   *)
(* are the actions SwitchHead, and the contents of headers, log_stream and *)
(* the coverage attestation a batch carries.  The driver's reads never     *)
(* overlap its deliveries, so a delivery is a sequence of driver steps     *)
(* between two reads.                                                      *)
(***************************************************************************)
EXTENDS Integers, Sequences, FiniteSets, Functions, FiniteSetsExt, SequencesExt

CONSTANTS
  Block,            \* block hashes of the block tree the node explores
  Genesis,          \* the block the runtime is constructed at
  Parent,           \* Parent[b]: parent hash of b; Parent[Genesis] = Genesis
  Number,           \* Number[b]: height of b
  Chain,            \* Chain[b]: the blocks from the genesis to b, in order
  Stream,           \* log interests, each its own log subscription
  Log,              \* logs of the tree that match some interest
  LogBlock,         \* LogBlock[l]: the block whose receipts hold l
  LogStream,        \* LogStream[l]: the interest l matches
  BloomAdmits,      \* <<b, s>>: the bloom of b does not exclude interest s
  Source,           \* CanonicalLogSource: "Subscription" or "Reconcile"
  InitialInterests, \* interests registered when the driver starts
  Removable,        \* interests a topology commit may remove
  Retained,         \* RETAINED_CANONICAL_LINEAGE
  RacingReorgs,     \* may the node replace blocks still in flight
  SkipsHeaders,     \* may newHeads skip blocks below the new head
  MaxSwitches,      \* bound: movements of the node's head
  MaxHeaders,       \* bound: headers in flight
  MaxBatch,         \* bound: records of one kind in one subscriber batch
  MaxLost,          \* bound: log notifications the transport loses
  MaxTopology       \* bound: topology commits in a behaviour

None == -1

ASSUME TreeAssumption ==
  /\ Genesis \in Block
  /\ Parent \in [Block -> Block]
  /\ Number \in [Block -> Nat]
  /\ Parent[Genesis] = Genesis
  /\ Chain \in [Block -> Seq(Block)]
  /\ Chain[Genesis] = <<Genesis>>
  /\ \A b \in Block \ {Genesis} :
       /\ Number[b] = Number[Parent[b]] + 1
       /\ Number[b] > Number[Genesis]
       /\ Chain[b] = Append(Chain[Parent[b]], b)

ASSUME LogAssumption ==
  /\ LogBlock \in [Log -> Block \ {Genesis}]
  /\ LogStream \in [Log -> Stream]
  /\ \A b \in Block : IsFiniteSet({l \in Log : LogBlock[l] = b})
  \* A bloom has false positives and no false negatives.
  /\ \A l \in Log : <<LogBlock[l], LogStream[l]>> \in BloomAdmits

ASSUME ConfigAssumption ==
  /\ Source \in {"Subscription", "Reconcile"}
  /\ IsFiniteSet(Stream)
  /\ InitialInterests \subseteq Stream
  /\ Removable \subseteq Stream
  /\ Retained \in Nat \ {0}
  /\ {MaxSwitches, MaxHeaders, MaxBatch, MaxLost, MaxTopology} \subseteq Nat
  /\ {RacingReorgs, SkipsHeaders} \subseteq BOOLEAN

VARIABLES
  \* External: the node and the transport.
  node_head,        \* head of the node's canonical chain
  switches,         \* movements of node_head so far
  headers,          \* newHeads notifications not yet read
  log_stream,       \* log_stream[s]: log notifications of interest s not yet read
  lost,             \* log notifications the transport dropped
  topology,         \* topology commits so far
  \* The driver.
  interests,              \* log interests the subscriber has registered
  attested_log_coverage,  \* highest attested block number, or None
  highest_observed_block, \* highest block number seen on a log, or None
  buffered_logs,          \* logs delivered and not yet sealed
  pending_headers,        \* block number -> header waiting for a proof
  grace_elapsed,          \* pending numbers whose straggler window is over
  canonical_lineage,      \* block number -> hash of a delivered block
  batch_headers,          \* Reconcile mode: headers of the batch being handled
  delivery,               \* deliver_through_sealed in progress
  control,                \* where the driver is
  \* The runtime actor, as the driver sees it.
  point,            \* the block of the latest published snapshot
  batches,          \* every batch the runtime accepted (history)
  discarded         \* the logs a reset threw away unsealed (history)

external == <<node_head, switches, headers, log_stream, lost, topology, interests>>
assembly == <<attested_log_coverage, highest_observed_block, buffered_logs,
              pending_headers, grace_elapsed, discarded>>
vars == <<external, assembly, canonical_lineage, batch_headers, delivery,
          control, point, batches>>

-----------------------------------------------------------------------------
(* The block tree. *)

OnChain(a, b) == a \in Range(Chain[b])

logs_of(b, registered) ==
  {l \in Log : LogBlock[l] = b /\ LogStream[l] \in registered}

\* Blocks that become canonical when the head moves from one block to another.
NewlyCanonical(from, to) ==
  SubSeq(Chain[to], 1 + Cardinality(Range(Chain[from]) \cap Range(Chain[to])),
         Len(Chain[to]))

\* Notifications of interest s for the blocks of a sequence, in block order.
Notifications(bs, s, dropped) ==
  FlattenSeq([i \in 1..Len(bs) |->
                SetToSeq({l \in logs_of(bs[i], {s}) : l \notin dropped})])

-----------------------------------------------------------------------------
NoDelivery == [lineage |-> <<>>, straight_line |-> FALSE, sealable |-> FALSE]

Init ==
  /\ node_head = Genesis
  /\ switches = 0
  /\ headers = <<>>
  /\ log_stream = [s \in Stream |-> <<>>]
  /\ lost = {}
  /\ topology = 0
  /\ interests = InitialInterests
  /\ attested_log_coverage = None
  /\ highest_observed_block = None
  /\ buffered_logs = {}
  /\ pending_headers = << >>
  /\ grace_elapsed = {}
  /\ canonical_lineage = [n \in {Number[Genesis]} |-> Genesis]
  /\ batch_headers = <<>>
  /\ delivery = NoDelivery
  /\ control = "idle"
  /\ point = Genesis
  /\ batches = {}
  /\ discarded = {}

-----------------------------------------------------------------------------
(* External: the node moves its head and notifies both subscriptions. *)

\* Everything announced so far has been read and delivered.
Quiet ==
  /\ control = "idle"
  /\ headers = <<>>
  /\ \A s \in Stream : log_stream[s] = <<>>
  /\ DOMAIN pending_headers = {}
  /\ point = node_head

SwitchHead(b) ==
  /\ b # node_head
  /\ Number[b] >= Number[node_head]
  /\ switches < MaxSwitches
  /\ OnChain(node_head, b) \/ RacingReorgs \/ Quiet
  /\ LET new == NewlyCanonical(node_head, b)
         sent == {l \in Log : LogBlock[l] \in Range(new) /\ LogStream[l] \in interests}
     IN \E dropped \in SUBSET sent,
           first \in 1..(IF SkipsHeaders THEN Len(new) ELSE 1) :
          /\ Len(headers) + Len(new) <= MaxHeaders
          /\ Cardinality(lost \cup dropped) <= MaxLost
          /\ lost' = lost \cup dropped
          /\ headers' = headers \o SubSeq(new, first, Len(new))
          /\ log_stream' = [s \in Stream |->
               IF s \in interests
               THEN log_stream[s] \o Notifications(new, s, dropped)
               ELSE log_stream[s]]
  /\ node_head' = b
  /\ switches' = switches + 1
  /\ UNCHANGED <<topology, interests, assembly, canonical_lineage, batch_headers,
                 delivery, control, point, batches>>

\* Blocks whose coverage the subscriber may attest: canonical at the node, with
\* no notification lost at or below them.  Logs may still be in flight.
Attestable == {b \in Range(Chain[node_head]) :
                 \A l \in lost : ~OnChain(LogBlock[l], b)}

-----------------------------------------------------------------------------
(* handle_batch: read one batch of the subscriber. *)

note_log_coverage(covered) ==
  IF covered = None \/ covered <= attested_log_coverage
  THEN attested_log_coverage ELSE covered

note_observed_block(logs) ==
  Max({highest_observed_block} \cup {Number[LogBlock[l]] : l \in logs})

\* Insert headers in their order: a later header of one height replaces an
\* earlier one and restarts its straggler window.
insert_pending(hs) ==
  LET numbers == {Number[h] : h \in Range(hs)}
      last(n) == hs[Max({i \in 1..Len(hs) : Number[hs[i]] = n})]
  IN [n \in DOMAIN pending_headers \cup numbers |->
        IF n \in numbers THEN last(n) ELSE pending_headers[n]]

handle_batch(nh, nl, covered) ==
  /\ control = "idle"
  /\ LET hs == SubSeq(headers, 1, nh)
         logs == UNION {Range(SubSeq(log_stream[s], 1, nl[s])) : s \in Stream}
     IN /\ hs # <<>> \/ logs # {} \/ covered # None
        /\ headers' = SubSeq(headers, nh + 1, Len(headers))
        /\ log_stream' = [s \in Stream |->
                           SubSeq(log_stream[s], nl[s] + 1, Len(log_stream[s]))]
        /\ attested_log_coverage' = note_log_coverage(covered)
        /\ IF Source = "Subscription"
           THEN /\ buffered_logs' = buffered_logs \cup logs
                /\ highest_observed_block' = note_observed_block(logs)
                /\ pending_headers' = insert_pending(hs)
                /\ grace_elapsed' = grace_elapsed \ {Number[h] : h \in Range(hs)}
                /\ UNCHANGED batch_headers
           ELSE /\ batch_headers' = hs
                /\ UNCHANGED <<buffered_logs, highest_observed_block,
                               pending_headers, grace_elapsed>>
  /\ control' = "drain"
  /\ UNCHANGED <<node_head, switches, lost, topology, interests,
                 canonical_lineage, delivery, point, batches, discarded>>

\* A batch holds a prefix of each stream and possibly an attestation that
\* advances the watermark (one that does not is a no-op).
ReadBatch ==
  \E nh \in 0..Min({MaxBatch, Len(headers)}) :
  \E nl \in [Stream -> 0..MaxBatch] :
  \E covered \in {None} \cup {Number[b] : b \in Attestable} :
    /\ \A s \in Stream : nl[s] <= Len(log_stream[s])
    /\ covered = None \/ covered > attested_log_coverage
    /\ handle_batch(nh, nl, covered)

\* The straggler window of a pending block ends: run_inner wakes to drain, or
\* the drain under way finds it over.
seal_deadline(n) ==
  /\ control \in {"idle", "drain"}
  /\ n \in DOMAIN pending_headers \ grace_elapsed
  /\ grace_elapsed' = grace_elapsed \cup {n}
  /\ control' = "drain"
  /\ UNCHANGED <<external, attested_log_coverage, highest_observed_block,
                 buffered_logs, pending_headers, discarded, canonical_lineage,
                 batch_headers, delivery, point, batches>>

-----------------------------------------------------------------------------
(* drain_sealable and deliver_through_sealed. *)

bloom_excludes_every_interest(h) ==
  \A s \in interests : <<h, s>> \notin BloomAdmits

\* Mutant: several log streams share one watermark.
any_log_interest == interests # {}

single_log_interest == Cardinality(interests) = 1

\* Mutant: a successor observation alone closes a block.
seal_without_attestation(h) ==
  /\ Source = "Subscription"
  /\ highest_observed_block > Number[h] \/ bloom_excludes_every_interest(h)

\* subscription_seal_reason: the proofs that the buffered logs of h are all of
\* them.
subscription_seal_reason(h) ==
  /\ Source = "Subscription"
  /\ attested_log_coverage >= Number[h]
  /\ \/ single_log_interest /\ highest_observed_block > Number[h]
     \/ bloom_excludes_every_interest(h)

\* Is b the delivered block at its height?
in_lineage(b) ==
  /\ Number[b] \in DOMAIN canonical_lineage
  /\ canonical_lineage[Number[b]] = b

oldest_retained == Min(DOMAIN canonical_lineage)

straight_line(h) == Number[h] = Number[point] + 1 /\ Parent[h] = point

reset_subscription_assembly ==
  /\ buffered_logs' = {}
  /\ discarded' = discarded \cup buffered_logs
  /\ pending_headers' = << >>
  /\ grace_elapsed' = {}
  /\ attested_log_coverage' = None
  /\ highest_observed_block' = None

\* Mutant: deliver the header alone, without the walk to its known ancestor.
deliver_without_ancestors(h, sealable) ==
  IF h = point
  THEN UNCHANGED <<delivery, control>>
  ELSE /\ delivery' = [lineage |-> <<h>>,
                       straight_line |-> straight_line(h),
                       sealable |-> sealable]
       /\ control' = "deliver"

\* deliver_through_sealed for header h: nothing to do at the published point,
\* otherwise start the parent walk.
deliver_through_sealed(h, sealable) ==
  IF h = point
  THEN UNCHANGED <<delivery, control>>
  ELSE /\ delivery' = [lineage |-> <<h>>,
                       straight_line |-> straight_line(h),
                       sealable |-> sealable]
       /\ control' = "walk"

\* delivery_lineage: one iteration of the walk from the header to the delivered
\* branch, one get_block_by_hash per missing parent.  The walk over, a header
\* that does not extend the published point discards the assembly.
delivery_lineage ==
  /\ control = "walk"
  /\ LET current == Head(delivery.lineage)
         parent == Parent[current]
         walked(lineage) ==
           /\ delivery' = [delivery EXCEPT !.lineage = lineage]
           /\ control' = "deliver"
           /\ IF delivery.straight_line
              THEN UNCHANGED assembly ELSE reset_subscription_assembly
     IN \/ in_lineage(current) /\ walked(Tail(delivery.lineage))
        \/ /\ ~in_lineage(current)
           /\ Number[current] # 0 /\ in_lineage(parent)
           /\ walked(delivery.lineage)
        \/ /\ ~in_lineage(current)
           /\ Number[current] = 0 \/ ~in_lineage(parent)
           /\ IF Number[current] = 0 \/ Number[parent] < oldest_retained
              THEN /\ control' = "failed"   \* ReorgBeyondRetainedLineage
                   /\ UNCHANGED <<assembly, delivery>>
              ELSE /\ delivery' = [delivery EXCEPT !.lineage = <<parent>> \o @]
                   /\ UNCHANGED <<assembly, control>>
  /\ UNCHANGED <<external, canonical_lineage, batch_headers, point, batches>>

\* Mutant: wait for a proof, never for the straggler window.
drain_on_proof_only ==
  /\ control = "drain"
  /\ Source = "Subscription"
  /\ IF DOMAIN pending_headers = {}
     THEN control' = "idle" /\ UNCHANGED <<assembly, delivery>>
     ELSE LET n == Min(DOMAIN pending_headers)
              h == pending_headers[n]
          IN IF ~subscription_seal_reason(h)
             THEN control' = "idle" /\ UNCHANGED <<assembly, delivery>>
             ELSE /\ pending_headers' = Restrict(pending_headers,
                                          DOMAIN pending_headers \ {n})
                  /\ grace_elapsed' = grace_elapsed \ {n}
                  /\ UNCHANGED <<attested_log_coverage, highest_observed_block,
                                 buffered_logs, discarded>>
                  /\ deliver_through_sealed(h, TRUE)
  /\ UNCHANGED <<external, canonical_lineage, batch_headers, point, batches>>

\* One iteration of drain_sealable.
drain_sealable ==
  /\ control = "drain"
  /\ Source = "Subscription"
  /\ IF DOMAIN pending_headers = {}
     THEN control' = "idle" /\ UNCHANGED <<assembly, delivery>>
     ELSE LET n == Min(DOMAIN pending_headers)
              h == pending_headers[n]
              sealable == subscription_seal_reason(h)
          IN IF ~sealable /\ n \notin grace_elapsed
             THEN control' = "idle" /\ UNCHANGED <<assembly, delivery>>
             ELSE /\ pending_headers' = Restrict(pending_headers,
                                          DOMAIN pending_headers \ {n})
                  /\ grace_elapsed' = grace_elapsed \ {n}
                  /\ UNCHANGED <<attested_log_coverage, highest_observed_block,
                                 buffered_logs, discarded>>
                  /\ deliver_through_sealed(h, sealable)
  /\ UNCHANGED <<external, canonical_lineage, batch_headers, point, batches>>

\* headers.sort_by_key(number), a stable sort: the position of the lowest header,
\* and among headers of one height of the first.
lowest_header ==
  LET heights == {Number[batch_headers[i]] : i \in 1..Len(batch_headers)}
  IN Min({i \in 1..Len(batch_headers) : Number[batch_headers[i]] = Min(heights)})

\* Mutant: one header per batch.
first_batch_header_only ==
  /\ control = "drain"
  /\ Source = "Reconcile"
  /\ IF batch_headers = <<>>
     THEN control' = "idle" /\ UNCHANGED <<delivery, batch_headers>>
     ELSE /\ batch_headers' = <<>>
          /\ deliver_through_sealed(batch_headers[lowest_header], FALSE)
  /\ UNCHANGED <<external, assembly, canonical_lineage, point, batches>>

\* Reconcile mode: handle_batch delivers the headers one by one, lowest first.
next_batch_header ==
  /\ control = "drain"
  /\ Source = "Reconcile"
  /\ IF batch_headers = <<>>
     THEN control' = "idle" /\ UNCHANGED <<delivery, batch_headers>>
     ELSE /\ batch_headers' = RemoveAt(batch_headers, lowest_header)
          /\ deliver_through_sealed(batch_headers[lowest_header], FALSE)
  /\ UNCHANGED <<external, assembly, canonical_lineage, point, batches>>

\* Mutant: the replaced branch is kept.
record_over_branch(b) ==
  LET kept == DOMAIN canonical_lineage \cup {Number[b]}
      retained == IF Cardinality(kept) > Retained THEN kept \ {Min(kept)} ELSE kept
  IN [n \in retained |-> IF n = Number[b] THEN b ELSE canonical_lineage[n]]

\* record_canonical_block: forget the replaced branch, drop the oldest block
\* beyond Retained.
record_canonical_block(b) ==
  LET kept == {n \in DOMAIN canonical_lineage : n < Number[b]} \cup {Number[b]}
      retained == IF Cardinality(kept) > Retained THEN kept \ {Min(kept)} ELSE kept
  IN [n \in retained |-> IF n = Number[b] THEN b ELSE canonical_lineage[n]]

\* retire_buffered_logs_through
retire_buffered_logs_through(number, logs) ==
  /\ buffered_logs' = {l \in logs : Number[LogBlock[l]] > number}
  /\ pending_headers' = Restrict(pending_headers,
                                 {n \in DOMAIN pending_headers : n > number})
  /\ grace_elapsed' = {n \in grace_elapsed : n > number}

\* Mutant: every block is built from the subscription's logs.
deliver_buffered_block ==
  /\ control = "deliver"
  /\ delivery.lineage # <<>>
  /\ LET b == Head(delivery.lineage)
         mine == {l \in buffered_logs : LogBlock[l] = b}
     IN /\ batches' = batches \cup
             {[block |-> b, logs |-> mine, sealed |-> TRUE, interests |-> interests]}
        /\ point' = b
        /\ canonical_lineage' = record_canonical_block(b)
        /\ retire_buffered_logs_through(Number[b], buffered_logs \ mine)
  /\ delivery' = [delivery EXCEPT !.lineage = Tail(@)]
  /\ UNCHANGED <<external, attested_log_coverage, highest_observed_block, discarded,
                 batch_headers, control>>

\* One block of a delivery: seal_from_subscription for the last block of a
\* straight line with a proof, reconcile_and_deliver otherwise; the runtime
\* accepts the batch and publishes the block.
deliver_block ==
  /\ control = "deliver"
  /\ delivery.lineage # <<>>
  /\ LET b == Head(delivery.lineage)
         sealed == /\ delivery.straight_line
                   /\ Len(delivery.lineage) = 1
                   /\ delivery.sealable
         mine == {l \in buffered_logs : LogBlock[l] = b}
         logs == IF sealed THEN mine ELSE logs_of(b, interests)
     IN /\ batches' = batches \cup
             {[block |-> b, logs |-> logs, sealed |-> sealed, interests |-> interests]}
        /\ point' = b
        /\ canonical_lineage' = record_canonical_block(b)
        /\ retire_buffered_logs_through(Number[b],
             IF sealed THEN buffered_logs \ mine ELSE buffered_logs)
  /\ delivery' = [delivery EXCEPT !.lineage = Tail(@)]
  /\ UNCHANGED <<external, attested_log_coverage, highest_observed_block, discarded,
                 batch_headers, control>>

finish_delivery ==
  /\ control = "deliver"
  /\ delivery.lineage = <<>>
  /\ delivery' = NoDelivery
  /\ control' = "drain"
  /\ UNCHANGED <<external, assembly, canonical_lineage, batch_headers, point, batches>>

\* A provider request of the parent walk or of the reconciliation fails, or the
\* runtime refuses a batch: the error ends run_inner.
driver_error ==
  /\ control \in {"walk", "deliver"}
  /\ control' = "failed"
  /\ UNCHANGED <<external, assembly, canonical_lineage, batch_headers, delivery,
                 point, batches>>

-----------------------------------------------------------------------------
(* A topology transaction, begun and committed while no delivery is under     *)
(* way.  The assembly state survives it.                                      *)

\* The subscriber replays a new interest from the published point.
commit_add(s) ==
  /\ control = "idle"
  /\ topology < MaxTopology
  /\ s \notin interests
  /\ OnChain(point, node_head)
  /\ topology' = topology + 1
  /\ interests' = interests \cup {s}
  /\ log_stream' = [log_stream EXCEPT ![s] =
                      Notifications(NewlyCanonical(point, node_head), s, {})]
  /\ UNCHANGED <<node_head, switches, headers, lost, assembly, canonical_lineage,
                 batch_headers, delivery, control, point, batches>>

commit_remove(s) ==
  /\ control = "idle"
  /\ topology < MaxTopology
  /\ s \in interests \cap Removable
  /\ topology' = topology + 1
  /\ interests' = interests \ {s}
  /\ log_stream' = [log_stream EXCEPT ![s] = <<>>]
  /\ UNCHANGED <<node_head, switches, headers, lost, assembly, canonical_lineage,
                 batch_headers, delivery, control, point, batches>>

-----------------------------------------------------------------------------
Drain == \/ drain_sealable \/ next_batch_header \/ delivery_lineage
         \/ deliver_block \/ finish_delivery

Next ==
  \/ \E b \in Block : SwitchHead(b)
  \/ ReadBatch
  \/ \E b \in Block : seal_deadline(Number[b])
  \/ drain_sealable
  \/ next_batch_header
  \/ delivery_lineage
  \/ deliver_block
  \/ finish_delivery
  \/ driver_error
  \/ \E s \in Stream : commit_add(s)
  \/ \E s \in Stream : commit_remove(s)

Spec == Init /\ [][Next]_vars

\* tokio keeps polling the driver task: it finishes the drain it started, reads
\* what the subscriber holds, and its timers fire.
Fairness ==
  /\ WF_vars(Drain)
  /\ WF_vars(ReadBatch)
  /\ \A b \in Block : WF_vars(seal_deadline(Number[b]))

FairSpec == Spec /\ Fairness

-----------------------------------------------------------------------------
(* Properties. *)

\* The types of the delivery path.
DeliveryTypeOK ==
  /\ node_head \in Block
  /\ headers \in Seq(Block)
  /\ DOMAIN pending_headers \subseteq Nat
  /\ \A n \in DOMAIN pending_headers : pending_headers[n] \in Block
  /\ batch_headers \in Seq(Block)
  /\ delivery \in [lineage : Seq(Block), straight_line : BOOLEAN, sealable : BOOLEAN]
  /\ control \in {"idle", "drain", "walk", "deliver", "failed"}
  /\ point \in Block

\* Every variable in its range; every pending header under its own number, and
\* an ended straggler window only for a header that is still pending.
TypeOK ==
  /\ DeliveryTypeOK
  /\ switches \in 0..MaxSwitches
  /\ log_stream \in [Stream -> Seq(Log)]
  /\ lost \subseteq Log
  /\ topology \in 0..MaxTopology
  /\ interests \subseteq Stream
  /\ attested_log_coverage \in Nat \cup {None}
  /\ highest_observed_block \in Nat \cup {None}
  /\ buffered_logs \subseteq Log /\ discarded \subseteq Log
  /\ \A n \in DOMAIN pending_headers : Number[pending_headers[n]] = n
  /\ grace_elapsed \subseteq DOMAIN pending_headers
  /\ DOMAIN canonical_lineage \subseteq Nat
  /\ \A n \in DOMAIN canonical_lineage : canonical_lineage[n] \in Block

\* Every batch the runtime accepted carries every log of its block that a
\* registered interest matches, whichever way it was assembled: sealing on a
\* proof of closure never loses a log that reconciliation would have fetched.
SealedComplete ==
  \A r \in batches : logs_of(r.block, r.interests) \subseteq r.logs

\* Where a delivery across a gap or a reorganisation resets the assembly, a sealed
\* batch lacks no other log than one the reset threw away: lost and late
\* notifications, skipped headers and replaced branches by themselves cost none.
SealedUnlessDiscarded ==
  \A r \in batches : logs_of(r.block, r.interests) \ r.logs \subseteq discarded

\* The retained lineage is a parent-linked run of blocks ending at the
\* published point, never longer than RETAINED_CANONICAL_LINEAGE: what
\* delivery_lineage walks back to is always the history of the snapshot.
LineageFollowsPoint ==
  /\ in_lineage(point)
  /\ \A n \in DOMAIN canonical_lineage :
       /\ Number[point] - Retained < n /\ n <= Number[point]
       /\ n # Number[point] =>
            /\ n + 1 \in DOMAIN canonical_lineage
            /\ Parent[canonical_lineage[n + 1]] = canonical_lineage[n]

\* The runtime is only ever handed a child of a block it still retains, and
\* never a block that is already on its branch: no gap and no replay, even
\* when headers arrive late, out of order or in bulk.
NoGapNoReplay ==
  [][point' # point =>
       /\ Parent[point'] \in Range(canonical_lineage)
       /\ point' \notin Range(canonical_lineage)]_vars

\* Once the node stops moving, the published point reaches its head, unless
\* the driver failed: waiting for a proof delays a block, and never withholds it.
Converges == <>[](control = "failed" \/ point = node_head)

=============================================================================
