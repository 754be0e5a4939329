-------------------------- MODULE PublicationProofs --------------------------
(***************************************************************************)
(* ConsumerMissesNothing, PreviewIsolated and LagIsExact for every channel *)
(* capacity, every number of commits and events and every nesting of       *)
(* handlers.                                                               *)
(*                                                                         *)
(* All three rest on one fact about the nested handlers: only the running  *)
(* one may be past its fence, and it holds the identity that is next now   *)
(* (OneCommitter).  A handler below it will take its identity again.       *)
(***************************************************************************)
EXTENDS Publication, SequenceTheorems, TLAPS

Identity == [version : Nat, first : Nat]
Frame == [op : Discarding \cup {"ingest"}, pc : {"fence", "reserve", "removing", "removed"},
          id : Identity]
Channel == [registered : BOOLEAN, open : BOOLEAN, queue : Seq(Nat), last : Nat]

PubTypes ==
  /\ version \in Nat /\ point \in Nat /\ revision \in Nat /\ sequence \in Nat
  /\ stack \in Seq(Frame) /\ critical \in Channel /\ speculative \in BOOLEAN

OneCommitter ==
  \A i \in 1 .. Len(stack) :
    stack[i].pc = "reserve" => i = Len(stack) /\ stack[i].id = next_commit_identity

\* The snapshot is the state of the runtime, and nothing speculative is published.
Published == snapshot = AmmStateSnapshot(version, point, revision, FALSE) /\ persisted = FALSE

\* A preview, and with it the speculative cache, is there between two handlers only.
Anchored ==
  /\ ~speculative => preview = {}
  /\ speculative => /\ preview = {AmmPreconfirmedSnapshot(version, point, revision)}
                    /\ trusted = TRUE /\ exited = FALSE /\ stack = <<>>

Waiting(from, to) == [i \in 1 .. (to - from) |-> from + i]

Gapless ==
  critical.registered /\ critical.open =>
    critical.last <= version /\ critical.queue = Waiting(critical.last, version)

PubInv == PubTypes /\ OneCommitter /\ Published /\ Anchored /\ Gapless

-----------------------------------------------------------------------------
(* The stack of handlers.                                                  *)

LEMMA StackTop ==
  ASSUME PubTypes, stack # <<>>
  PROVE  /\ Len(stack) \in Nat \ {0} /\ Top = stack[Len(stack)] /\ Top \in Frame
         /\ DOMAIN stack = 1 .. Len(stack)
  <1>1. stack \in Seq(Frame) /\ Len(stack) \in Nat \ {0} /\ DOMAIN stack = 1 .. Len(stack)
    BY EmptySeq, LenProperties DEF PubTypes
  <1>2. stack[Len(stack)] \in Frame
    BY <1>1, ElementOfSeq
  <1> QED
    BY <1>1, <1>2 DEF Top, Last

(* The handler that ends was the only one past its fence.                  *)
LEMMA Popped ==
  ASSUME PubTypes, OneCommitter, stack # <<>>, Pop
  PROVE  /\ stack' \in Seq(Frame)
         /\ \A i \in 1 .. Len(stack') : stack'[i].pc # "reserve"
  <1>1. stack \in Seq(Frame) /\ Len(stack) \in Nat \ {0}
    BY StackTop DEF PubTypes
  <1>2. stack' = SubSeq(stack, 1, Len(stack) - 1)
    BY DEF Pop, Front
  <1>3. \A i \in 1 .. Len(stack) - 1 : stack[i] \in Frame
    BY <1>1, ElementOfSeq
  <1> DEFINE n == Len(stack) - 1
  <1>5. n \in Nat /\ 1 \in Int /\ n \in Int /\ \A i \in 1 .. n : stack[i] \in Frame
    BY <1>1, <1>3
  <1> HIDE DEF n
  <1>6. /\ SubSeq(stack, 1, n) \in Seq(Frame)
        /\ Len(SubSeq(stack, 1, n)) = IF 1 <= n THEN n - 1 + 1 ELSE 0
        /\ \A i \in 1 .. n - 1 + 1 : SubSeq(stack, 1, n)[i] = stack[1 + i - 1]
    BY <1>5, SubSeqProperties
  <1>4. /\ stack' \in Seq(Frame) /\ Len(stack') = Len(stack) - 1
        /\ \A i \in 1 .. Len(stack) - 1 : stack'[i] = stack[i]
    <2>1. stack' = SubSeq(stack, 1, n)
      BY <1>2 DEF n
    <2>2. /\ stack' \in Seq(Frame)
          /\ Len(stack') = IF 1 <= n THEN n - 1 + 1 ELSE 0
          /\ \A i \in 1 .. n - 1 + 1 : stack'[i] = stack[1 + i - 1]
      BY <1>6, <2>1
    <2>3. n - 1 + 1 = n /\ \A i \in 1 .. n : 1 + i - 1 = i
      BY <1>5
    <2>4. Len(stack') = n /\ \A i \in 1 .. n : stack'[i] = stack[i]
      BY <1>5, <2>2, <2>3
    <2> QED
      BY <2>2, <2>4 DEF n
  <1> QED
    BY <1>1, <1>4 DEF OneCommitter

(* The running handler goes on; the others stay where they are.            *)
LEMMA Moved ==
  ASSUME PubTypes, OneCommitter, stack # <<>>,
         NEW pc \in {"fence", "reserve", "removing", "removed"}, NEW id \in Identity
  PROVE  /\ At(pc, id) \in Seq(Frame) /\ Len(At(pc, id)) = Len(stack)
         /\ \A i \in 1 .. Len(stack) - 1 : At(pc, id)[i].pc # "reserve"
         /\ At(pc, id)[Len(stack)].pc = pc /\ At(pc, id)[Len(stack)].id = id
  <1> DEFINE frame == Handler(stack[Len(stack)].op, pc, id)
  <1>1. stack \in Seq(Frame) /\ Len(stack) \in 1 .. Len(stack) /\ Len(stack) \in Nat
    BY StackTop DEF PubTypes
  <1>2. frame \in Frame /\ frame.pc = pc /\ frame.id = id
    BY StackTop DEF Handler, Frame
  <1>3. At(pc, id) = [stack EXCEPT ![Len(stack)] = frame]
    BY DEF At
  <1> HIDE DEF frame
  <1>4. /\ At(pc, id) \in Seq(Frame) /\ Len(At(pc, id)) = Len(stack)
        /\ \A i \in 1 .. Len(stack) : At(pc, id)[i] = IF i = Len(stack) THEN frame ELSE stack[i]
    BY <1>1, <1>2, <1>3, ExceptSeq
  <1> QED
    BY <1>1, <1>2, <1>4 DEF OneCommitter

(* A handler is entered inside handlers that are not past their fences.    *)
LEMMA Entered ==
  ASSUME PubTypes, NEW frames \in Seq(Frame), NEW op \in Discarding \cup {"ingest"},
         NEW pc \in {"fence", "reserve"}, Enter(frames, op, pc),
         \A i \in 1 .. Len(frames) : frames[i].pc # "reserve",
         version' = version, sequence' = sequence
  PROVE  stack' \in Seq(Frame) /\ OneCommitter'
  <1> DEFINE frame == Handler(op, pc, next_commit_identity)
  <1>1. frame \in Frame /\ frame.pc = pc /\ frame.id = next_commit_identity
    BY DEF Handler, Frame, Identity, PubTypes, next_commit_identity, next_event_sequence
  <1>2. stack' = Append(frames, frame)
    BY DEF Enter
  <1> HIDE DEF frame
  <1>3. /\ stack' \in Seq(Frame) /\ Len(stack') = Len(frames) + 1 /\ Len(frames) \in Nat
        /\ \A i \in 1 .. Len(frames) : stack'[i] = frames[i]
        /\ stack'[Len(frames) + 1] = frame
    BY <1>1, <1>2, AppendProperties, LenProperties
  <1>4. next_commit_identity' = next_commit_identity
    BY DEF next_commit_identity, next_event_sequence
  <1> QED
    BY <1>1, <1>3, <1>4 DEF OneCommitter

(* Once no handler is past its fence, the identity may move on.            *)
LEMMA NoCommitter ==
  ASSUME \A i \in 1 .. Len(stack') : stack'[i].pc # "reserve"
  PROVE  OneCommitter'
  BY DEF OneCommitter

LEMMA SameStack ==
  ASSUME PubTypes, OneCommitter, UNCHANGED <<stack, version, sequence>>
  PROVE  OneCommitter'
  BY DEF OneCommitter, next_commit_identity, next_event_sequence

-----------------------------------------------------------------------------
(* The commits that wait for the consumer.                                 *)

LEMMA WaitingSeq ==
  ASSUME NEW from \in Nat, NEW to \in Nat, from <= to
  PROVE  /\ Waiting(from, to) \in Seq(Nat) /\ Len(Waiting(from, to)) = to - from
         /\ \A i \in 1 .. (to - from) : Waiting(from, to)[i] = from + i
  BY DEF Waiting

LEMMA NothingWaits ==
  ASSUME NEW from \in Nat
  PROVE  Waiting(from, from) = <<>>
  <1>1. Waiting(from, from) \in Seq(Nat) /\ Len(Waiting(from, from)) = 0
    BY WaitingSeq
  <1> QED
    BY <1>1, EmptySeq

LEMMA WaitingAppend ==
  ASSUME NEW from \in Nat, NEW to \in Nat, from <= to
  PROVE  Append(Waiting(from, to), to + 1) = Waiting(from, to + 1)
  <1> DEFINE s == Append(Waiting(from, to), to + 1)
             t == Waiting(from, to + 1)
  <1>1. /\ Waiting(from, to) \in Seq(Nat) /\ Len(Waiting(from, to)) = to - from
        /\ \A i \in 1 .. (to - from) : Waiting(from, to)[i] = from + i
    BY WaitingSeq
  <1>2. /\ s \in Seq(Nat) /\ Len(s) = to - from + 1 /\ s[to - from + 1] = to + 1
        /\ \A i \in 1 .. (to - from) : s[i] = from + i
    BY <1>1, AppendProperties
  <1>3. /\ t \in Seq(Nat) /\ Len(t) = to - from + 1
        /\ \A i \in 1 .. (to - from + 1) : t[i] = from + i
    BY WaitingSeq
  <1> HIDE DEF s, t
  <1>4. \A i \in 1 .. Len(s) : s[i] = t[i]
    BY <1>2, <1>3
  <1>5. s = t
    BY <1>2, <1>3, <1>4, SeqEqual
  <1> QED
    BY <1>5 DEF s, t

LEMMA WaitingTail ==
  ASSUME NEW from \in Nat, NEW to \in Nat, from <= to, Waiting(from, to) # <<>>
  PROVE  /\ from + 1 <= to /\ Head(Waiting(from, to)) = from + 1
         /\ Tail(Waiting(from, to)) = Waiting(from + 1, to)
  <1> DEFINE w == Waiting(from, to)
             t == Waiting(from + 1, to)
  <1>1. /\ w \in Seq(Nat) /\ Len(w) = to - from
        /\ \A i \in 1 .. (to - from) : w[i] = from + i
    BY WaitingSeq
  <1>2. w # <<>>
    OBVIOUS
  <1> HIDE DEF w
  <1>3. Len(w) \in Nat \ {0}
    BY <1>1, <1>2, EmptySeq
  <1>4. from + 1 <= to
    BY <1>1, <1>3
  <1>5. /\ Head(w) = w[1] /\ Tail(w) \in Seq(Nat) /\ Len(Tail(w)) = Len(w) - 1
        /\ \A i \in 1 .. Len(Tail(w)) : Tail(w)[i] = w[i + 1]
    BY <1>1, <1>2, HeadTailProperties
  <1>6. /\ t \in Seq(Nat) /\ Len(t) = to - (from + 1)
        /\ \A i \in 1 .. (to - (from + 1)) : t[i] = from + 1 + i
    BY <1>4 DEF Waiting
  <1> HIDE DEF t
  <1>7. Len(Tail(w)) = Len(t) /\ \A i \in 1 .. Len(Tail(w)) : Tail(w)[i] = t[i]
    BY <1>1, <1>4, <1>5, <1>6
  <1>8. Tail(w) = t
    BY <1>5, <1>6, <1>7, SeqEqual
  <1> QED
    BY <1>1, <1>4, <1>5, <1>8 DEF w, t

-----------------------------------------------------------------------------
(* What the steps have in common.                                          *)

LEMMA Discarded ==
  ASSUME DiscardPreview
  PROVE  Anchored' /\ speculative' \in BOOLEAN
  BY DEF DiscardPreview, Anchored

LEMMA StillAnchored ==
  ASSUME PubInv, UNCHANGED <<speculative, preview, version, point, revision, trusted, exited>>,
         stack = <<>> => stack' = <<>>
  PROVE  Anchored' /\ speculative' \in BOOLEAN
  BY DEF PubInv, PubTypes, Anchored

(* Inside a handler the cache holds nothing speculative.                   *)
LEMMA NothingSpeculative ==
  ASSUME PubInv, stack # <<>>
  PROVE  speculative = FALSE /\ preview = {}
  BY DEF PubInv, PubTypes, Anchored

(* A step that commits nothing.                                            *)
LEMMA Unpublished ==
  ASSUME PubInv, UNCHANGED <<version, point, revision, snapshot, critical, persisted>>,
         sequence' \in Nat, stack' \in Seq(Frame), OneCommitter', Anchored',
         speculative' \in BOOLEAN
  PROVE  PubInv'
  <1>1. PubTypes'
    BY DEF PubInv, PubTypes
  <1>2. Published' /\ Gapless'
    BY DEF PubInv, Published, Gapless
  <1> QED
    BY <1>1, <1>2 DEF PubInv

LEMMA EventsCounted ==
  ASSUME NEW first \in Nat, NEW n \in {1, 2}, Send(first, n)
  PROVE  sequence' = first + n - 1 /\ sequence' \in Nat
  BY DEF Send

LEMMA RuntimeEvents ==
  ASSUME PubTypes, publish_runtime_events(1)
  PROVE  sequence' \in Nat
  <1>1. sequence + 1 \in Nat /\ Send(sequence + 1, 1)
    BY DEF PubTypes, publish_runtime_events, next_event_sequence
  <1> QED
    BY <1>1, EventsCounted

LEMMA Untrusted ==
  ASSUME PubTypes, mark_untrusted
  PROVE  sequence' \in Nat /\ DiscardPreview
  BY RuntimeEvents DEF mark_untrusted, observed, PubTypes

LEMMA InitPub == Init => PubInv
  <1> SUFFICES ASSUME Init PROVE PubInv
    OBVIOUS
  <1>1. stack = <<>> /\ <<>> \in Seq(Frame) /\ Len(stack) = 0
    BY EmptySeq DEF Init
  <1>2. /\ version = 0 /\ point = 0 /\ revision = 0 /\ sequence = 0 /\ speculative = FALSE
        /\ preview = {} /\ persisted = FALSE /\ snapshot = AmmStateSnapshot(0, 0, 0, FALSE)
    BY DEF Init
  <1>3. critical \in Channel /\ critical.registered = FALSE
    <2>1. <<>> \in Seq(Nat)
      BY EmptySeq
    <2> QED
      BY <2>1 DEF Init, Channel
  <1>4. PubTypes
    BY <1>1, <1>2, <1>3 DEF PubTypes
  <1>5. OneCommitter
    BY <1>1 DEF OneCommitter
  <1>6. Published /\ Anchored /\ Gapless
    BY <1>2, <1>3 DEF Published, Anchored, Gapless
  <1> QED
    BY <1>4, <1>5, <1>6 DEF PubInv

-----------------------------------------------------------------------------
(* The steps.                                                              *)

LEMMA BeginCommitStep ==
  ASSUME PubInv, NEW c \in Command, BeginCommit(c)
  PROVE  PubInv'
  <1>1. stack = <<>> /\ c \in Discarding /\ DiscardPreview
    BY DEF BeginCommit, Ready, Idle, handle_control, Discarding
  <1>2. UNCHANGED <<version, point, revision, snapshot, critical, persisted, sequence>>
    BY DEF BeginCommit, published, observed, outside
  <1>3. PICK pc \in {"fence", "reserve"} : Enter(stack, c, pc)
    BY DEF BeginCommit
  <1>4. stack \in Seq(Frame) /\ \A i \in 1 .. Len(stack) : stack[i].pc # "reserve"
    BY <1>1, EmptySeq DEF PubInv, PubTypes
  <1>5. stack' \in Seq(Frame) /\ OneCommitter'
    BY <1>1, <1>2, <1>3, <1>4, Entered DEF PubInv
  <1> QED
    BY <1>1, <1>2, <1>5, Discarded, Unpublished DEF PubInv, PubTypes

LEMMA ReportStep ==
  ASSUME PubInv, NEW c \in Command, ReportEvents(c)
  PROVE  PubInv'
  <1>1. stack = <<>> /\ UNCHANGED <<version, point, revision, snapshot, critical, persisted, stack,
                                    trusted, exited>>
    BY DEF ReportEvents, Ready, Idle, published, outside
  <1>2. sequence' \in Nat
    BY RuntimeEvents DEF ReportEvents, observed, PubInv, PubTypes
  <1>3. Anchored' /\ speculative' \in BOOLEAN
    BY <1>1, Discarded, StillAnchored DEF ReportEvents, handle_control
  <1>4. stack' \in Seq(Frame) /\ OneCommitter'
    BY <1>1, EmptySeq DEF OneCommitter
  <1> QED
    BY <1>1, <1>2, <1>3, <1>4, Unpublished

LEMMA FlushStep ==
  ASSUME PubInv, flush_persistent_cache
  PROVE  PubInv'
  <1>1. DiscardPreview /\ speculative' = FALSE
    BY DEF flush_persistent_cache, handle_control, Discarding, DiscardPreview
  <1>2. UNCHANGED <<version, point, revision, snapshot, critical, sequence, stack>>
    BY DEF flush_persistent_cache, published, observed
  <1>3. persisted' = persisted
    BY <1>1 DEF flush_persistent_cache, PubInv, Published
  <1>4. stack' \in Seq(Frame) /\ OneCommitter'
    BY <1>2, SameStack DEF PubInv, PubTypes
  <1> QED
    BY <1>1, <1>2, <1>3, <1>4, Discarded, Unpublished DEF PubInv, PubTypes

LEMMA FailureStep ==
  ASSUME PubInv, report_subscriber_failure
  PROVE  PubInv'
  <1>1. stack = <<>> /\ UNCHANGED <<version, point, revision, snapshot, critical, persisted, stack>>
    BY DEF report_subscriber_failure, Ready, Idle, published, outside
  <1>2. sequence' \in Nat /\ DiscardPreview
    BY Untrusted DEF report_subscriber_failure, PubInv
  <1>3. stack' \in Seq(Frame) /\ OneCommitter'
    BY <1>1, EmptySeq DEF OneCommitter
  <1> QED
    BY <1>1, <1>2, <1>3, Discarded, Unpublished

(* A preview is built on the state that is published, and dropped as a     *)
(* whole.                                                                  *)
LEMMA PreconfirmStep ==
  ASSUME PubInv, ingest_preconfirmation
  PROVE  PubInv'
  <1>1. /\ stack = <<>> /\ trusted = TRUE /\ exited = FALSE
        /\ UNCHANGED <<version, point, revision, snapshot, critical, persisted, stack, trusted, exited>>
    BY DEF ingest_preconfirmation, Ready, Idle, published, outside
  <1>2. sequence' \in Nat
    BY RuntimeEvents DEF ingest_preconfirmation, reject_preconfirmation, observed, PubInv, PubTypes
  <1>3. Anchored' /\ speculative' \in BOOLEAN
    <2>1. CASE /\ speculative' = TRUE
               /\ preview' = {AmmPreconfirmedSnapshot(version, point, revision)}
      BY <2>1, <1>1 DEF Anchored
    <2>2. CASE DiscardPreview
      BY <2>2, Discarded
    <2> QED
      BY <2>1, <2>2 DEF ingest_preconfirmation, reject_preconfirmation
  <1>4. stack' \in Seq(Frame) /\ OneCommitter'
    BY <1>1, EmptySeq DEF OneCommitter
  <1> QED
    BY <1>1, <1>2, <1>3, <1>4, Unpublished

(* A consumer starts from the version of the snapshot, which is that of    *)
(* the runtime.                                                            *)
LEMMA SubscribeStep ==
  ASSUME PubInv, subscribe_changes
  PROVE  PubInv'
  <1>1. UNCHANGED <<version, point, revision, snapshot, persisted, sequence, stack, speculative,
                    preview, trusted, exited>>
    BY DEF subscribe_changes, observed, outside
  <1>2. critical' = [registered |-> TRUE, open |-> TRUE, queue |-> <<>>, last |-> version]
    BY DEF subscribe_changes, PubInv, Published, AmmStateSnapshot
  <1>3. version \in Nat /\ <<>> \in Seq(Nat)
    BY EmptySeq DEF PubInv, PubTypes
  <1>4. critical' \in Channel /\ critical'.queue = <<>> /\ critical'.last = version
    BY <1>2, <1>3 DEF Channel
  <1>5. PubTypes'
    BY <1>1, <1>4 DEF PubInv, PubTypes
  <1>6. OneCommitter' /\ Anchored'
    BY <1>1, SameStack, StillAnchored DEF PubInv
  <1>7. Published'
    BY <1>1 DEF PubInv, Published
  <1>8. Gapless'
    BY <1>1, <1>3, <1>4, NothingWaits DEF Gapless
  <1> QED
    BY <1>5, <1>6, <1>7, <1>8 DEF PubInv

LEMMA BeginIngestStep ==
  ASSUME PubInv, begin_ingest
  PROVE  PubInv'
  <1>1. DiscardPreview /\ Enter(stack, "ingest", "reserve")
        /\ UNCHANGED <<version, point, revision, snapshot, critical, persisted, sequence>>
    BY DEF begin_ingest, published, observed, outside
  <1>2. stack \in Seq(Frame) /\ \A i \in 1 .. Len(stack) : stack[i].pc # "reserve"
    <2>1. CASE stack = <<>>
      BY <2>1, EmptySeq DEF PubInv, PubTypes
    <2>2. CASE stack # <<>> /\ Top.pc = "fence"
      BY <2>2, StackTop DEF PubInv, PubTypes, OneCommitter
    <2> QED
      BY <2>1, <2>2 DEF begin_ingest, Ready, Idle
  <1>3. stack' \in Seq(Frame) /\ OneCommitter'
    BY <1>1, <1>2, Entered DEF PubInv
  <1> QED
    BY <1>1, <1>3, Discarded, Unpublished DEF PubInv, PubTypes

(* The ends of handlers that commit nothing, and the orphan's removal.     *)
LEMMA UnwindStep ==
  ASSUME PubInv, remove_orphan \/ end_ingest \/ pass_fence
  PROVE  PubInv'
  <1>1. /\ stack # <<>>
        /\ UNCHANGED <<version, point, revision, snapshot, critical, persisted, sequence,
                       speculative, preview, trusted, exited>>
    BY DEF remove_orphan, end_ingest, pass_fence, published, observed, outside
  <1>2. Anchored' /\ speculative' \in BOOLEAN
    BY <1>1, StillAnchored
  <1>3. PubTypes /\ OneCommitter /\ Top.id \in Identity /\ next_commit_identity \in Identity
    BY <1>1, StackTop
       DEF PubInv, PubTypes, Frame, Identity, next_commit_identity, next_event_sequence
  <1>4. stack' \in Seq(Frame) /\ OneCommitter'
    <2>1. CASE Pop
      BY <2>1, <1>1, <1>3, Popped, NoCommitter
    <2>2. CASE Enter(At("removed", Top.id), "topology", "fence")
      <3> DEFINE frames == At("removed", Top.id)
      <3>1. /\ frames \in Seq(Frame) /\ Len(frames) = Len(stack)
            /\ \A i \in 1 .. Len(stack) - 1 : frames[i].pc # "reserve"
            /\ frames[Len(stack)].pc = "removed"
        BY <1>1, <1>3, Moved
      <3>2. Enter(frames, "topology", "fence") /\ "topology" \in Discarding
        BY <2>2 DEF Discarding
      <3> HIDE DEF frames
      <3>3. \A i \in 1 .. Len(frames) : frames[i].pc # "reserve"
        BY <1>1, <1>3, <3>1, StackTop
      <3> QED
        BY <1>1, <1>3, <3>1, <3>2, <3>3, Entered
    <2>3. CASE take_identity
      <3> DEFINE frames == At("reserve", next_commit_identity)
      <3>1. /\ frames \in Seq(Frame) /\ Len(frames) = Len(stack)
            /\ \A i \in 1 .. Len(stack) - 1 : frames[i].pc # "reserve"
            /\ frames[Len(stack)].id = next_commit_identity
        BY <1>1, <1>3, Moved
      <3>2. stack' = frames
        BY <2>3 DEF take_identity
      <3>3. next_commit_identity' = next_commit_identity
        BY <1>1 DEF next_commit_identity, next_event_sequence
      <3> HIDE DEF frames
      <3> QED
        BY <1>1, <1>3, <3>1, <3>2, <3>3, StackTop DEF OneCommitter
    <2> QED
      BY <2>1, <2>2, <2>3 DEF remove_orphan, end_ingest, pass_fence
  <1> QED
    BY <1>1, <1>2, <1>4, Unpublished DEF PubInv, PubTypes

(* A commit: the next version, to the consumer if there is one, from a     *)
(* cache that holds nothing speculative.                                   *)
LEMMA Committed ==
  ASSUME PubInv, stack # <<>>, Permit \/ NoPermit,
         NEW p \in Nat, NEW r \in Nat, NEW n \in {1, 2},
         publish_commit(next_commit_identity, p, r, Permit, n),
         UNCHANGED <<speculative, preview, persisted>>,
         stack' \in Seq(Frame), \A i \in 1 .. Len(stack') : stack'[i].pc # "reserve"
  PROVE  PubInv'
  <1>1. /\ next_commit_identity.version = version + 1 /\ next_commit_identity.first = sequence + 1
        /\ version \in Nat /\ sequence \in Nat /\ critical \in Channel
    BY DEF next_commit_identity, next_event_sequence, PubInv, PubTypes
  <1>2. /\ version' = version + 1 /\ point' = p /\ revision' = r
        /\ snapshot' = AmmStateSnapshot(version + 1, p, r, speculative)
        /\ Send(sequence + 1, n)
    BY <1>1 DEF publish_commit
  <1>3. sequence' \in Nat
    BY <1>1, <1>2, EventsCounted
  <1>4. speculative = FALSE /\ preview = {}
    BY NothingSpeculative
  <1>5. Published' /\ Anchored'
    BY <1>2, <1>4 DEF PubInv, Published, Anchored
  <1>6. critical' \in Channel /\ Gapless'
    <2>1. CASE Permit
      <3>1. critical' = [critical EXCEPT !.queue = Append(critical.queue, version + 1)]
        BY <1>1, <2>1 DEF publish_commit
      <3>2. critical.queue \in Seq(Nat) /\ critical.last \in Nat
        BY <1>1 DEF Channel
      <3>3. Append(critical.queue, version + 1) \in Seq(Nat)
        BY <1>1, <3>2, AppendProperties
      <3>4. /\ critical'.queue = Append(critical.queue, version + 1)
            /\ critical'.last = critical.last
            /\ critical' \in Channel
        BY <1>1, <3>1, <3>3 DEF Channel
      <3>5. critical.last <= version /\ critical.queue = Waiting(critical.last, version)
        BY <2>1 DEF Permit, PubInv, Gapless
      <3>7. Append(Waiting(critical.last, version), version + 1) = Waiting(critical.last, version + 1)
        BY <1>1, <3>2, <3>5, WaitingAppend
      <3>8. critical.last <= version + 1
        BY <1>1, <3>2, <3>5
      <3>6. critical'.queue = Waiting(critical.last, version + 1) /\ critical.last <= version + 1
        BY <3>4, <3>5, <3>7, <3>8
      <3> QED
        BY <1>2, <3>4, <3>6 DEF Gapless
    <2>2. CASE ~Permit
      <3>1. critical' = critical
        BY <2>2 DEF publish_commit
      <3>2. ~(critical.registered /\ critical.open)
        BY <2>2 DEF NoPermit
      <3> QED
        BY <1>1, <3>1, <3>2 DEF Gapless
    <2> QED
      BY <2>1, <2>2
  <1>8. speculative' \in BOOLEAN
    BY <1>4
  <1>9. version' \in Nat /\ point' \in Nat /\ revision' \in Nat
    BY <1>1, <1>2
  <1>7. PubTypes'
    BY <1>3, <1>6, <1>8, <1>9 DEF PubTypes
  <1> QED
    BY <1>5, <1>6, <1>7, NoCommitter DEF PubInv

(* reserve_critical drops a consumer that has gone.                        *)
LEMMA Unregistered ==
  ASSUME PubInv, Unregister
  PROVE  critical' \in Channel /\ (critical'.registered /\ critical'.open => critical' = critical)
  <1>1. critical \in Channel
    BY DEF PubInv, PubTypes
  <1>2. CASE critical.registered /\ ~critical.open
    <2>1. critical' = [critical EXCEPT !.registered = FALSE]
      BY <1>2 DEF Unregister
    <2>2. critical' \in Channel /\ critical'.registered = FALSE
      BY <1>1, <2>1 DEF Channel
    <2> QED
      BY <2>2
  <1>3. CASE ~(critical.registered /\ ~critical.open)
    BY <1>1, <1>3 DEF Unregister
  <1> QED
    BY <1>2, <1>3

LEMMA Abandoned ==
  ASSUME PubInv, stack # <<>>, Pop, Unregister, sequence' \in Nat, DiscardPreview,
         UNCHANGED <<version, point, revision, snapshot, persisted>>
  PROVE  PubInv'
  <1>1. stack' \in Seq(Frame) /\ OneCommitter'
    BY Popped, NoCommitter DEF PubInv
  <1>2. Anchored' /\ speculative' \in BOOLEAN
    BY Discarded
  <1>3. PubTypes'
    BY <1>1, <1>2, Unregistered DEF PubInv, PubTypes
  <1>4. Published' /\ Gapless'
    BY Unregistered DEF PubInv, Published, Gapless
  <1> QED
    BY <1>1, <1>2, <1>3, <1>4 DEF PubInv

LEMMA ReserveStep ==
  ASSUME PubInv, reserve_critical
  PROVE  PubInv'
  <1>1. stack # <<>> /\ Top.pc = "reserve" /\ PubTypes /\ OneCommitter
    BY DEF reserve_critical, PubInv
  <1>5. Len(stack) \in 1 .. Len(stack) /\ Top = stack[Len(stack)] /\ Top \in Frame
    BY <1>1, StackTop
  <1>6. stack[Len(stack)].pc = "reserve" => stack[Len(stack)].id = next_commit_identity
    BY <1>1, <1>5 DEF OneCommitter
  <1>2. Top.id = next_commit_identity /\ Top.id \in Identity
    BY <1>1, <1>5, <1>6 DEF Frame
  <1>3. CASE (Permit \/ NoPermit) /\ after_reservation(Permit)
    <2>1. CASE Top.op = "ingest" /\ ingest_commits(Permit)
      <3>1. PICK n \in 1 .. 2 :
              /\ publish_commit(next_commit_identity, point + 1, revision, Permit, n)
              /\ Pop \/ stack' = At("removing", Top.id)
              /\ UNCHANGED <<speculative, preview, persisted>>
        BY <2>1 DEF ingest_commits, outside
      <3>2. n \in {1, 2} /\ point + 1 \in Nat /\ revision \in Nat
        BY <1>1 DEF PubTypes
      <3>3. stack' \in Seq(Frame) /\ \A i \in 1 .. Len(stack') : stack'[i].pc # "reserve"
        <4>1. CASE Pop
          BY <4>1, <1>1, Popped
        <4>2. CASE stack' = At("removing", Top.id)
          <5>1. /\ stack' \in Seq(Frame) /\ Len(stack') = Len(stack)
                /\ \A i \in 1 .. Len(stack) - 1 : stack'[i].pc # "reserve"
                /\ stack'[Len(stack)].pc = "removing"
            BY <4>2, <1>1, <1>2, Moved
          <5> QED
            BY <5>1, <1>1, StackTop
        <4> QED
          BY <3>1, <4>1, <4>2
      <3> QED
        BY <1>1, <1>3, <3>1, <3>2, <3>3, Committed
    <2>2. CASE \E r \in commit_revision :
                 /\ publish_commit(Top.id, point, r, Permit, 1) /\ Pop
                 /\ UNCHANGED <<trusted, speculative, preview, outside>>
      <3>1. PICK r \in commit_revision :
              /\ publish_commit(next_commit_identity, point, r, Permit, 1) /\ Pop
              /\ UNCHANGED <<speculative, preview, persisted>>
        BY <1>2, <2>2 DEF outside
      <3>2. r \in Nat /\ point \in Nat
        BY <1>1, <3>1 DEF commit_revision, PubTypes
      <3>3. stack' \in Seq(Frame) /\ \A i \in 1 .. Len(stack') : stack'[i].pc # "reserve"
        BY <1>1, <3>1, Popped
      <3> QED
        BY <1>1, <1>3, <3>1, <3>2, <3>3, Committed
    <2>3. CASE /\ Pop /\ mark_untrusted
               /\ Unregister /\ UNCHANGED <<version, point, revision, snapshot, outside>>
      <3>1. sequence' \in Nat /\ DiscardPreview /\ UNCHANGED persisted
        BY <1>1, <2>3, Untrusted DEF outside
      <3> QED
        BY <1>1, <2>3, <3>1, Abandoned
    <2>4. CASE /\ Pop /\ Unregister
               /\ UNCHANGED <<version, point, revision, snapshot, observed, health, trusted,
                              speculative, preview, outside>>
      <3>1. sequence' \in Nat /\ UNCHANGED persisted
        BY <1>1, <2>4 DEF outside, observed, PubTypes
      <3>2. DiscardPreview
        BY <1>1, <2>4, NothingSpeculative DEF DiscardPreview
      <3> QED
        BY <1>1, <2>4, <3>1, <3>2, Abandoned
    <2> QED
      BY <1>3, <2>1, <2>2, <2>3, <2>4 DEF after_reservation
  <1>4. CASE /\ Closed /\ Pop
             /\ UNCHANGED <<published, observed, health, trusted, speculative, preview, persisted,
                            observer, exited>>
    <2>1. UNCHANGED <<version, point, revision, snapshot, critical, persisted, sequence,
                      speculative, preview, trusted, exited>>
      BY <1>4 DEF published, observed
    <2>2. stack' \in Seq(Frame) /\ OneCommitter'
      BY <1>1, <1>4, Popped, NoCommitter
    <2> QED
      BY <1>1, <2>1, <2>2, StillAnchored, Unpublished DEF PubTypes
  <1> QED
    BY <1>3, <1>4 DEF reserve_critical

LEMMA ConsumerStep ==
  ASSUME PubInv, next_commit \/ drop_subscription
  PROVE  PubInv'
  <1>1. UNCHANGED <<version, point, revision, snapshot, persisted, sequence, stack, speculative,
                    preview, trusted, exited>>
    BY DEF next_commit, drop_subscription, observed, outside
  <1>2. critical \in Channel /\ critical.queue \in Seq(Nat) /\ critical.last \in Nat /\ version \in Nat
    BY DEF PubInv, PubTypes, Channel
  <1>3. critical' \in Channel /\ Gapless'
    <2>1. CASE next_commit
      <3>1. /\ critical.open /\ critical.queue # <<>>
            /\ critical' = [critical EXCEPT !.queue = Tail(critical.queue), !.last = Head(critical.queue)]
        BY <2>1 DEF next_commit
      <3>2. Tail(critical.queue) \in Seq(Nat) /\ Head(critical.queue) \in Nat
        BY <1>2, <3>1, HeadTailProperties
      <3>3. /\ critical' \in Channel /\ critical'.registered = critical.registered
            /\ critical'.queue = Tail(critical.queue) /\ critical'.last = Head(critical.queue)
        BY <1>2, <3>1, <3>2 DEF Channel
      <3>4. ASSUME critical.registered
            PROVE  /\ Head(critical.queue) = critical.last + 1 /\ critical.last + 1 <= version
                   /\ Tail(critical.queue) = Waiting(critical.last + 1, version)
        <4>1. critical.last <= version /\ critical.queue = Waiting(critical.last, version)
          BY <3>1, <3>4 DEF PubInv, Gapless
        <4> QED
          BY <1>2, <3>1, <4>1, WaitingTail
      <3> QED
        BY <1>1, <3>3, <3>4 DEF Gapless
    <2>2. CASE drop_subscription
      <3>1. critical' = [critical EXCEPT !.open = FALSE, !.queue = <<>>] /\ <<>> \in Seq(Nat)
        BY <2>2, EmptySeq DEF drop_subscription
      <3>2. critical' \in Channel /\ critical'.open = FALSE
        BY <1>2, <3>1 DEF Channel
      <3> QED
        BY <3>2 DEF Gapless
    <2> QED
      BY <2>1, <2>2
  <1>4. PubTypes'
    BY <1>1, <1>3 DEF PubInv, PubTypes
  <1>5. OneCommitter' /\ Anchored' /\ Published'
    BY <1>1, SameStack, StillAnchored DEF PubInv, Published
  <1> QED
    BY <1>3, <1>4, <1>5 DEF PubInv

LEMMA AsideStep ==
  ASSUME PubInv, next_event \/ request_shutdown \/ UNCHANGED vars
  PROVE  PubInv'
  <1>1. UNCHANGED <<version, point, revision, snapshot, critical, persisted, sequence, stack,
                    speculative, preview, trusted, exited>>
    BY DEF next_event, request_shutdown, vars, published, observed
  <1> QED
    BY <1>1, SameStack, StillAnchored, Unpublished DEF PubInv, PubTypes

LEMMA StopStep ==
  ASSUME PubInv, stop
  PROVE  PubInv'
  <1>1. /\ stack = <<>> /\ DiscardPreview /\ publish_runtime_events(1)
        /\ UNCHANGED <<version, point, revision, snapshot, critical, persisted, stack>>
    BY DEF stop, Idle, published, publish_runtime_events
  <1>2. sequence' \in Nat
    BY <1>1, RuntimeEvents DEF PubInv
  <1>3. stack' \in Seq(Frame) /\ OneCommitter'
    BY <1>1, EmptySeq DEF OneCommitter
  <1> QED
    BY <1>1, <1>2, <1>3, Discarded, Unpublished

(* The inductive invariant of the module.                                  *)
THEOREM PublicationInvariance == Spec => []PubInv
  <1>1. PubInv /\ [Next]_vars => PubInv'
    <2> SUFFICES ASSUME PubInv, [Next]_vars
                 PROVE  PubInv'
      OBVIOUS
    <2>1. CASE Controls
      BY <2>1, BeginCommitStep, ReportStep, FlushStep, FailureStep, PreconfirmStep, SubscribeStep
         DEF Controls
    <2>2. CASE Handlers
      BY <2>2, UnwindStep, ReserveStep, StopStep DEF Handlers
    <2> QED
      BY <2>1, <2>2, BeginIngestStep, ConsumerStep, AsideStep DEF Next
  <1> QED
    BY InitPub, <1>1, PTL DEF Spec

(* Whatever the nesting of handlers, the consumer of commits is sent every *)
(* version after its snapshot, once and in order (publish_commit,          *)
(* reserve_critical, AmmChangeSubscription).                               *)
THEOREM ConsumerIsComplete == Spec => []ConsumerMissesNothing
  <1>1. PubInv => ConsumerMissesNothing
    BY DEF PubInv, Gapless, ConsumerMissesNothing, Waiting
  <1> QED
    BY PublicationInvariance, <1>1, PTL

(* No published snapshot and no persisted cache holds speculative contents,*)
(* and a preview is never older than the state (handle_control,            *)
(* ingest_preconfirmation, flush_persistent_cache).                        *)
THEOREM PreviewsAreIsolated == Spec => []PreviewIsolated
  <1>1. PubInv => PreviewIsolated
    BY DEF PubInv, PubTypes, Published, Anchored, PreviewIsolated, AmmStateSnapshot
  <1> QED
    BY PublicationInvariance, <1>1, PTL

-----------------------------------------------------------------------------
(* The observer channel.                                                   *)

(* The ring holds the latest events, numbered without a gap, and what an   *)
(* observer has taken or been told it missed is all there was before.      *)
Numbered ==
  /\ sent = sequence /\ ring \in Seq(Nat) /\ Len(ring) <= sequence
  /\ \A k \in 1 .. Len(ring) : ring[k] = sequence - Len(ring) + k

LagTold ==
  /\ observer \in [taken : Nat, last : Nat, skipped : Nat]
  /\ observer.taken = observer.last + observer.skipped

LEMMA Maximum ==
  ASSUME NEW a \in Int, NEW b \in Int
  PROVE  Max({a, b}) = IF a >= b THEN a ELSE b
  <1> DEFINE m == IF a >= b THEN a ELSE b
  <1>1. m \in {a, b} /\ \A y \in {a, b} : m >= y
    OBVIOUS
  <1>2. \A x \in {a, b} : (\A y \in {a, b} : x >= y) => x = m
    OBVIOUS
  <1> QED
    BY <1>1, <1>2 DEF Max

(* Every event is sent with the next number, by whichever handler.         *)
LEMMA EventsFollow ==
  ASSUME PubInv, [Next]_vars
  PROVE  UNCHANGED observed \/ \E n \in {1, 2} : Send(sequence + 1, n)
  <1>1. next_event_sequence = sequence + 1 /\ next_commit_identity.first = sequence + 1
    BY DEF next_event_sequence, next_commit_identity
  <1>2. CASE Controls \/ stop
    BY <1>2, <1>1
       DEF Controls, stop, BeginCommit, ReportEvents, flush_persistent_cache,
           report_subscriber_failure, ingest_preconfirmation, subscribe_changes,
           reject_preconfirmation, mark_untrusted, publish_runtime_events
  <1>3. CASE reserve_critical
    <2>1. stack # <<>> /\ Top.pc = "reserve" /\ PubTypes /\ OneCommitter
      BY <1>3 DEF reserve_critical, PubInv
    <2>2. Len(stack) \in 1 .. Len(stack) /\ Top = stack[Len(stack)]
      BY <2>1, StackTop
    <2>3. Top.id = next_commit_identity
      BY <2>1, <2>2 DEF OneCommitter
    <2>4. \A n \in 1 .. 2 : n \in {1, 2}
      OBVIOUS
    <2> QED
      BY <1>1, <1>3, <2>3, <2>4
         DEF reserve_critical, after_reservation, ingest_commits, publish_commit, mark_untrusted,
             publish_runtime_events
  <1>4. CASE \/ begin_ingest \/ remove_orphan \/ end_ingest \/ pass_fence \/ next_commit
             \/ drop_subscription \/ next_event \/ request_shutdown \/ UNCHANGED vars
    BY <1>4 DEF begin_ingest, remove_orphan, end_ingest, pass_fence, next_commit,
                drop_subscription, next_event, request_shutdown, vars, observed
  <1> QED
    BY <1>2, <1>3, <1>4 DEF Next, Handlers

LEMMA SendNumbers ==
  ASSUME ObserverCapacity \in Nat, Numbered, sequence \in Nat, NEW n \in {1, 2},
         Send(sequence + 1, n)
  PROVE  Numbered'
  <1> DEFINE new == [i \in 1 .. n |-> sequence + 1 + i - 1]
             all == ring \o new
             oldest == Max({1, Len(all) - ObserverCapacity + 1})
  <1>1. /\ sequence' = sequence + n /\ sent' = sent + n
        /\ ring' = SubSeq(all, oldest, Len(all))
    BY DEF Send
  <1>2. new \in Seq(Nat) /\ Len(new) = n /\ \A i \in 1 .. n : new[i] = sequence + i
    OBVIOUS
  <1> HIDE DEF new
  <1>3. ring \in Seq(Nat) /\ Len(ring) \in Nat
    BY LenProperties DEF Numbered
  <1>4. /\ all \in Seq(Nat) /\ Len(all) = Len(ring) + n
        /\ \A k \in 1 .. Len(ring) + n : all[k] = IF k <= Len(ring) THEN ring[k] ELSE new[k - Len(ring)]
    BY <1>2, <1>3, ConcatProperties
  <1>5. \A k \in 1 .. Len(all) : all[k] = sequence + n - Len(all) + k
    BY <1>2, <1>3, <1>4 DEF Numbered
  <1> HIDE DEF all
  <1>6. oldest \in 1 .. Len(all) + 1
    <2> DEFINE bound == Len(all) - ObserverCapacity + 1
    <2>1. 1 \in Int /\ bound \in Int
      BY <1>3, <1>4
    <2>2. oldest = IF 1 >= bound THEN 1 ELSE bound
      BY <2>1, Maximum
    <2> QED
      BY <1>3, <1>4, <2>2
  <1> HIDE DEF oldest
  <1>7. /\ oldest \in Int /\ Len(all) \in Int
        /\ \A k \in oldest .. Len(all) : all[k] \in Nat
    BY <1>3, <1>4, <1>6, ElementOfSeq
  <1>8. /\ ring' \in Seq(Nat)
        /\ Len(ring') = IF oldest <= Len(all) THEN Len(all) - oldest + 1 ELSE 0
        /\ \A k \in 1 .. Len(all) - oldest + 1 : ring'[k] = all[oldest + k - 1]
    BY <1>1, <1>7, SubSeqProperties
  <1>9. Len(ring') = Len(all) - oldest + 1
    BY <1>3, <1>4, <1>6, <1>8
  <1>10. Len(ring') <= sequence'
    BY <1>1, <1>3, <1>4, <1>6, <1>9 DEF Numbered
  <1>11. \A k \in 1 .. Len(ring') : ring'[k] = sequence' - Len(ring') + k
    <2> SUFFICES ASSUME NEW k \in 1 .. Len(ring')
                 PROVE  ring'[k] = sequence' - Len(ring') + k
      OBVIOUS
    <2> DEFINE j == oldest + k - 1
    <2>1. k \in 1 .. Len(all) - oldest + 1 /\ j \in 1 .. Len(all)
      BY <1>3, <1>4, <1>6, <1>9
    <2>2. ring'[k] = all[j] /\ all[j] = sequence + n - Len(all) + j
      BY <1>5, <1>8, <2>1
    <2>3. sequence + n - Len(all) + j = sequence + n - (Len(all) - oldest + 1) + k
      BY <1>3, <1>4, <1>6, <2>1
    <2>4. sequence' = sequence + n
      BY <1>1
    <2> HIDE DEF j
    <2> QED
      BY <1>9, <2>2, <2>3, <2>4
  <1> QED
    BY <1>1, <1>8, <1>10, <1>11 DEF Numbered

(* What one step tells the observer.                                       *)
LEMMA ObserverStep ==
  ASSUME Numbered, LagTold, sequence \in Nat, next_event
  PROVE  /\ LagTold'
         /\ observer'.last # observer.last => observer'.last = observer.last + 1 + observer.skipped
  <1> DEFINE oldest == sent - Len(ring)
  <1>1. /\ observer.taken \in Nat /\ observer.last \in Nat /\ observer.skipped \in Nat
        /\ observer.taken = observer.last + observer.skipped /\ observer.taken < sent
    BY DEF LagTold, next_event
  <1>2. oldest \in Nat /\ oldest = sequence - Len(ring) /\ Len(ring) \in Nat
    BY LenProperties DEF Numbered
  <1>3. CASE observer.taken < oldest
    <2>1. observer' = [observer EXCEPT !.taken = oldest, !.skipped = observer.skipped + oldest - observer.taken]
      BY <1>3 DEF next_event
    <2>2. observer.skipped + oldest - observer.taken \in Nat
      BY <1>1, <1>2, <1>3
    <2> HIDE DEF oldest
    <2>3. /\ observer' \in [taken : Nat, last : Nat, skipped : Nat]
          /\ observer'.taken = oldest /\ observer'.last = observer.last
          /\ observer'.skipped = observer.skipped + oldest - observer.taken
      BY <1>2, <2>1, <2>2 DEF LagTold
    <2> QED
      BY <1>1, <1>2, <2>3 DEF LagTold
  <1>4. CASE ~(observer.taken < oldest)
    <2> DEFINE k == observer.taken + 1 - oldest
    <2>1. observer' = [taken |-> observer.taken + 1, skipped |-> 0, last |-> ring[k]]
      BY <1>4 DEF next_event
    <2>2. k \in 1 .. Len(ring)
      BY <1>1, <1>2, <1>4 DEF Numbered
    <2>3. ring[k] = observer.taken + 1
      BY <1>1, <1>2, <2>2 DEF Numbered
    <2> QED
      BY <1>1, <2>1, <2>3 DEF LagTold
  <1> QED
    BY <1>3, <1>4

(* An observer that falls behind is told exactly how many events it has    *)
(* missed, for every capacity of the channel (publish_runtime_events,      *)
(* AmmObserver::next_event).                                               *)
THEOREM LagsAreExact ==
  ASSUME ObserverCapacity \in Nat
  PROVE  Spec => LagIsExact
  <1> DEFINE Told == observer'.last # observer.last =>
                       observer'.last = observer.last + 1 + observer.skipped
  <1>1. Init => Numbered /\ LagTold
    <2> SUFFICES ASSUME Init PROVE Numbered /\ LagTold
      OBVIOUS
    <2>1. ring = <<>> /\ <<>> \in Seq(Nat) /\ Len(ring) = 0 /\ sent = 0 /\ sequence = 0
      BY EmptySeq DEF Init
    <2>2. observer = [taken |-> 0, last |-> 0, skipped |-> 0]
      BY DEF Init
    <2> QED
      BY <2>1, <2>2 DEF Numbered, LagTold
  <1>2. PubInv /\ Numbered /\ LagTold /\ [Next]_vars => Numbered' /\ LagTold' /\ Told
    <2> SUFFICES ASSUME PubInv, Numbered, LagTold, [Next]_vars
                 PROVE  Numbered' /\ LagTold' /\ Told
      OBVIOUS
    <2>1. sequence \in Nat
      BY DEF PubInv, PubTypes
    <2>2. Numbered'
      BY <2>1, EventsFollow, SendNumbers DEF observed, Numbered
    <2>3. CASE next_event
      BY <2>1, <2>2, <2>3, ObserverStep
    <2>4. CASE observer' = observer
      BY <2>2, <2>4 DEF LagTold
    <2>5. next_event \/ observer' = observer
      BY DEF Next, Controls, Handlers, vars, outside, BeginCommit, ReportEvents,
             flush_persistent_cache, report_subscriber_failure, ingest_preconfirmation,
             subscribe_changes, begin_ingest, remove_orphan, end_ingest, pass_fence, stop,
             reserve_critical, after_reservation, ingest_commits, next_commit,
             drop_subscription, request_shutdown
    <2> QED
      BY <2>3, <2>4, <2>5
  <1> QED
    BY PublicationInvariance, <1>1, <1>2, PTL DEF Spec, LagIsExact

=============================================================================
