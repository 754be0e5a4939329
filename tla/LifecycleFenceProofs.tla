------------------------ MODULE LifecycleFenceProofs ------------------------
(***************************************************************************)
(* Proofs about the topology handshake of the runtime actor and the          *)
(* subscriber driver.  The inductive invariant follows one exchange: which     *)
(* handlers of the actor wait for the driver, where the command or its answer  *)
(* is, which of them holds the driver's transaction, and what that means for   *)
(* the two sides' idea of the topology while it is open.                       *)
(***************************************************************************)
EXTENDS LifecycleFence, SequenceTheorems, TLAPS

Depths == DOMAIN frames
Waits(d) == frames[d].stage \in {"fence", "commit", "abort"}
Ingests(d) == frames[d].op = "ingest"

Answers == [kind : {"none", "transaction", "done", "error"}, id : Nat]
Orders == [kind : {"begin_add", "begin_remove", "begin_replace", "commit", "abort"},
           pool : Pool, depth : 1..MaxDepth, id : Nat, revision : Nat]
Ops == {"install", "remove", "refresh", "report_subscriber_failure", "ingest_preconfirmation"}
Controls == [op : Ops, pool : Pool \union {"none"}, baseline : Nat]

FenceTypes ==
  /\ trusted \in BOOLEAN /\ point \in Nat /\ interest_revision \in Nat /\ d_revision \in Nat
  /\ pools \subseteq Pool /\ frames \in Seq(Frames)
  /\ commands \in Seq(Controls)
  /\ \A i \in DOMAIN commands : commands[i].op \in {"install", "remove", "refresh"} => commands[i].pool \in Pool
  /\ canonical \in Seq([revision : Nat])
  /\ d_commands \in Seq(Orders)
  /\ replies \in [1..MaxDepth -> Answers]
  /\ \A d \in 1..MaxDepth : replies[d].kind = "none" => replies[d] = Nothing
  /\ d_paused \in BOOLEAN /\ d_pending \in Transactions /\ d_next_transaction \in Nat
  /\ d_owners \in [Pool -> {"None", "Staged", "Active", "Removing", "Replacing"}]
  /\ d_work \in [kind : {"idle", "deliver", "preconfirmation", "failed"},
                 remaining : Int, submitted : BOOLEAN]
  /\ d_refused \in BOOLEAN

\* Which handler may be inside which, and that only one ingest is under way.
Nesting ==
  /\ \A d \in Depths : IF Ingests(d) THEN frames[d].stage \in {"reorg_actions", "removing"}
                       ELSE Waits(d) /\ frames[d].pool \in Pool
  /\ \A d \in Depths : d + 1 \in Depths =>
       \/ frames[d].stage = "fence" /\ Ingests(d + 1)
       \/ frames[d].stage = "removing" /\ frames[d + 1].op = "remove"
  /\ \A d, e \in Depths : Ingests(d) /\ Ingests(e) => d = e

\* At most one batch is between the driver and the actor, and the driver waits
\* for its answer; a preview is in the control queue once while it waits for that.
InFlight ==
  /\ canonical # <<>> => /\ d_work.kind = "deliver" /\ d_work.submitted = TRUE
                         /\ delivery_reply = "none" /\ Len(canonical) = 1
                         /\ \A d \in Depths : ~Ingests(d)
  /\ \A d \in Depths : Ingests(d) =>
       d_work.kind = "deliver" /\ d_work.submitted = TRUE /\ delivery_reply = "none"
  /\ \A i \in DOMAIN commands : commands[i].op = "ingest_preconfirmation" =>
       d_work.kind = "preconfirmation" /\ delivery_reply = "none"
  /\ \A i, j \in DOMAIN commands :
       commands[i].op = "ingest_preconfirmation" /\ commands[j].op = "ingest_preconfirmation" => i = j
  /\ delivery_reply # "none" =>
       d_work.kind = "preconfirmation" \/ (d_work.kind = "deliver" /\ d_work.submitted = TRUE)

order_of(f) == CASE f.stage = "commit" -> "commit" [] f.stage = "abort" -> "abort"
                 [] f.stage = "fence" -> begin_command(f.op)

\* A handler that waits has either its command in the queue or its answer.
Exchange ==
  /\ \A d \in 1..MaxDepth : replies[d] # Nothing => d \in Depths /\ Waits(d)
  /\ \A d \in Depths : frames[d].stage = "fence" => replies[d].kind # "done" /\ frames[d].id = 0
  /\ \A d \in Depths : frames[d].stage \in {"commit", "abort"} => replies[d].kind # "transaction"
  /\ \A i \in DOMAIN d_commands : LET c == d_commands[i] IN
       /\ c.depth \in Depths /\ Waits(c.depth) /\ replies[c.depth] = Nothing
       /\ c.pool = frames[c.depth].pool /\ c.kind = order_of(frames[c.depth])
       /\ c.id = frames[c.depth].id
       /\ c.kind = "commit" => c.revision = interest_revision + 1
  /\ \A d \in Depths : Waits(d) /\ replies[d] = Nothing =>
       \E i \in DOMAIN d_commands : d_commands[i].depth = d
  /\ \A i, j \in DOMAIN d_commands : i < j => d_commands[i].depth < d_commands[j].depth

kind_of(op) == CASE op = "install" -> "add" [] op = "remove" -> "remove" [] op = "refresh" -> "replace"

\* The handler at depth d has begun a transaction and not ended it.
Begun(d) ==
  \/ frames[d].stage = "fence" /\ replies[d].kind = "transaction"
  \/ frames[d].stage \in {"commit", "abort"} /\ replies[d] = Nothing
transaction_id(d) == IF frames[d].stage = "fence" THEN replies[d].id ELSE frames[d].id

\* The handler at depth d has its commit refused and does not know yet.
Refused(d) == frames[d].stage = "commit" /\ replies[d].kind = "error"

\* The driver's transaction is the one the handler at depth d has begun.
Matches(d) ==
  /\ d_pending # NoTransaction /\ d_pending.id = transaction_id(d)
  /\ d_pending.kind = kind_of(frames[d].op) /\ d_pending.owner = frames[d].pool

\* The handler aborts what the driver, in refusing its commit, gave up.
Gone(d) == ~trusted /\ d_refused /\ frames[d].stage = "abort" /\ d_pending = NoTransaction

\* The driver's transaction is the one of the handler that has begun one, until
\* the subscriber refuses a commit for an owner's state.
Holding ==
  driver_alive =>
    /\ d_pending # NoTransaction => d_paused
    /\ ~d_refused /\ d_paused => d_pending # NoTransaction
    /\ ~d_refused /\ d_pending # NoTransaction => \E d \in Depths : Begun(d) \/ Refused(d)
    /\ \A d \in Depths : Begun(d) => Matches(d) \/ Gone(d)
    /\ \A d \in Depths : Refused(d) =>
         IF frames[d].op = "install" THEN Matches(d) \/ (d_refused /\ d_pending = NoTransaction)
         ELSE d_refused

\* An inner handler gets nowhere before the outer one has its answer, and
\* nowhere while that answer is a transaction.
Exclusive ==
  \A d, e \in Depths : d < e /\ Waits(d) /\ Waits(e) =>
    /\ replies[d] = Nothing => replies[e] = Nothing /\ frames[e].stage = "fence"
    /\ replies[d].kind = "transaction" => replies[e].kind # "transaction" /\ frames[e].stage = "fence"

\* The driver has moved on and the actor does not know yet.
Settling(d) == frames[d].stage = "commit" /\ replies[d].kind = "done"

Revisions ==
  trusted =>
    /\ (\E d \in Depths : Settling(d)) => d_revision = interest_revision + 1
    /\ (\A d \in Depths : ~Settling(d)) => d_revision = interest_revision

Touched(p) == \E d \in Depths : frames[d].pool = p /\ (Begun(d) \/ Settling(d) \/ Refused(d))

\* What the two sides think of the pool of the handler f at depth d.
Place(d, f) ==
  /\ f.op = "install" /\ f.stage = "fence" => f.pool \notin pools
  /\ f.op # "install" /\ (Begun(d) \/ Refused(d)) => f.pool \in pools /\ registered(f.pool)
  /\ f.op = "install" /\ Begun(d) => (f.pool \in pools) = (f.stage = "commit")
  /\ Settling(d) => f.pool \in pools /\ d_owners[f.pool] = IF f.op = "remove" THEN "None" ELSE "Active"

Settled(p) == d_owners[p] = IF p \in pools THEN "Active" ELSE "None"

Topology ==
  trusted /\ driver_alive =>
    /\ \A p \in Pool : Touched(p) \/ (registered(p) <=> p \in pools)
    /\ ~d_refused => \A p \in Pool : Touched(p) \/ Settled(p)
    /\ \A d \in Depths : Place(d, frames[d])

FenceInv == FenceTypes /\ Nesting /\ InFlight /\ Exchange /\ Holding /\ Exclusive /\ Revisions /\ Topology

\* With drains of one block: no batch is built while a transaction is open.
Aligned ==
  /\ driver_alive /\ d_pending # NoTransaction =>
       d_work.kind = "idle" \/ (d_work.kind = "deliver" /\ d_work.submitted = TRUE)
  /\ canonical # <<>> =>
       /\ Head(canonical).revision = d_revision
       /\ \A d \in Depths : frames[d].stage = "commit" => replies[d] # Nothing
  /\ d_work.kind = "deliver" => d_work.remaining = 1

-----------------------------------------------------------------------------
(* The stack of handlers.                                                   *)

LEMMA StackTypes ==
  ASSUME FenceTypes
  PROVE  /\ Len(frames) \in Nat /\ Depths = 1..Len(frames)
         /\ \A d \in Depths : frames[d] \in Frames
         /\ frames # <<>> => Len(frames) \in Depths /\ Len(frames) >= 1
         /\ frames = <<>> => Depths = {}
  <1>1. frames \in Seq(Frames)
    BY DEF FenceTypes
  <1> QED BY <1>1, EmptySeq DEF Depths

LEMMA Pushed ==
  ASSUME FenceTypes, NEW f \in Frames, frames' = Append(frames, f)
  PROVE  /\ frames' \in Seq(Frames) /\ Len(frames') = Len(frames) + 1
         /\ Depths' = Depths \union {Len(frames) + 1} /\ Len(frames) + 1 \notin Depths
         /\ \A d \in Depths : frames'[d] = frames[d]
         /\ frames'[Len(frames) + 1] = f
  <1>1. frames \in Seq(Frames)
    BY DEF FenceTypes
  <1> QED BY <1>1 DEF Depths

LEMMA WithoutLast ==
  ASSUME NEW S, NEW q \in Seq(S), Len(q) >= 1
  PROVE  /\ SubSeq(q, 1, Len(q) - 1) \in Seq(S) /\ Len(SubSeq(q, 1, Len(q) - 1)) = Len(q) - 1
         /\ \A d \in 1..(Len(q) - 1) : SubSeq(q, 1, Len(q) - 1)[d] = q[d]
  <1> DEFINE m == Len(q) - 1
  <1>1. Len(q) \in Nat /\ 1 \in 1..Len(q) + 1 /\ m \in (1 - 1)..Len(q) /\ m - 1 + 1 = m
    OBVIOUS
  <1> HIDE DEF m
  <1>2. /\ SubSeq(q, 1, m) \in Seq(S) /\ Len(SubSeq(q, 1, m)) = m - 1 + 1
        /\ \A d \in 1..(m - 1 + 1) : SubSeq(q, 1, m)[d] = q[1 + d - 1]
    BY <1>1, SubSeqProperties
  <1>3. \A d \in 1..m : SubSeq(q, 1, m)[d] = q[d]
    BY <1>1, <1>2
  <1> QED BY <1>1, <1>2, <1>3 DEF m

LEMMA Popped ==
  ASSUME FenceTypes, frames # <<>>, frames' = SubSeq(frames, 1, Len(frames) - 1)
  PROVE  /\ frames' \in Seq(Frames) /\ Len(frames') = Len(frames) - 1
         /\ Depths' = Depths \ {Len(frames)}
         /\ \A d \in Depths' : frames'[d] = frames[d]
  <1>1. frames \in Seq(Frames) /\ Len(frames) \in Nat /\ Len(frames) >= 1
    BY StackTypes DEF FenceTypes
  <1>3. /\ frames' \in Seq(Frames) /\ Len(frames') = Len(frames) - 1
        /\ \A d \in 1..(Len(frames) - 1) : frames'[d] = frames[d]
    BY <1>1, WithoutLast
  <1>4. DOMAIN frames' = 1..(Len(frames) - 1) /\ DOMAIN frames = 1..Len(frames)
    BY <1>1, <1>3, LenProperties
  <1>5. Depths' = Depths \ {Len(frames)}
    BY <1>1, <1>4 DEF Depths
  <1> QED BY <1>3, <1>4, <1>5 DEF Depths

LEMMA Retopped ==
  ASSUME FenceTypes, frames # <<>>, NEW f \in Frames, frames' = [frames EXCEPT ![Len(frames)] = f]
  PROVE  /\ frames' \in Seq(Frames) /\ Len(frames') = Len(frames) /\ Depths' = Depths
         /\ \A d \in Depths \ {Len(frames)} : frames'[d] = frames[d]
         /\ frames'[Len(frames)] = f
  <1>1. frames \in Seq(Frames) /\ Len(frames) \in Nat /\ Len(frames) >= 1
    BY StackTypes DEF FenceTypes
  <1>2. Len(frames) \in 1..Len(frames)
    BY <1>1
  <1> QED BY <1>1, <1>2, ExceptSeq DEF Depths

\* At most three handlers are nested; two of them wait only around an ingest.
LEMMA Shallow ==
  ASSUME FenceTypes, Nesting
  PROVE  /\ Len(frames) <= 3
         /\ (\A d \in Depths : ~Ingests(d)) => Len(frames) <= 1
         /\ frames # <<>> /\ Ingests(Len(frames)) => Len(frames) <= 2
         /\ \A d \in Depths : d > 1 /\ Waits(d) => frames[d].op = "remove"
         /\ \A d \in Depths : frames[d].stage \in {"commit", "abort", "reorg_actions"} => d = Len(frames)
         /\ \A d \in Depths : Waits(d) /\ d # Len(frames) => frames[d].stage = "fence"
         /\ \A d \in Depths : Ingests(d) <=> ~Waits(d)
  <1>0. Len(frames) \in Nat /\ Depths = 1..Len(frames)
    BY StackTypes
  <1>1. \A d \in Depths : Ingests(d) <=> ~Waits(d)
    BY DEF Nesting, Waits
  <1>2. \A d \in Depths : d + 1 \in Depths =>
          \/ frames[d].stage = "fence" /\ ~Ingests(d) /\ Ingests(d + 1)
          \/ frames[d].stage = "removing" /\ Ingests(d) /\ ~Ingests(d + 1) /\ frames[d + 1].op = "remove"
    <2> SUFFICES ASSUME NEW d \in Depths, d + 1 \in Depths
                 PROVE  \/ frames[d].stage = "fence" /\ ~Ingests(d) /\ Ingests(d + 1)
                        \/ frames[d].stage = "removing" /\ Ingests(d) /\ ~Ingests(d + 1) /\ frames[d + 1].op = "remove"
      OBVIOUS
    <2>1. \/ frames[d].stage = "fence" /\ Ingests(d + 1)
          \/ frames[d].stage = "removing" /\ frames[d + 1].op = "remove"
      BY DEF Nesting
    <2> QED BY <1>1, <2>1 DEF Ingests, Waits
  <1>3. \A d, e \in Depths : Ingests(d) /\ Ingests(e) => d = e
    BY DEF Nesting
  <1>4. Len(frames) <= 3
    <2> SUFFICES ASSUME Len(frames) > 3 PROVE FALSE
      BY <1>0
    <2>1. 1 \in Depths /\ 2 \in Depths /\ 3 \in Depths /\ 4 \in Depths
      BY <1>0
    <2>2. 1 + 1 = 2 /\ 2 + 1 = 3 /\ 3 + 1 = 4 /\ 1 # 3 /\ 2 # 4
      OBVIOUS
    <2> QED BY <1>2, <1>3, <2>1, <2>2
  <1>5. ASSUME \A d \in Depths : ~Ingests(d) PROVE Len(frames) <= 1
    <2> SUFFICES ASSUME Len(frames) > 1 PROVE FALSE
      BY <1>0
    <2>1. 1 \in Depths /\ 2 \in Depths /\ 1 + 1 = 2
      BY <1>0
    <2> QED BY <1>2, <1>5, <2>1
  <1>6. ASSUME frames # <<>>, Ingests(Len(frames)) PROVE Len(frames) <= 2
    <2>1. ASSUME Len(frames) = 3 PROVE FALSE
      <3>1. 1 \in Depths /\ 2 \in Depths /\ 3 \in Depths /\ 1 + 1 = 2 /\ 2 + 1 = 3 /\ 1 # 3 /\ Ingests(3)
        BY <1>0, <1>6, <2>1
      <3> QED BY <1>2, <1>3, <3>1
    <2> DEFINE n == Len(frames)
    <2>2. n \in Nat /\ n <= 3 /\ n # 3
      BY <1>0, <1>4, <2>1
    <2> HIDE DEF n
    <2>3. n <= 2
      BY <2>2
    <2> QED BY <2>3 DEF n
  <1>7. ASSUME NEW d \in Depths, d > 1, Waits(d) PROVE frames[d].op = "remove"
    <2>1. d - 1 \in Depths /\ (d - 1) + 1 = d
      BY <1>0, <1>7
    <2>2. ~Ingests(d)
      BY <1>1, <1>7
    <2>3. \/ frames[d - 1].stage = "fence" /\ ~Ingests(d - 1) /\ Ingests(d)
          \/ frames[d - 1].stage = "removing" /\ Ingests(d - 1) /\ ~Ingests(d) /\ frames[d].op = "remove"
      BY <1>2, <2>1
    <2> QED BY <2>2, <2>3
  <1>8. ASSUME NEW d \in Depths, d # Len(frames) PROVE frames[d].stage \in {"fence", "removing"}
    <2>1. d + 1 \in Depths
      BY <1>0, <1>8
    <2> QED BY <1>2, <2>1
  <1> QED BY <1>1, <1>4, <1>5, <1>6, <1>7, <1>8 DEF Waits

\* The driver stands still and the handlers that concern it do as well, or ask
\* for the end of what they have begun.
LEMMA HoldingStays ==
  ASSUME Holding, UNCHANGED <<d_paused, d_pending, d_refused>>, trusted' => trusted, driver_alive' => driver_alive,
         \A d \in Depths' : Begun(d)' =>
           /\ d \in Depths /\ Begun(d) /\ transaction_id(d)' = transaction_id(d)
           /\ frames'[d].op = frames[d].op /\ frames'[d].pool = frames[d].pool
           /\ frames[d].stage = "abort" => frames'[d].stage = "abort",
         \A d \in Depths' : Refused(d)' => d \in Depths /\ Refused(d) /\ frames'[d] = frames[d],
         d_refused \/ \A d \in Depths : Begun(d) \/ Refused(d) => d \in Depths' /\ (Begun(d)' \/ Refused(d)')
  PROVE  Holding'
  <1> SUFFICES ASSUME driver_alive, driver_alive' PROVE Holding'
    BY DEF Holding
  <1>1. /\ d_pending # NoTransaction => d_paused
        /\ ~d_refused /\ d_paused => d_pending # NoTransaction
        /\ ~d_refused /\ d_pending # NoTransaction => \E d \in Depths : Begun(d) \/ Refused(d)
    BY DEF Holding
  <1>2. ~d_refused /\ d_pending # NoTransaction => \E d \in Depths' : Begun(d)' \/ Refused(d)'
    BY <1>1
  <1>3. ASSUME NEW d \in Depths', Begun(d)' PROVE Matches(d)' \/ Gone(d)'
    <2>1. /\ d \in Depths /\ Begun(d) /\ transaction_id(d)' = transaction_id(d)
          /\ frames'[d].op = frames[d].op /\ frames'[d].pool = frames[d].pool
          /\ frames[d].stage = "abort" => frames'[d].stage = "abort"
      BY <1>3
    <2>2. Matches(d) \/ Gone(d)
      BY <2>1 DEF Holding
    <2>3. CASE Matches(d)
      BY <2>1, <2>3 DEF Matches, NoTransaction
    <2>4. CASE Gone(d)
      BY <2>1, <2>4 DEF Gone, NoTransaction
    <2> QED BY <2>2, <2>3, <2>4
  <1>4. ASSUME NEW d \in Depths', Refused(d)'
        PROVE  IF frames'[d].op = "install" THEN Matches(d)' \/ (d_refused /\ d_pending = NoTransaction) ELSE d_refused
    <2>1. d \in Depths /\ Refused(d) /\ frames'[d] = frames[d]
      BY <1>4
    <2>2. IF frames[d].op = "install" THEN Matches(d) \/ (d_refused /\ d_pending = NoTransaction) ELSE d_refused
      BY <2>1 DEF Holding
    <2>3. frames[d].stage = "commit"
      BY <2>1 DEF Refused
    <2> QED BY <2>1, <2>2, <2>3 DEF Matches, NoTransaction, transaction_id
  <1> QED BY <1>1, <1>2, <1>3, <1>4 DEF Holding, NoTransaction

LEMMA TopologyStays ==
  ASSUME Topology, UNCHANGED <<pools, d_owners, d_refused>>, trusted' => trusted, driver_alive' => driver_alive,
         trusted /\ driver_alive => \A d \in Depths' :
           frames'[d].op = "install" /\ frames'[d].stage = "fence" => frames'[d].pool \notin pools,
         \A d \in Depths' : Begun(d)' => d \in Depths /\ frames'[d] = frames[d] /\ Begun(d),
         \A d \in Depths' : Settling(d)' => d \in Depths /\ frames'[d] = frames[d] /\ Settling(d),
         \A d \in Depths' : Refused(d)' => d \in Depths /\ frames'[d] = frames[d] /\ Refused(d),
         \A d \in Depths : Begun(d) \/ Settling(d) \/ Refused(d) =>
           d \in Depths' /\ frames'[d] = frames[d] /\ (Begun(d)' \/ Settling(d)' \/ Refused(d)')
  PROVE  Topology'
  <1> SUFFICES ASSUME driver_alive, trusted PROVE Topology'
    BY DEF Topology
  <1>1. \A p \in Pool : Touched(p) => Touched(p)'
    BY DEF Touched
  <1>2. \A p \in Pool : registered(p)' <=> registered(p)
    BY DEF registered
  <1>3. \A p \in Pool : Settled(p) => Settled(p)'
    BY DEF Settled
  <1>4. ASSUME NEW d \in Depths' PROVE Place(d, frames[d])'
    <2>1. frames'[d].op = "install" /\ frames'[d].stage = "fence" => frames'[d].pool \notin pools
      OBVIOUS
    <2>2. ASSUME Begun(d)' \/ Refused(d)', frames'[d].op # "install"
          PROVE  frames'[d].pool \in pools /\ registered(frames[d].pool)'
      <3>1. d \in Depths /\ frames'[d] = frames[d] /\ (Begun(d) \/ Refused(d))
        BY <2>2
      <3>2. frames[d].pool \in pools /\ registered(frames[d].pool)
        BY <2>2, <3>1 DEF Topology, Place
      <3> QED BY <3>1, <3>2 DEF registered
    <2>3. ASSUME Begun(d)', frames'[d].op = "install" PROVE (frames'[d].pool \in pools) = (frames'[d].stage = "commit")
      <3>1. d \in Depths /\ frames'[d] = frames[d] /\ Begun(d)
        BY <2>3
      <3> QED BY <2>3, <3>1 DEF Topology, Place
    <2>4. ASSUME Settling(d)'
          PROVE  frames'[d].pool \in pools /\ d_owners[frames'[d].pool] = IF frames'[d].op = "remove" THEN "None" ELSE "Active"
      <3>1. d \in Depths /\ frames'[d] = frames[d] /\ Settling(d)
        BY <2>4
      <3> QED BY <3>1 DEF Topology, Place
    <2> QED BY <2>1, <2>2, <2>3, <2>4 DEF Place
  <1> QED BY <1>1, <1>2, <1>3, <1>4 DEF Topology

\* A step that moves neither handlers nor exchange nor topology.
LEMMA ElsewhereKeeps ==
  ASSUME FenceInv,
         UNCHANGED <<frames, replies, d_commands, interest_revision, d_revision, pools,
                     d_pending, d_refused, d_paused, d_owners>>,
         trusted' => trusted, driver_alive' => driver_alive, FenceTypes', InFlight'
  PROVE  FenceInv'
  <1>1. Nesting'
    BY DEF FenceInv, Nesting, Depths, Waits, Ingests
  <1>2. Exchange'
    BY DEF FenceInv, Exchange, Depths, Waits, Nothing
  <1>0. /\ Depths' = Depths
        /\ \A d : /\ Begun(d)' <=> Begun(d)
                  /\ Settling(d)' <=> Settling(d)
                  /\ Refused(d)' <=> Refused(d)
                  /\ transaction_id(d)' = transaction_id(d)
    BY DEF Depths, Begun, Settling, Refused, transaction_id, Nothing
  <1>3. Holding'
    BY <1>0, HoldingStays DEF FenceInv
  <1>4. Exclusive'
    BY DEF FenceInv, Exclusive, Depths, Waits, Nothing
  <1>5. Revisions'
    BY DEF FenceInv, Revisions, Settling, Depths
  <1>6. Topology'
    <2>1. trusted /\ driver_alive => \A d \in Depths :
            frames[d].op = "install" /\ frames[d].stage = "fence" => frames[d].pool \notin pools
      BY DEF FenceInv, Topology, Place
    <2> QED BY <1>0, <2>1, TopologyStays DEF FenceInv
  <1> QED BY <1>1, <1>2, <1>3, <1>4, <1>5, <1>6 DEF FenceInv

LEMMA Behind ==
  ASSUME NEW S, NEW q \in Seq(S), NEW x \in S
  PROVE  /\ Append(q, x) \in Seq(S) /\ Append(q, x) # <<>> /\ Len(Append(q, x)) = Len(q) + 1
         /\ DOMAIN Append(q, x) = DOMAIN q \union {Len(q) + 1} /\ Len(q) + 1 \notin DOMAIN q
         /\ \A i \in DOMAIN q : Append(q, x)[i] = q[i] /\ i \in Nat /\ i < Len(q) + 1
         /\ Append(q, x)[Len(q) + 1] = x /\ Len(q) \in Nat
  OBVIOUS

LEMMA InFront ==
  ASSUME NEW S, NEW q \in Seq(S), q # <<>>
  PROVE  /\ Head(q) = q[1] /\ Head(q) \in S /\ 1 \in DOMAIN q /\ Tail(q) \in Seq(S)
         /\ Len(q) \in Nat /\ Len(q) >= 1 /\ Len(Tail(q)) = Len(q) - 1
         /\ \A i \in DOMAIN Tail(q) : i + 1 \in DOMAIN q /\ Tail(q)[i] = q[i + 1] /\ i \in Nat /\ i >= 1
         /\ \A i \in DOMAIN q : i # 1 => i - 1 \in DOMAIN Tail(q) /\ Tail(q)[i - 1] = q[i]
         /\ \A i \in DOMAIN q : i \in Nat /\ i >= 1
  <1>1. Len(q) \in Nat /\ Len(q) >= 1 /\ DOMAIN q = 1..Len(q)
    BY EmptySeq
  <1>2. Tail(q) \in Seq(S) /\ Len(Tail(q)) = Len(q) - 1 /\ DOMAIN Tail(q) = 1..(Len(q) - 1)
    BY <1>1
  <1>3. \A i \in 1..(Len(q) - 1) : Tail(q)[i] = q[i + 1]
    BY <1>1
  <1> QED BY <1>1, <1>2, <1>3

\* What the actor's control queue holds after a command is queued.
LEMMA Queued ==
  ASSUME FenceTypes, NEW c \in Controls, commands' = Append(commands, c),
         c.op \in {"install", "remove", "refresh"} => c.pool \in Pool
  PROVE  /\ commands' \in Seq(Controls)
         /\ \A i \in DOMAIN commands' : commands'[i].op \in {"install", "remove", "refresh"} => commands'[i].pool \in Pool
         /\ \A i \in DOMAIN commands' : \/ i \in DOMAIN commands /\ commands'[i] = commands[i]
                                        \/ i = Len(commands) + 1 /\ commands'[i] = c
  <1>1. commands \in Seq(Controls)
    BY DEF FenceTypes
  <1>2. \A i \in DOMAIN commands' : \/ i \in DOMAIN commands /\ commands'[i] = commands[i]
                                    \/ i = Len(commands) + 1 /\ commands'[i] = c
    BY <1>1, Behind
  <1>3. commands' \in Seq(Controls)
    BY <1>1, Behind
  <1>4. \A i \in DOMAIN commands : commands[i].op \in {"install", "remove", "refresh"} => commands[i].pool \in Pool
    BY DEF FenceTypes
  <1> QED BY <1>2, <1>3, <1>4

LEMMA Dequeued ==
  ASSUME FenceTypes, commands # <<>>, commands' = Tail(commands)
  PROVE  /\ commands' \in Seq(Controls)
         /\ \A i \in DOMAIN commands' : commands'[i].op \in {"install", "remove", "refresh"} => commands'[i].pool \in Pool
         /\ \A i \in DOMAIN commands' : i + 1 \in DOMAIN commands /\ commands'[i] = commands[i + 1] /\ i \in Nat /\ i >= 1
         /\ Head(commands) = commands[1] /\ 1 \in DOMAIN commands /\ Head(commands) \in Controls
         /\ Head(commands).op \in {"install", "remove", "refresh"} => Head(commands).pool \in Pool
  <1>1. commands \in Seq(Controls)
    BY DEF FenceTypes
  <1>2. \A i \in DOMAIN commands : commands[i].op \in {"install", "remove", "refresh"} => commands[i].pool \in Pool
    BY DEF FenceTypes
  <1>3. /\ commands' \in Seq(Controls)
        /\ \A i \in DOMAIN commands' : i + 1 \in DOMAIN commands /\ commands'[i] = commands[i + 1] /\ i \in Nat /\ i >= 1
        /\ Head(commands) = commands[1] /\ 1 \in DOMAIN commands /\ Head(commands) \in Controls
    BY <1>1, InFront
  <1> QED BY <1>2, <1>3

LEMMA InitFence == ASSUME Init PROVE FenceInv
  <1> USE FenceAssumption
  <1>1. FenceTypes
    <2>1. replies \in [1..MaxDepth -> Answers] /\ \A d \in 1..MaxDepth : replies[d] = Nothing
      BY DEF Init, Answers, Nothing
    <2>2. /\ d_owners \in [Pool -> {"None", "Staged", "Active", "Removing", "Replacing"}]
          /\ d_pending \in Transactions
      BY DEF Init, NoTransaction, Transactions
    <2>3. d_work \in [kind : {"idle", "deliver", "preconfirmation", "failed"}, remaining : Int, submitted : BOOLEAN]
      BY DEF Init, Idle
    <2>4. /\ frames \in Seq(Frames) /\ commands \in Seq(Controls) /\ canonical \in Seq([revision : Nat])
          /\ d_commands \in Seq(Orders) /\ DOMAIN commands = {}
      BY DEF Init
    <2> QED BY <2>1, <2>2, <2>3, <2>4 DEF Init, FenceTypes
  <1>2. Depths = {} /\ DOMAIN commands = {} /\ DOMAIN d_commands = {}
    BY DEF Init, Depths
  <1>3. Nesting /\ Exclusive
    BY <1>2 DEF Nesting, Exclusive
  <1>4. InFlight
    BY <1>2 DEF InFlight, Init
  <1>5. Exchange
    BY <1>2 DEF Exchange, Init, MaxDepth
  <1>6. Holding
    BY <1>2 DEF Holding, Init
  <1>7. Revisions
    BY <1>2 DEF Revisions, Init
  <1>8. Topology
    BY <1>2 DEF Topology, Init, registered, Settled
  <1> QED BY <1>1, <1>3, <1>4, <1>5, <1>6, <1>7, <1>8 DEF FenceInv

LEMMA RequestKeeps ==
  ASSUME FenceInv, NEW op \in {"install", "remove", "refresh"}, NEW p \in Pool, Request(op, p)
  PROVE  FenceInv'
  <1> DEFINE c == [op |-> op, pool |-> p, baseline |-> point]
  <1>1. c \in Controls /\ c.op = op /\ c.pool = p
    BY DEF Controls, Ops, FenceInv, FenceTypes
  <1>2. commands' = Append(commands, c)
    BY DEF Request
  <1>3. /\ UNCHANGED <<frames, replies, d_commands, interest_revision, d_revision, pools, d_pending, d_refused,
                       d_paused, d_owners, d_work, trusted, point, canonical, delivery_reply, d_next_transaction>>
    BY DEF Request, actor_vars, driver_vars
  <1> HIDE DEF c
  <1>4. /\ commands' \in Seq(Controls)
        /\ \A i \in DOMAIN commands' : commands'[i].op \in {"install", "remove", "refresh"} => commands'[i].pool \in Pool
        /\ \A i \in DOMAIN commands' : \/ i \in DOMAIN commands /\ commands'[i] = commands[i]
                                       \/ i = Len(commands) + 1 /\ commands'[i] = c
    BY <1>1, <1>2, Queued DEF FenceInv
  <1>5. FenceTypes'
    BY <1>3, <1>4 DEF FenceTypes, FenceInv
  <1>6. InFlight'
    BY <1>1, <1>3, <1>4 DEF InFlight, FenceInv, Depths, Ingests
  <1> QED BY <1>3, <1>5, <1>6, ElsewhereKeeps DEF driver_alive

LEMMA NextBatchKeeps ==
  ASSUME FenceInv, NEW n \in 1..MaxLineage, d_next_batch(n)
  PROVE  FenceInv'
  <1>1. /\ UNCHANGED <<frames, replies, d_commands, interest_revision, d_revision, pools, d_pending, d_refused, d_paused,
                       d_owners, trusted, point, commands, canonical, delivery_reply, d_next_transaction>>
        /\ d_work.kind = "idle" /\ d_work' = [kind |-> "deliver", remaining |-> n, submitted |-> FALSE]
    BY DEF d_next_batch, actor_vars
  <1>2. FenceTypes'
    BY <1>1 DEF FenceTypes, FenceInv
  <1>3. InFlight'
    BY <1>1 DEF InFlight, FenceInv, Depths, Ingests
  <1> QED BY <1>1, <1>2, <1>3, ElsewhereKeeps DEF driver_alive

LEMMA SubmitKeeps ==
  ASSUME FenceInv, d_submit PROVE FenceInv'
  <1>1. /\ UNCHANGED <<frames, replies, d_commands, interest_revision, d_revision, pools, d_pending, d_refused, d_paused,
                       d_owners, trusted, point, commands, delivery_reply, d_next_transaction>>
        /\ d_work.kind = "deliver" /\ ~d_work.submitted /\ d_work' = [d_work EXCEPT !.submitted = TRUE]
        /\ canonical' = Append(canonical, [revision |-> d_revision])
    BY DEF d_submit, actor_vars
  <1>2. /\ d_work' \in [kind : {"idle", "deliver", "preconfirmation", "failed"}, remaining : Int, submitted : BOOLEAN]
        /\ d_work'.kind = "deliver" /\ d_work'.submitted = TRUE /\ d_work.submitted # TRUE
    BY <1>1 DEF FenceTypes, FenceInv
  <1>3. canonical = <<>> /\ delivery_reply = "none"
    BY <1>1, <1>2 DEF FenceInv, InFlight
  <1>4. canonical' \in Seq([revision : Nat]) /\ Len(canonical') = 1
    BY <1>1, <1>3 DEF FenceTypes, FenceInv
  <1>5. FenceTypes'
    BY <1>1, <1>2, <1>4 DEF FenceTypes, FenceInv
  <1>6. \A d \in Depths : ~Ingests(d)
    BY <1>1, <1>2 DEF FenceInv, InFlight
  <1>7. InFlight'
    BY <1>1, <1>2, <1>3, <1>4, <1>6 DEF InFlight, FenceInv, Depths, Ingests
  <1> QED BY <1>1, <1>2, <1>5, <1>7, ElsewhereKeeps DEF driver_alive

\* The driver fails when it waits for nothing of the actor's.
LEMMA FailureKeeps ==
  ASSUME FenceInv, d_fails, canonical = <<>>, \A d \in Depths : ~Ingests(d),
         \A i \in DOMAIN commands : commands[i].op # "ingest_preconfirmation",
         delivery_reply' = "none",
         UNCHANGED <<frames, replies, d_commands, interest_revision, d_revision, pools, d_pending, d_refused, d_paused,
                     d_owners, trusted, point, canonical, d_next_transaction>>
  PROVE  FenceInv'
  <1> DEFINE c == [op |-> "report_subscriber_failure", pool |-> "none", baseline |-> point]
  <1>1. c \in Controls /\ c.op = "report_subscriber_failure"
    BY DEF Controls, Ops, FenceInv, FenceTypes
  <1>2. commands' = Append(commands, c) /\ d_work' = [Idle EXCEPT !.kind = "failed"]
    BY DEF d_fails
  <1>3. d_work' = [kind |-> "failed", remaining |-> 0, submitted |-> FALSE]
    BY <1>2 DEF Idle
  <1> HIDE DEF c
  <1>4. /\ commands' \in Seq(Controls)
        /\ \A i \in DOMAIN commands' : commands'[i].op \in {"install", "remove", "refresh"} => commands'[i].pool \in Pool
        /\ \A i \in DOMAIN commands' : \/ i \in DOMAIN commands /\ commands'[i] = commands[i]
                                       \/ i = Len(commands) + 1 /\ commands'[i] = c
    BY <1>1, <1>2, Queued DEF FenceInv
  <1>5. FenceTypes'
    <2>1. d_work' \in [kind : {"idle", "deliver", "preconfirmation", "failed"}, remaining : Int, submitted : BOOLEAN]
      BY <1>3
    <2> QED BY <1>4, <2>1 DEF FenceTypes, FenceInv
  <1>6. \A i \in DOMAIN commands' : commands'[i].op # "ingest_preconfirmation"
    BY <1>1, <1>4
  <1>7. InFlight'
    BY <1>6 DEF InFlight, FenceInv, Depths, Ingests
  <1>8. driver_alive' => driver_alive
    BY <1>3 DEF driver_alive
  <1> QED BY <1>5, <1>7, <1>8, ElsewhereKeeps

LEMMA DeliveredKeeps ==
  ASSUME FenceInv, d_delivered PROVE FenceInv'
  <1>1. /\ UNCHANGED <<frames, replies, d_commands, interest_revision, d_revision, pools, d_pending, d_refused, d_paused,
                       d_owners, trusted, point, canonical, d_next_transaction>>
        /\ d_work.kind = "deliver" /\ d_work.submitted /\ delivery_reply # "none" /\ delivery_reply' = "none"
    BY DEF d_delivered, actor_vars
  <1>2. /\ canonical = <<>> /\ \A d \in Depths : ~Ingests(d)
        /\ \A i \in DOMAIN commands : commands[i].op # "ingest_preconfirmation"
    BY <1>1 DEF FenceInv, InFlight
  <1>3. CASE d_fails
    BY <1>1, <1>2, <1>3, FailureKeeps
  <1>4. CASE ~d_fails
    <2>1. /\ commands' = commands
          /\ d_work' = IF d_work.remaining = 1 THEN Idle
                       ELSE [d_work EXCEPT !.remaining = d_work.remaining - 1, !.submitted = FALSE]
      BY <1>4 DEF d_delivered
    <2>2. /\ d_work' \in [kind : {"idle", "deliver", "preconfirmation", "failed"}, remaining : Int, submitted : BOOLEAN]
          /\ d_work'.kind # "failed"
      <3>1. d_work \in [kind : {"idle", "deliver", "preconfirmation", "failed"}, remaining : Int, submitted : BOOLEAN]
        BY DEF FenceInv, FenceTypes
      <3>2. CASE d_work.remaining = 1
        BY <2>1, <3>2 DEF Idle
      <3>3. CASE d_work.remaining # 1
        <4>1. d_work' = [d_work EXCEPT !.remaining = d_work.remaining - 1, !.submitted = FALSE]
          BY <2>1, <3>3
        <4>2. d_work.remaining - 1 \in Int
          BY <3>1
        <4> QED BY <1>1, <3>1, <4>1, <4>2
      <3> QED BY <3>2, <3>3
    <2>3. FenceTypes'
      BY <1>1, <2>1, <2>2 DEF FenceInv, FenceTypes
    <2>4. InFlight'
      BY <1>1, <1>2, <2>1 DEF FenceInv, InFlight, Depths, Ingests
    <2> QED BY <1>1, <2>2, <2>3, <2>4, ElsewhereKeeps DEF driver_alive
  <1> QED BY <1>3, <1>4

LEMMA PreconfirmationKeeps ==
  ASSUME FenceInv, d_preconfirmation PROVE FenceInv'
  <1> DEFINE c == [op |-> "ingest_preconfirmation", pool |-> "none", baseline |-> point]
  <1>1. c \in Controls /\ c.op = "ingest_preconfirmation"
    BY DEF Controls, Ops, FenceInv, FenceTypes
  <1>2. /\ UNCHANGED <<frames, replies, d_commands, interest_revision, d_revision, pools, d_pending, d_refused, d_paused,
                       d_owners, trusted, point, canonical, delivery_reply, d_next_transaction>>
        /\ commands' = Append(commands, c) /\ d_work.kind = "idle"
        /\ d_work' = [kind |-> "preconfirmation", remaining |-> 0, submitted |-> FALSE]
    BY DEF d_preconfirmation, actor_vars, Idle
  <1> HIDE DEF c
  <1>3. /\ commands' \in Seq(Controls)
        /\ \A i \in DOMAIN commands' : commands'[i].op \in {"install", "remove", "refresh"} => commands'[i].pool \in Pool
        /\ \A i \in DOMAIN commands' : \/ i \in DOMAIN commands /\ commands'[i] = commands[i]
                                       \/ i = Len(commands) + 1 /\ commands'[i] = c
    BY <1>1, <1>2, Queued DEF FenceInv
  <1>4. FenceTypes'
    BY <1>2, <1>3 DEF FenceTypes, FenceInv
  <1>5. \A i \in DOMAIN commands : commands[i].op # "ingest_preconfirmation"
    BY <1>2 DEF FenceInv, InFlight
  <1>6. InFlight'
    <2>1. canonical = <<>> /\ delivery_reply = "none" /\ \A d \in Depths : ~Ingests(d)
      BY <1>2 DEF FenceInv, InFlight
    <2> QED BY <1>2, <1>3, <1>5, <2>1 DEF InFlight, Depths, Ingests
  <1> QED BY <1>2, <1>4, <1>6, ElsewhereKeeps DEF driver_alive

LEMMA PreconfirmedKeeps ==
  ASSUME FenceInv, d_preconfirmed PROVE FenceInv'
  <1>1. /\ UNCHANGED <<frames, replies, d_commands, interest_revision, d_revision, pools, d_pending, d_refused, d_paused,
                       d_owners, trusted, point, canonical, d_next_transaction>>
        /\ d_work.kind = "preconfirmation" /\ delivery_reply # "none" /\ delivery_reply' = "none"
    BY DEF d_preconfirmed, actor_vars
  <1>2. /\ canonical = <<>> /\ \A d \in Depths : ~Ingests(d)
        /\ \A i \in DOMAIN commands : commands[i].op # "ingest_preconfirmation"
    BY <1>1 DEF FenceInv, InFlight
  <1>3. CASE d_fails
    BY <1>1, <1>2, <1>3, FailureKeeps
  <1>4. CASE ~d_fails
    <2>1. commands' = commands /\ d_work' = Idle
      BY <1>4 DEF d_preconfirmed
    <2>2. FenceTypes'
      BY <1>1, <2>1 DEF FenceInv, FenceTypes, Idle
    <2>3. InFlight'
      BY <1>1, <1>2, <2>1 DEF FenceInv, InFlight, Depths, Ingests
    <2> QED BY <1>1, <2>1, <2>2, <2>3, ElsewhereKeeps DEF driver_alive, Idle
  <1> QED BY <1>3, <1>4

LEMMA ProviderErrorKeeps ==
  ASSUME FenceInv, d_provider_error PROVE FenceInv'
  <1>1. /\ UNCHANGED <<frames, replies, d_commands, interest_revision, d_revision, pools, d_pending, d_refused, d_paused,
                       d_owners, trusted, point, canonical, d_next_transaction, delivery_reply>>
        /\ d_work.kind = "deliver" /\ ~d_work.submitted /\ d_fails
    BY DEF d_provider_error, actor_vars
  <1>2. d_work.submitted # TRUE
    BY <1>1
  <1>3. /\ canonical = <<>> /\ \A d \in Depths : ~Ingests(d)
        /\ \A i \in DOMAIN commands : commands[i].op # "ingest_preconfirmation"
        /\ delivery_reply = "none"
    BY <1>1, <1>2 DEF FenceInv, InFlight
  <1> QED BY <1>1, <1>3, FailureKeeps

LEMMA ReportKeeps ==
  ASSUME FenceInv, report_subscriber_failure PROVE FenceInv'
  <1>1. /\ UNCHANGED <<frames, replies, d_commands, interest_revision, d_revision, pools, d_pending, d_refused, d_paused,
                       d_owners, point, canonical, d_next_transaction, delivery_reply, d_work>>
        /\ commands # <<>> /\ commands' = Tail(commands) /\ trusted' = FALSE
    BY DEF report_subscriber_failure, driver_vars
  <1>2. /\ commands' \in Seq(Controls)
        /\ \A i \in DOMAIN commands' : commands'[i].op \in {"install", "remove", "refresh"} => commands'[i].pool \in Pool
        /\ \A i \in DOMAIN commands' : i + 1 \in DOMAIN commands /\ commands'[i] = commands[i + 1] /\ i \in Nat /\ i >= 1
    BY <1>1, Dequeued DEF FenceInv
  <1>3. FenceTypes'
    BY <1>1, <1>2 DEF FenceInv, FenceTypes
  <1>4. InFlight'
    BY <1>1, <1>2 DEF FenceInv, InFlight, Depths, Ingests
  <1> QED BY <1>1, <1>3, <1>4, ElsewhereKeeps DEF driver_alive

LEMMA PreviewKeeps ==
  ASSUME FenceInv, ingest_preconfirmation PROVE FenceInv'
  <1>1. /\ UNCHANGED <<frames, replies, d_commands, interest_revision, d_revision, pools, d_pending, d_refused, d_paused,
                       d_owners, trusted, point, canonical, d_next_transaction, d_work>>
        /\ commands # <<>> /\ commands' = Tail(commands) /\ Head(commands).op = "ingest_preconfirmation"
    BY DEF ingest_preconfirmation, driver_vars
  <1>2. /\ commands' \in Seq(Controls)
        /\ \A i \in DOMAIN commands' : commands'[i].op \in {"install", "remove", "refresh"} => commands'[i].pool \in Pool
        /\ \A i \in DOMAIN commands' : i + 1 \in DOMAIN commands /\ commands'[i] = commands[i + 1] /\ i \in Nat /\ i >= 1
        /\ Head(commands) = commands[1] /\ 1 \in DOMAIN commands
    BY <1>1, Dequeued DEF FenceInv
  <1>3. FenceTypes'
    BY <1>1, <1>2 DEF FenceInv, FenceTypes
  <1>4. d_work.kind = "preconfirmation" /\ commands[1].op = "ingest_preconfirmation"
    BY <1>1, <1>2 DEF FenceInv, InFlight
  <1>5. \A i \in DOMAIN commands : commands[i].op = "ingest_preconfirmation" => i = 1
    BY <1>2, <1>4 DEF FenceInv, InFlight
  <1>6. \A i \in DOMAIN commands' : commands'[i].op # "ingest_preconfirmation"
    BY <1>2, <1>5
  <1>7. canonical = <<>> /\ \A d \in Depths : ~Ingests(d)
    BY <1>4 DEF FenceInv, InFlight
  <1>8. InFlight'
    BY <1>1, <1>4, <1>6, <1>7 DEF InFlight, Depths, Ingests
  <1> QED BY <1>1, <1>3, <1>8, ElsewhereKeeps DEF driver_alive

-----------------------------------------------------------------------------
(* The driver takes the command at the head of its queue and answers it.    *)

LEMMA HeadCommand ==
  ASSUME FenceInv, d_commands # <<>>
  PROVE  LET c == Head(d_commands) IN
         /\ c \in Orders /\ c.depth \in Depths /\ c.depth \in 1..MaxDepth
         /\ Waits(c.depth) /\ replies[c.depth] = Nothing
         /\ c.pool = frames[c.depth].pool /\ c.kind = order_of(frames[c.depth]) /\ c.id = frames[c.depth].id
         /\ c.kind = "commit" => c.revision = interest_revision + 1
         /\ \A d \in Depths : d < c.depth /\ Waits(d) => replies[d] # Nothing
         /\ \A i \in DOMAIN d_commands : i # 1 => d_commands[i].depth > c.depth
  <1> DEFINE c == Head(d_commands)
  <1>1. d_commands \in Seq(Orders)
    BY DEF FenceInv, FenceTypes
  <1>2. c = d_commands[1] /\ c \in Orders /\ 1 \in DOMAIN d_commands /\ \A i \in DOMAIN d_commands : i \in Nat /\ i >= 1
    BY <1>1, InFront
  <1> HIDE DEF c
  <1>3. c.depth \in 1..MaxDepth
    BY <1>2 DEF Orders
  <1>4. /\ c.depth \in Depths /\ Waits(c.depth) /\ replies[c.depth] = Nothing
        /\ c.pool = frames[c.depth].pool /\ c.kind = order_of(frames[c.depth]) /\ c.id = frames[c.depth].id
        /\ c.kind = "commit" => c.revision = interest_revision + 1
    BY <1>2 DEF FenceInv, Exchange
  <1>5. \A i \in DOMAIN d_commands : i # 1 => d_commands[i].depth > c.depth
    <2> SUFFICES ASSUME NEW i \in DOMAIN d_commands, i # 1 PROVE d_commands[i].depth > c.depth
      OBVIOUS
    <2>1. 1 < i
      BY <1>2
    <2>2. d_commands[1].depth < d_commands[i].depth
      BY <1>2, <2>1 DEF FenceInv, Exchange
    <2>3. d_commands[i].depth \in Nat /\ c.depth \in Nat
      <3>1. d_commands[i] \in Orders
        BY <1>1
      <3> QED BY <3>1, <1>3 DEF Orders
    <2> QED BY <1>2, <2>2, <2>3
  <1>6. ASSUME NEW d \in Depths, d < c.depth, Waits(d), replies[d] = Nothing PROVE FALSE
    <2>1. PICK i \in DOMAIN d_commands : d_commands[i].depth = d
      BY <1>6 DEF FenceInv, Exchange
    <2>2. i # 1
      <3>1. c.depth # d
        BY <1>3, <1>6
      <3> QED BY <1>2, <2>1, <3>1
    <2>3. d > c.depth
      BY <1>5, <2>1, <2>2
    <2>4. d \in Nat
      BY StackTypes DEF FenceInv
    <2> QED BY <1>3, <1>6, <2>3, <2>4
  <1> QED BY <1>2, <1>3, <1>4, <1>5, <1>6 DEF c

\* The answer r goes to the handler at depth e, which asked first.
Answering(e, r) ==
  /\ d_commands # <<>> /\ e = Head(d_commands).depth /\ d_commands' = Tail(d_commands)
  /\ UNCHANGED <<frames, interest_revision, canonical, commands, delivery_reply, d_work>>
  /\ replies' = [replies EXCEPT ![e] = r] /\ r \in Answers /\ r.kind # "none"
  /\ frames[e].stage = "fence" => r.kind # "done"
  /\ frames[e].stage \in {"commit", "abort"} => r.kind # "transaction"
  /\ r.kind = "transaction" => \A d \in Depths : ~Begun(d)
Answered(e, r) ==
  /\ d_commands' \in Seq(Orders) /\ replies' \in [1..MaxDepth -> Answers]
  /\ \A d \in 1..MaxDepth : replies'[d].kind = "none" => replies'[d] = Nothing
  /\ Nesting' /\ InFlight' /\ Exchange' /\ Exclusive'
  /\ Depths' = Depths /\ e \in Depths /\ replies'[e] = r /\ r # Nothing
  /\ \A d \in Depths : d # e => replies'[d] = replies[d]

\* What answering does to the exchange, whatever it does to the driver.
LEMMA Served ==
  ASSUME FenceInv, NEW e, NEW r, Answering(e, r)
  PROVE  Answered(e, r)
  <1>0. /\ d_commands # <<>> /\ e = Head(d_commands).depth /\ d_commands' = Tail(d_commands)
        /\ UNCHANGED <<frames, interest_revision, canonical, commands, delivery_reply, d_work>>
        /\ replies' = [replies EXCEPT ![e] = r] /\ r \in Answers /\ r.kind # "none"
        /\ frames[e].stage = "fence" => r.kind # "done"
        /\ frames[e].stage \in {"commit", "abort"} => r.kind # "transaction"
        /\ r.kind = "transaction" => \A d \in Depths : ~Begun(d)
    BY DEF Answering
  <1>1. /\ e \in Depths /\ e \in 1..MaxDepth /\ Waits(e) /\ replies[e] = Nothing
        /\ \A d \in Depths : d < e /\ Waits(d) => replies[d] # Nothing
        /\ \A i \in DOMAIN d_commands : i # 1 => d_commands[i].depth > e
    BY <1>0, HeadCommand
  <1>2. d_commands \in Seq(Orders) /\ replies \in [1..MaxDepth -> Answers]
    BY DEF FenceInv, FenceTypes
  <1>3. /\ d_commands' \in Seq(Orders) /\ d_commands[1].depth = e
        /\ \A i \in DOMAIN d_commands' : i + 1 \in DOMAIN d_commands /\ d_commands'[i] = d_commands[i + 1] /\ i \in Nat /\ i >= 1
        /\ \A i \in DOMAIN d_commands : i # 1 => i - 1 \in DOMAIN d_commands' /\ d_commands'[i - 1] = d_commands[i]
    BY <1>0, <1>2, InFront
  <1>4. /\ replies' \in [1..MaxDepth -> Answers] /\ replies'[e] = r
        /\ \A d \in 1..MaxDepth : d # e => replies'[d] = replies[d]
    BY <1>0, <1>1, <1>2
  <1>5. r # Nothing
    BY <1>0 DEF Nothing
  <1>6. Depths' = Depths /\ Depths \subseteq 1..MaxDepth
    <2>1. Len(frames) <= 3
      BY Shallow DEF FenceInv
    <2>2. Len(frames) \in Nat /\ Depths = 1..Len(frames)
      BY StackTypes DEF FenceInv
    <2> QED BY <1>0, <2>1, <2>2 DEF MaxDepth, Depths
  <1>7. \A d \in 1..MaxDepth : replies'[d].kind = "none" => replies'[d] = Nothing
    BY <1>0, <1>4 DEF FenceInv, FenceTypes
  <1>8. Nesting' /\ InFlight'
    BY <1>0 DEF FenceInv, Nesting, InFlight, Depths, Waits, Ingests
  <1>9. Exchange'
    <2>1. \A d \in 1..MaxDepth : replies'[d] # Nothing => d \in Depths /\ Waits(d)
      BY <1>1, <1>4 DEF FenceInv, Exchange
    <2>2. \A d \in Depths : frames[d].stage = "fence" => replies'[d].kind # "done" /\ frames[d].id = 0
      BY <1>0, <1>4, <1>6 DEF FenceInv, Exchange
    <2>3. \A d \in Depths : frames[d].stage \in {"commit", "abort"} => replies'[d].kind # "transaction"
      BY <1>0, <1>4, <1>6 DEF FenceInv, Exchange
    <2>4. ASSUME NEW i \in DOMAIN d_commands'
          PROVE  LET c == d_commands'[i] IN
            /\ c.depth \in Depths /\ Waits(c.depth) /\ replies'[c.depth] = Nothing
            /\ c.pool = frames[c.depth].pool /\ c.kind = order_of(frames[c.depth])
            /\ c.id = frames[c.depth].id
            /\ c.kind = "commit" => c.revision = interest_revision + 1
      <3> DEFINE c == d_commands'[i]
      <3>1. i + 1 \in DOMAIN d_commands /\ c = d_commands[i + 1] /\ i + 1 # 1
        BY <1>3
      <3> HIDE DEF c
      <3>2. /\ c.depth \in Depths /\ Waits(c.depth) /\ replies[c.depth] = Nothing
            /\ c.pool = frames[c.depth].pool /\ c.kind = order_of(frames[c.depth])
            /\ c.id = frames[c.depth].id
            /\ c.kind = "commit" => c.revision = interest_revision + 1
        BY <3>1 DEF FenceInv, Exchange
      <3>3. c.depth # e
        <4>1. c.depth > e
          BY <1>1, <3>1
        <4>2. e \in Nat
          BY <1>1
        <4> QED BY <4>1, <4>2
      <3> QED BY <1>4, <1>6, <3>2, <3>3 DEF c
    <2>5. ASSUME NEW d \in Depths, Waits(d), replies'[d] = Nothing
          PROVE  \E i \in DOMAIN d_commands' : d_commands'[i].depth = d
      <3>1. d # e /\ replies[d] = Nothing
        BY <1>4, <1>5, <1>6, <2>5
      <3>2. PICK i \in DOMAIN d_commands : d_commands[i].depth = d
        BY <2>5, <3>1 DEF FenceInv, Exchange
      <3>3. i # 1
        BY <1>3, <3>1, <3>2
      <3> QED BY <1>3, <3>2, <3>3
    <2>6. ASSUME NEW i \in DOMAIN d_commands', NEW j \in DOMAIN d_commands', i < j
          PROVE  d_commands'[i].depth < d_commands'[j].depth
      <3>1. /\ i + 1 \in DOMAIN d_commands /\ d_commands'[i] = d_commands[i + 1]
            /\ j + 1 \in DOMAIN d_commands /\ d_commands'[j] = d_commands[j + 1] /\ i + 1 < j + 1
        BY <1>3, <2>6
      <3> QED BY <3>1 DEF FenceInv, Exchange
    <2>7. \A d \in Depths : Waits(d)' <=> Waits(d)
      BY <1>0 DEF Waits
    <2> QED BY <1>0, <1>6, <2>1, <2>2, <2>3, <2>4, <2>5, <2>6 DEF Exchange, Waits, Nothing
  <1>10. Exclusive'
    <2> SUFFICES ASSUME NEW d \in Depths, NEW f \in Depths, d < f, Waits(d), Waits(f)
                 PROVE  /\ replies'[d] = Nothing => replies'[f] = Nothing /\ frames[f].stage = "fence"
                        /\ replies'[d].kind = "transaction" => replies'[f].kind # "transaction" /\ frames[f].stage = "fence"
      BY <1>0, <1>6 DEF Exclusive, Waits, Nothing
    <2>1. /\ replies[d] = Nothing => replies[f] = Nothing /\ frames[f].stage = "fence"
          /\ replies[d].kind = "transaction" => replies[f].kind # "transaction" /\ frames[f].stage = "fence"
      BY DEF FenceInv, Exclusive
    <2>0. d \in Nat /\ f \in Nat
      BY StackTypes DEF FenceInv
    <2>2. CASE d = e
      <3>1. f # e
        BY <2>0, <2>2
      <3>2. replies[f] = Nothing /\ replies'[f] = replies[f] /\ frames[f].stage = "fence"
        BY <1>1, <1>4, <1>6, <2>1, <2>2, <3>1
      <3> QED BY <1>4, <1>5, <2>2, <3>2 DEF Nothing
    <2>3. CASE f = e
      <3>1. d # e
        BY <2>0, <2>3
      <3>2. replies[d] # Nothing /\ replies'[d] = replies[d] /\ replies'[f] = r
        BY <1>1, <1>4, <1>6, <2>3, <3>1
      <3>3. ASSUME replies[d].kind = "transaction", r.kind = "transaction" PROVE FALSE
        <4>1. ~Begun(d)
          BY <1>0, <3>3
        <4>2. frames[d].stage = "fence"
          BY <3>3 DEF FenceInv, Exchange, Waits
        <4> QED BY <3>3, <4>1, <4>2 DEF Begun
      <3> QED BY <2>1, <3>2, <3>3
    <2>4. CASE d # e /\ f # e
      BY <1>4, <1>6, <2>1, <2>4
    <2> QED BY <2>2, <2>3, <2>4
  <1> QED BY <1>1, <1>3, <1>4, <1>5, <1>6, <1>7, <1>8, <1>9, <1>10 DEF Answered

\* It refuses, or has stopped: no transaction begins or ends.
LEMMA RefusedKeeps ==
  ASSUME FenceInv, d_commands # <<>>, NEW e, e = Head(d_commands).depth,
         frames[e].stage = "fence" \/ ~driver_alive,
         UNCHANGED <<frames, interest_revision, canonical, commands, delivery_reply, d_work, trusted, point,
                     pools, d_revision, d_pending, d_refused, d_next_transaction, d_owners>>,
         d_paused' = d_paused \/ (d_paused' = FALSE /\ d_pending = NoTransaction),
         d_commands' = Tail(d_commands), Reply("error", 0)
  PROVE  FenceInv'
  <1> DEFINE r == [kind |-> "error", id |-> 0]
  <1>1. r \in Answers /\ r.kind = "error" /\ replies' = [replies EXCEPT ![e] = r]
    BY DEF Answers, Reply
  <1> HIDE DEF r
  <1>2. /\ d_commands' \in Seq(Orders) /\ replies' \in [1..MaxDepth -> Answers]
        /\ \A d \in 1..MaxDepth : replies'[d].kind = "none" => replies'[d] = Nothing
        /\ Nesting' /\ InFlight' /\ Exchange' /\ Exclusive'
        /\ Depths' = Depths /\ e \in Depths /\ replies'[e] = r /\ r # Nothing
        /\ \A d \in Depths : d # e => replies'[d] = replies[d]
    <2>1. Answering(e, r)
      BY <1>1 DEF Answering
    <2> QED BY <2>1, Served DEF Answered
  <1>3. FenceTypes'
    BY <1>2 DEF FenceTypes, FenceInv
  <1>4. replies[e] = Nothing
    BY HeadCommand
  <1>5. \A d \in Depths : Settling(d)' <=> Settling(d)
    BY <1>1, <1>2, <1>4 DEF Settling, Nothing
  <1>6. ASSUME driver_alive
        PROVE  \A d \in Depths : /\ Begun(d)' <=> Begun(d)
                                 /\ Refused(d)' <=> Refused(d)
                                 /\ Begun(d) => transaction_id(d)' = transaction_id(d)
    <2>1. frames[e].stage = "fence"
      BY <1>6
    <2>2. ~Begun(e) /\ ~Begun(e)' /\ ~Refused(e) /\ ~Refused(e)'
      BY <1>1, <1>2, <1>4, <2>1 DEF Begun, Refused, Nothing
    <2>3. \A d \in Depths : d # e => /\ Begun(d)' <=> Begun(d)
                                     /\ Refused(d)' <=> Refused(d)
                                     /\ transaction_id(d)' = transaction_id(d)
      BY <1>2 DEF Begun, Refused, Nothing, transaction_id
    <2> QED BY <2>2, <2>3
  <1>7. driver_alive' <=> driver_alive
    BY DEF driver_alive
  <1>8. Holding'
    <2> SUFFICES ASSUME driver_alive PROVE Holding'
      BY <1>7 DEF Holding
    <2>1. CASE d_paused' = d_paused
      BY <1>2, <1>6, <1>7, <2>1, HoldingStays DEF FenceInv
    <2>2. CASE d_paused' = FALSE /\ d_pending = NoTransaction
      <3>1. \A d \in Depths : Begun(d) => Gone(d)
        BY <2>2 DEF FenceInv, Holding, Matches
      <3>2. \A d \in Depths : Begun(d)' => Gone(d)'
        BY <1>6, <3>1 DEF Gone, NoTransaction
      <3>3. \A d \in Depths : Refused(d) => d_refused
        BY <2>2 DEF FenceInv, Holding, Matches
      <3> QED BY <1>2, <1>6, <2>2, <3>2, <3>3 DEF Holding, NoTransaction
    <2> QED BY <2>1, <2>2
  <1>9. Revisions'
    BY <1>2, <1>5 DEF FenceInv, Revisions
  <1>10. Topology'
    <2> SUFFICES ASSUME driver_alive, trusted PROVE Topology'
      BY <1>7 DEF Topology
    <2>1. \A d \in Depths : frames[d].op = "install" /\ frames[d].stage = "fence" => frames[d].pool \notin pools
      BY DEF FenceInv, Topology, Place
    <2> QED BY <1>2, <1>5, <1>6, <1>7, <2>1, TopologyStays DEF FenceInv
  <1> QED BY <1>2, <1>3, <1>8, <1>9, <1>10 DEF FenceInv

\* No handler has a transaction when the driver has none, nor an unread commit
\* when an outer one still waits for its begin.
LEMMA Unbegun ==
  ASSUME FenceInv, driver_alive, d_pending = NoTransaction, d_commands # <<>>,
         frames[Head(d_commands).depth].stage = "fence"
  PROVE  \A d \in Depths : ~Begun(d) /\ ~Settling(d) /\ ~Refused(d)
  <1> DEFINE e == Head(d_commands).depth
  <1>1. e \in Depths /\ Waits(e) /\ replies[e] = Nothing
    BY HeadCommand
  <1>3. ASSUME NEW d \in Depths, frames[d].stage \in {"commit", "abort"} PROVE FALSE
    <2>1. Waits(d)
      BY <1>3 DEF Waits
    <2>2. d = Len(frames) /\ d # e
      BY <1>3, Shallow DEF FenceInv
    <2>3. e < d
      BY <1>1, <2>2, StackTypes DEF FenceInv
    <2>4. frames[d].stage = "fence"
      BY <1>1, <2>1, <2>3 DEF FenceInv, Exclusive
    <2> QED BY <1>3, <2>4
  <1>4. \A d \in Depths : ~Begun(d)
    <2>1. \A d \in Depths : Begun(d) => Matches(d) \/ Gone(d)
      BY DEF FenceInv, Holding
    <2> QED BY <1>3, <2>1 DEF Matches, Gone
  <1> QED BY <1>3, <1>4 DEF Settling, Refused

LEMMA OpenedKeeps ==
  ASSUME FenceInv, d_commands # <<>>, NEW e, e = Head(d_commands).depth, NEW kind, NEW state,
         driver_alive, d_pending = NoTransaction, frames[e].stage = "fence", kind = kind_of(frames[e].op),
         kind \in {"add", "remove", "replace"}, state \in {"Staged", "Removing", "Replacing"},
         frames[e].op # "install" => registered(frames[e].pool) /\ state # "Staged",
         UNCHANGED <<frames, interest_revision, canonical, commands, delivery_reply, d_work, trusted, point, pools,
                     d_refused>>,
         d_commands' = Tail(d_commands), Open(kind, frames[e].pool, state)
  PROVE  FenceInv'
  <1> DEFINE t == d_next_transaction + 1
             r == [kind |-> "transaction", id |-> t]
  <1>0. d_next_transaction \in Nat /\ t \in Nat /\ t # 0
    BY DEF FenceInv, FenceTypes
  <1>1. /\ r \in Answers /\ r.kind = "transaction" /\ r.id = t /\ replies' = [replies EXCEPT ![e] = r]
    BY <1>0 DEF Answers, Open, Reply
  <1>2. /\ d_paused' = TRUE /\ d_owners' = [d_owners EXCEPT ![frames[e].pool] = state] /\ d_next_transaction' = t
        /\ d_pending' = [id |-> t, kind |-> kind, owner |-> frames[e].pool] /\ d_revision' = d_revision
    BY DEF Open
  <1> HIDE DEF r, t
  <1>3. \A d \in Depths : ~Begun(d) /\ ~Settling(d) /\ ~Refused(d)
    BY Unbegun
  <1>4. /\ d_commands' \in Seq(Orders) /\ replies' \in [1..MaxDepth -> Answers]
        /\ \A d \in 1..MaxDepth : replies'[d].kind = "none" => replies'[d] = Nothing
        /\ Nesting' /\ InFlight' /\ Exchange' /\ Exclusive'
        /\ Depths' = Depths /\ e \in Depths /\ replies'[e] = r /\ r # Nothing
        /\ \A d \in Depths : d # e => replies'[d] = replies[d]
    <2>1. Answering(e, r)
      BY <1>1, <1>3 DEF Answering
    <2> QED BY <2>1, Served DEF Answered
  <1>5. frames[e].pool \in Pool /\ frames[e].op \in {"install", "remove", "refresh"}
    <2>1. Waits(e)
      BY HeadCommand
    <2>2. frames[e] \in Frames /\ ~Ingests(e)
      BY <1>4, <2>1, StackTypes, Shallow DEF FenceInv
    <2> QED BY <1>4, <2>2 DEF FenceInv, Nesting, Frames, Ingests
  <1>6. FenceTypes'
    <2>1. d_pending' \in Transactions
      BY <1>0, <1>2, <1>5 DEF Transactions
    <2>2. d_owners' \in [Pool -> {"None", "Staged", "Active", "Removing", "Replacing"}]
      BY <1>2 DEF FenceInv, FenceTypes
    <2> QED BY <1>0, <1>2, <1>4, <2>1, <2>2 DEF FenceTypes, FenceInv
  <1>7. \A d \in Depths : (Begun(d)' <=> d = e) /\ ~Settling(d)' /\ ~Refused(d)'
    <2>1. \A d \in Depths : d # e => ~Begun(d)' /\ ~Settling(d)' /\ ~Refused(d)'
      BY <1>3, <1>4 DEF Begun, Settling, Refused, Nothing
    <2>2. Begun(e)' /\ ~Settling(e)' /\ ~Refused(e)'
      BY <1>1, <1>4 DEF Begun, Settling, Refused
    <2> QED BY <2>1, <2>2
  <1>8. Holding'
    <2>1. d_pending' # NoTransaction /\ d_pending'.id = t /\ d_pending'.kind = kind /\ d_pending'.owner = frames[e].pool
      BY <1>0, <1>2 DEF NoTransaction
    <2>2. transaction_id(e)' = t
      BY <1>1, <1>4 DEF transaction_id
    <2>3. Matches(e)'
      BY <2>1, <2>2 DEF Matches
    <2> QED BY <1>2, <1>4, <1>7, <2>1, <2>3 DEF Holding
  <1>9. Revisions'
    BY <1>2, <1>3, <1>4, <1>7 DEF FenceInv, Revisions
  <1>10. Topology'
    <2> SUFFICES ASSUME trusted PROVE Topology'
      BY DEF Topology
    <2>1. \A p \in Pool : (registered(p) <=> p \in pools) /\ (~d_refused => Settled(p))
      BY <1>3 DEF FenceInv, Topology, Touched
    <2>2. \A p \in Pool : p # frames[e].pool => d_owners'[p] = d_owners[p]
      BY <1>2, <1>5 DEF FenceInv, FenceTypes
    <2>3. \A p \in Pool : p = frames[e].pool => Touched(p)'
      BY <1>4, <1>7 DEF Touched
    <2>4. \A p \in Pool : Touched(p)' \/ ((registered(p)' <=> p \in pools) /\ (~d_refused => Settled(p)'))
      BY <2>1, <2>2, <2>3 DEF registered, Settled
    <2>5. \A d \in Depths : frames[d].op = "install" /\ frames[d].stage = "fence" => frames[d].pool \notin pools
      BY DEF FenceInv, Topology, Place
    <2>6. frames[e].op # "install" => frames[e].pool \in pools /\ registered(frames[e].pool)'
      <3>1. d_owners'[frames[e].pool] = state
        BY <1>2, <1>5 DEF FenceInv, FenceTypes
      <3> QED BY <1>5, <2>1, <3>1 DEF registered
    <2>7. frames[e].op = "install" => (frames[e].pool \in pools) = (frames[e].stage = "commit")
      BY <1>4, <2>5
    <2>8. \A d \in Depths : Place(d, frames[d])'
      BY <1>4, <1>7, <2>5, <2>6, <2>7 DEF Place
    <2> QED BY <1>4, <2>4, <2>8 DEF Topology
  <1> QED BY <1>4, <1>6, <1>8, <1>9, <1>10 DEF FenceInv

\* A handler that waits for the end of its transaction holds the only one.
LEMMA HoldsAlone ==
  ASSUME FenceInv, NEW e \in Depths, frames[e].stage \in {"commit", "abort"}
  PROVE  /\ e = Len(frames)
         /\ \A d \in Depths : d # e => ~Settling(d) /\ ~Refused(d) /\ frames[d].stage \notin {"commit", "abort"}
         /\ \A d \in Depths : d # e => ~Begun(d)
  <1>1. e = Len(frames) /\ \A d \in Depths : Waits(d) /\ d # Len(frames) => frames[d].stage = "fence"
    BY Shallow DEF FenceInv
  <1>2. \A d \in Depths : d # e => ~Settling(d) /\ ~Refused(d) /\ frames[d].stage \notin {"commit", "abort"}
    BY <1>1 DEF Settling, Refused, Waits
  <1>3. ASSUME NEW d \in Depths, d # e, Begun(d) PROVE FALSE
    <2>1. frames[d].stage = "fence" /\ replies[d].kind = "transaction" /\ Waits(d) /\ Waits(e)
      BY <1>2, <1>3 DEF Begun, Waits
    <2>2. d < e
      BY <1>1, <1>3, StackTypes DEF FenceInv
    <2> QED BY <2>1, <2>2 DEF FenceInv, Exclusive
  <1> QED BY <1>1, <1>2, <1>3

LEMMA ClosedKeeps ==
  ASSUME FenceInv, d_commands # <<>>, NEW e, e = Head(d_commands).depth, NEW state,
         driver_alive, d_pending # NoTransaction, frames[e].stage \in {"commit", "abort"},
         state = (IF frames[e].stage = "commit"
                  THEN IF d_pending.kind = "remove" THEN "None" ELSE "Active"
                  ELSE IF d_pending.kind = "add" THEN "None" ELSE "Active"),
         UNCHANGED <<frames, interest_revision, canonical, commands, delivery_reply, d_work, trusted, point, pools,
                     d_refused>>,
         d_revision' = (IF frames[e].stage = "commit" THEN Head(d_commands).revision ELSE d_revision),
         d_commands' = Tail(d_commands), Close(state)
  PROVE  FenceInv'
  <1> DEFINE r == [kind |-> "done", id |-> 0]
  <1>1. /\ r \in Answers /\ r.kind = "done" /\ replies' = [replies EXCEPT ![e] = r]
    BY DEF Answers, Close, Reply
  <1>2. /\ d_paused' = FALSE /\ d_owners' = [d_owners EXCEPT ![d_pending.owner] = state]
        /\ d_pending' = NoTransaction /\ d_next_transaction' = d_next_transaction
    BY DEF Close
  <1> HIDE DEF r
  <1>3. /\ d_commands' \in Seq(Orders) /\ replies' \in [1..MaxDepth -> Answers]
        /\ \A d \in 1..MaxDepth : replies'[d].kind = "none" => replies'[d] = Nothing
        /\ Nesting' /\ InFlight' /\ Exchange' /\ Exclusive'
        /\ Depths' = Depths /\ e \in Depths /\ replies'[e] = r /\ r # Nothing
        /\ \A d \in Depths : d # e => replies'[d] = replies[d]
    <2>1. Answering(e, r)
      BY <1>1 DEF Answering
    <2> QED BY <2>1, Served DEF Answered
  <1>4. /\ replies[e] = Nothing /\ Waits(e) /\ Head(d_commands) \in Orders
        /\ Head(d_commands).kind = order_of(frames[e])
        /\ Head(d_commands).kind = "commit" => Head(d_commands).revision = interest_revision + 1
    BY HeadCommand
  <1>5. /\ \A d \in Depths : d # e => ~Settling(d) /\ ~Refused(d) /\ frames[d].stage \notin {"commit", "abort"}
        /\ \A d \in Depths : d # e => ~Begun(d)
    BY <1>3, HoldsAlone
  <1>6. Begun(e)
    BY <1>4 DEF Begun
  <1>7. d_pending.kind = kind_of(frames[e].op) /\ d_pending.owner = frames[e].pool
    BY <1>3, <1>6 DEF FenceInv, Holding, Matches, Gone
  <1>8. frames[e].pool \in Pool /\ frames[e].op \in {"install", "remove", "refresh"}
    <2>1. frames[e] \in Frames /\ ~Ingests(e)
      BY <1>3, <1>4, StackTypes, Shallow DEF FenceInv
    <2> QED BY <1>3, <2>1 DEF FenceInv, Nesting, Frames, Ingests
  <1>9. \A d \in Depths : ~Begun(d)' /\ ~Refused(d)' /\ (Settling(d)' <=> d = e /\ frames[e].stage = "commit")
    <2>1. \A d \in Depths : d # e => ~Begun(d)' /\ ~Settling(d)' /\ ~Refused(d)'
      BY <1>3, <1>5 DEF Begun, Settling, Refused, Nothing
    <2>2. ~Begun(e)' /\ ~Refused(e)' /\ (Settling(e)' <=> frames[e].stage = "commit")
      BY <1>1, <1>3 DEF Begun, Settling, Refused, Nothing
    <2> QED BY <2>1, <2>2
  <1>10. FenceTypes'
    <2>1. d_owners' \in [Pool -> {"None", "Staged", "Active", "Removing", "Replacing"}]
      BY <1>2 DEF FenceInv, FenceTypes
    <2>2. NoTransaction \in Transactions
      BY DEF NoTransaction, Transactions
    <2>3. d_revision' \in Nat
      BY <1>4 DEF FenceInv, FenceTypes, Orders
    <2> QED BY <1>2, <1>3, <2>1, <2>2, <2>3 DEF FenceInv, FenceTypes
  <1>11. Holding'
    BY <1>2, <1>3, <1>9 DEF Holding, NoTransaction
  <1>12. Revisions'
    <2>1. ~Settling(e)
      BY <1>4 DEF Settling, Nothing
    <2>2. trusted => d_revision = interest_revision
      BY <1>5, <2>1 DEF FenceInv, Revisions
    <2>3. frames[e].stage = "commit" => d_revision' = interest_revision + 1
      BY <1>4 DEF order_of
    <2> QED BY <1>3, <1>9, <2>2, <2>3 DEF Revisions
  <1>13. Topology'
    <2> SUFFICES ASSUME trusted PROVE Topology'
      BY DEF Topology
    <2>1. \A p \in Pool : p # frames[e].pool => ~Touched(p)
      BY <1>5 DEF Touched
    <2>2. \A p \in Pool : p # frames[e].pool => (registered(p)' <=> p \in pools) /\ (~d_refused => Settled(p)')
      <3>1. \A p \in Pool : p # frames[e].pool => d_owners'[p] = d_owners[p]
        BY <1>2, <1>7 DEF FenceInv, FenceTypes
      <3>2. \A p \in Pool : p # frames[e].pool => (registered(p) <=> p \in pools) /\ (~d_refused => Settled(p))
        BY <2>1 DEF FenceInv, Topology
      <3> QED BY <3>1, <3>2 DEF registered, Settled
    <2>3. d_owners'[frames[e].pool] = state
      BY <1>2, <1>7, <1>8 DEF FenceInv, FenceTypes
    <2>4. (frames[e].pool \in pools) = (frames[e].op # "install" \/ frames[e].stage = "commit")
      <3>1. frames[e].op # "install" => frames[e].pool \in pools
        BY <1>3, <1>6 DEF FenceInv, Topology, Place
      <3>2. frames[e].op = "install" => (frames[e].pool \in pools) = (frames[e].stage = "commit")
        BY <1>3, <1>6 DEF FenceInv, Topology, Place
      <3> QED BY <3>1, <3>2
    <2>5. state = IF frames[e].stage = "commit" THEN IF frames[e].op = "remove" THEN "None" ELSE "Active"
                  ELSE IF frames[e].op = "install" THEN "None" ELSE "Active"
      BY <1>7, <1>8 DEF kind_of
    <2>6. \A d \in Depths : frames[d].op = "install" /\ frames[d].stage = "fence" => frames[d].pool \notin pools
      BY DEF FenceInv, Topology, Place
    <2>7. \A p \in Pool : Touched(p)' \/ ((registered(p)' <=> p \in pools) /\ (~d_refused => Settled(p)'))
      <3>1. CASE frames[e].stage = "commit"
        <4>1. Touched(frames[e].pool)'
          BY <1>3, <1>9, <3>1 DEF Touched
        <4> QED BY <2>2, <4>1
      <3>2. CASE frames[e].stage # "commit"
        <4>1. LET p == frames[e].pool IN (registered(p)' <=> p \in pools) /\ Settled(p)'
          BY <2>3, <2>4, <2>5, <3>2 DEF registered, Settled
        <4> QED BY <2>2, <4>1
      <3> QED BY <3>1, <3>2
    <2>8. frames[e].stage = "commit" => d_owners'[frames[e].pool] = IF frames[e].op = "remove" THEN "None" ELSE "Active"
      BY <2>3, <2>5
    <2>9. \A d \in Depths : Place(d, frames[d])'
      BY <1>3, <1>9, <2>4, <2>6, <2>8 DEF Place
    <2> QED BY <1>3, <2>7, <2>9 DEF Topology
  <1> QED BY <1>3, <1>10, <1>11, <1>12, <1>13 DEF FenceInv

LEMMA Taken ==
  ASSUME FenceInv, NEW kind, Take(kind)
  PROVE  /\ driver_alive /\ d_commands # <<>> /\ d_commands' = Tail(d_commands) /\ Head(d_commands).kind = kind
         /\ kind = order_of(frames[Head(d_commands).depth]) /\ Head(d_commands).pool = frames[Head(d_commands).depth].pool
         /\ Head(d_commands).id = frames[Head(d_commands).depth].id
         /\ Head(d_commands).depth \in Depths /\ Waits(Head(d_commands).depth) /\ replies[Head(d_commands).depth] = Nothing
         /\ frames[Head(d_commands).depth].op \in {"install", "remove", "refresh"}
  <1>1. driver_alive /\ d_commands # <<>> /\ d_commands' = Tail(d_commands) /\ Head(d_commands).kind = kind
    BY DEF Take, d_serves, driver_alive
  <1> DEFINE e == Head(d_commands).depth
  <1>2. /\ e \in Depths /\ Waits(e) /\ replies[e] = Nothing /\ Head(d_commands).kind = order_of(frames[e])
        /\ Head(d_commands).pool = frames[e].pool /\ Head(d_commands).id = frames[e].id
    BY <1>1, HeadCommand
  <1>3. frames[e] \in Frames /\ ~Ingests(e)
    BY <1>2, StackTypes, Shallow DEF FenceInv
  <1>4. frames[e].op \in {"install", "remove", "refresh"}
    BY <1>3 DEF Frames, Ingests
  <1> QED BY <1>1, <1>2, <1>4

LEMMA BeginAddKeeps == ASSUME FenceInv, begin_add PROVE FenceInv'
  <1> DEFINE e == Head(d_commands).depth
  <1>1. UNCHANGED <<frames, interest_revision, canonical, commands, delivery_reply, d_work, trusted, point, pools,
                    d_refused>>
    BY DEF begin_add, actor_vars
  <1>2. /\ driver_alive /\ d_commands # <<>> /\ d_commands' = Tail(d_commands) /\ Head(d_commands).pool = frames[e].pool
        /\ frames[e].stage = "fence" /\ frames[e].op = "install"
    <2>1. Take("begin_add")
      BY DEF begin_add
    <2> QED BY <2>1, Taken DEF order_of, begin_command, Waits
  <1>3. CASE d_pending # NoTransaction /\ Refuse
    BY <1>1, <1>2, <1>3, RefusedKeeps DEF Refuse
  <1>4. CASE d_pending = NoTransaction /\ Open("add", Head(d_commands).pool, "Staged")
    <2>1. kind_of(frames[e].op) = "add"
      BY <1>2 DEF kind_of
    <2> QED BY <1>1, <1>2, <1>4, <2>1, OpenedKeeps
  <1>5. CASE d_pending = NoTransaction /\ Resume
    BY <1>1, <1>2, <1>5, RefusedKeeps DEF Resume
  <1> QED BY <1>3, <1>4, <1>5 DEF begin_add

LEMMA BeginRemoveKeeps == ASSUME FenceInv, begin_remove PROVE FenceInv'
  <1> DEFINE e == Head(d_commands).depth
  <1>1. UNCHANGED <<frames, interest_revision, canonical, commands, delivery_reply, d_work, trusted, point, pools,
                    d_refused>>
    BY DEF begin_remove, actor_vars
  <1>2. /\ driver_alive /\ d_commands # <<>> /\ d_commands' = Tail(d_commands) /\ Head(d_commands).pool = frames[e].pool
        /\ frames[e].stage = "fence" /\ frames[e].op = "remove"
    <2>1. Take("begin_remove")
      BY DEF begin_remove
    <2> QED BY <2>1, Taken DEF order_of, begin_command, Waits
  <1>3. CASE Refuse
    BY <1>1, <1>2, <1>3, RefusedKeeps DEF Refuse
  <1>4. CASE d_pending = NoTransaction /\ d_owners[frames[e].pool] = "Active" /\ Open("remove", frames[e].pool, "Removing")
    <2>1. kind_of(frames[e].op) = "remove"
      BY <1>2 DEF kind_of
    <2>2. registered(frames[e].pool)
      BY <1>4 DEF registered
    <2> QED BY <1>1, <1>2, <1>4, <2>1, <2>2, OpenedKeeps
  <1>5. CASE d_pending = NoTransaction /\ Resume
    BY <1>1, <1>2, <1>5, RefusedKeeps DEF Resume
  <1> QED BY <1>2, <1>3, <1>4, <1>5 DEF begin_remove

LEMMA BeginReplaceKeeps == ASSUME FenceInv, begin_replace PROVE FenceInv'
  <1> DEFINE e == Head(d_commands).depth
  <1>1. UNCHANGED <<frames, interest_revision, canonical, commands, delivery_reply, d_work, trusted, point, pools,
                    d_refused>>
    BY DEF begin_replace, actor_vars
  <1>2. /\ driver_alive /\ d_commands # <<>> /\ d_commands' = Tail(d_commands) /\ Head(d_commands).pool = frames[e].pool
        /\ frames[e].stage = "fence" /\ frames[e].op = "refresh"
    <2>1. Take("begin_replace")
      BY DEF begin_replace
    <2> QED BY <2>1, Taken DEF order_of, begin_command, Waits
  <1>3. CASE Refuse
    BY <1>1, <1>2, <1>3, RefusedKeeps DEF Refuse
  <1>4. CASE d_pending = NoTransaction /\ registered(frames[e].pool) /\ Open("replace", frames[e].pool, "Replacing")
    <2>1. kind_of(frames[e].op) = "replace"
      BY <1>2 DEF kind_of
    <2> QED BY <1>1, <1>2, <1>4, <2>1, OpenedKeeps
  <1>5. CASE d_pending = NoTransaction /\ Resume
    BY <1>1, <1>2, <1>5, RefusedKeeps DEF Resume
  <1> QED BY <1>2, <1>3, <1>4, <1>5 DEF begin_replace

LEMMA EndsOwn ==
  ASSUME FenceInv, driver_alive, d_commands # <<>>, frames[Head(d_commands).depth].stage \in {"commit", "abort"}
  PROVE  LET e == Head(d_commands).depth IN
         /\ e \in Depths /\ replies[e] = Nothing /\ Begun(e)
         /\ (Matches(e) /\ ~stale_transaction) \/ (Gone(e) /\ stale_transaction)
  <1> DEFINE e == Head(d_commands).depth
  <1>1. e \in Depths /\ replies[e] = Nothing /\ Head(d_commands).id = frames[e].id
    BY HeadCommand
  <1>2. Begun(e)
    BY <1>1 DEF Begun
  <1>3. Matches(e) \/ Gone(e)
    BY <1>1, <1>2 DEF FenceInv, Holding
  <1>4. transaction_id(e) = Head(d_commands).id
    BY <1>1 DEF transaction_id
  <1> QED BY <1>1, <1>2, <1>3, <1>4 DEF Matches, Gone, stale_transaction

\* The driver refuses to end the transaction of the handler at depth e: a commit
\* for an owner's state, or the abort of one it has given up.
LEMMA NotEndedKeeps ==
  ASSUME FenceInv, d_commands # <<>>, NEW e, e = Head(d_commands).depth, driver_alive,
         UNCHANGED <<frames, interest_revision, canonical, commands, delivery_reply, d_work, trusted, point,
                     pools, d_paused, d_revision, d_next_transaction, d_owners>>,
         d_commands' = Tail(d_commands), Reply("error", 0), d_refused' \in BOOLEAN,
         \/ /\ frames[e].stage = "commit" /\ Matches(e)
            /\ d_pending' = d_pending /\ d_refused' = (d_refused \/ d_pending.kind # "add")
         \/ /\ frames[e].stage = "commit" /\ Matches(e)
            /\ d_pending' = NoTransaction /\ d_refused' = TRUE
         \/ /\ frames[e].stage = "abort" /\ Gone(e) /\ UNCHANGED <<d_pending, d_refused>>
  PROVE  FenceInv'
  <1> DEFINE r == [kind |-> "error", id |-> 0]
  <1>1. r \in Answers /\ r.kind = "error" /\ replies' = [replies EXCEPT ![e] = r]
    BY DEF Answers, Reply
  <1> HIDE DEF r
  <1>2. /\ d_commands' \in Seq(Orders) /\ replies' \in [1..MaxDepth -> Answers]
        /\ \A d \in 1..MaxDepth : replies'[d].kind = "none" => replies'[d] = Nothing
        /\ Nesting' /\ InFlight' /\ Exchange' /\ Exclusive'
        /\ Depths' = Depths /\ e \in Depths /\ replies'[e] = r /\ r # Nothing
        /\ \A d \in Depths : d # e => replies'[d] = replies[d]
    <2>1. Answering(e, r)
      BY <1>1 DEF Answering
    <2> QED BY <2>1, Served DEF Answered
  <1>3. FenceTypes'
    <2>1. NoTransaction \in Transactions
      BY DEF NoTransaction, Transactions
    <2> QED BY <1>2, <2>1 DEF FenceTypes, FenceInv
  <1>4. replies[e] = Nothing /\ Waits(e)
    BY HeadCommand
  <1>5. Begun(e) /\ ~Settling(e) /\ ~Refused(e)
    BY <1>4 DEF Begun, Settling, Refused, Nothing
  <1>6. /\ \A d \in Depths : d # e => ~Settling(d) /\ ~Refused(d) /\ frames[d].stage \notin {"commit", "abort"}
        /\ \A d \in Depths : d # e => ~Begun(d)
    BY <1>2, HoldsAlone
  <1>7. \A d \in Depths : ~Begun(d)' /\ ~Settling(d)' /\ (Refused(d)' <=> d = e /\ frames[e].stage = "commit")
    <2>1. \A d \in Depths : d # e => ~Begun(d)' /\ ~Settling(d)' /\ ~Refused(d)'
      BY <1>2, <1>6 DEF Begun, Settling, Refused, Nothing
    <2>2. ~Begun(e)' /\ ~Settling(e)' /\ (Refused(e)' <=> frames[e].stage = "commit")
      BY <1>1, <1>2 DEF Begun, Settling, Refused, Nothing
    <2> QED BY <2>1, <2>2
  <1>8. driver_alive' <=> driver_alive
    BY DEF driver_alive
  <1>9. frames[e].op \in {"install", "remove", "refresh"}
    <2>1. frames[e] \in Frames /\ ~Ingests(e)
      BY <1>2, <1>4, StackTypes, Shallow DEF FenceInv
    <2> QED BY <2>1 DEF Frames, Ingests
  <1>10. Holding'
    <2>1. CASE frames[e].stage = "abort"
      <3>1. d_refused /\ d_pending = NoTransaction /\ d_refused' = d_refused /\ d_pending' = d_pending
        BY <2>1 DEF Gone
      <3> QED BY <1>2, <1>7, <2>1, <3>1 DEF Holding, NoTransaction
    <2>2. CASE frames[e].stage = "commit"
      <3>1. Matches(e)
        BY <2>2
      <3>2. d_pending # NoTransaction /\ d_paused
        BY <3>1 DEF FenceInv, Holding, Matches
      <3>3. frames[e].op # "install" => d_refused'
        BY <1>9, <2>2, <3>1 DEF Matches, kind_of
      <3>4. Matches(e)' \/ (d_refused' /\ d_pending' = NoTransaction)
        BY <2>2, <3>1 DEF Matches, transaction_id, NoTransaction
      <3>5. Refused(e)'
        BY <1>2, <1>7, <2>2
      <3>6. ~d_refused' => d_pending' = d_pending
        BY <2>2
      <3>7. \A d \in Depths' : Refused(d)' =>
               IF frames'[d].op = "install" THEN Matches(d)' \/ (d_refused' /\ d_pending' = NoTransaction) ELSE d_refused'
        BY <1>2, <1>7, <3>3, <3>4
      <3>8. d_paused'
        BY <3>2
      <3>9. ~d_refused' => d_pending' # NoTransaction
        BY <3>2, <3>6
      <3>10. \E d \in Depths' : Begun(d)' \/ Refused(d)'
        BY <1>2, <3>5
      <3> QED BY <1>2, <1>7, <3>7, <3>8, <3>9, <3>10 DEF Holding, NoTransaction
    <2> QED BY <2>1, <2>2
  <1>11. Revisions'
    <2>1. \A d \in Depths : ~Settling(d)
      BY <1>5, <1>6
    <2> QED BY <1>2, <1>7, <2>1 DEF FenceInv, Revisions
  <1>12. Topology'
    <2> SUFFICES ASSUME trusted PROVE Topology'
      BY DEF Topology
    <2>0. frames[e].stage = "commit"
      BY DEF Gone
    <2>1. \A p \in Pool : Touched(p) => Touched(p)'
      BY <1>2, <1>6, <1>7, <2>0 DEF Touched
    <2>2. \A p \in Pool : Touched(p)' \/ ((registered(p)' <=> p \in pools) /\ (~d_refused' => Settled(p)'))
      <3>1. \A p \in Pool : Touched(p) \/ ((registered(p) <=> p \in pools) /\ (~d_refused => Settled(p)))
        BY DEF FenceInv, Topology
      <3>2. ~d_refused' => ~d_refused
        BY DEF FenceInv, FenceTypes
      <3>3. \A p \in Pool : (registered(p)' <=> registered(p)) /\ (Settled(p) => Settled(p)')
        BY DEF registered, Settled
      <3> QED BY <2>1, <3>1, <3>2, <3>3
    <2>3. \A d \in Depths : Place(d, frames[d])
      BY DEF FenceInv, Topology
    <2>4. ASSUME NEW d \in Depths PROVE Place(d, frames[d])'
      <3>1. Place(d, frames[d])
        BY <2>3
      <3>2. ~Begun(d)' /\ ~Settling(d)' /\ (Refused(d)' => Begun(d))
        BY <1>5, <1>7
      <3> QED BY <3>1, <3>2 DEF Place, registered
    <2> QED BY <1>2, <2>2, <2>4 DEF Topology
  <1> QED BY <1>2, <1>3, <1>10, <1>11, <1>12 DEF FenceInv

LEMMA CommitKeeps == ASSUME FenceInv, commit PROVE FenceInv'
  <1> DEFINE e == Head(d_commands).depth
  <1>1. UNCHANGED <<frames, interest_revision, canonical, commands, delivery_reply, d_work, trusted, point, pools>>
    BY DEF commit, actor_vars
  <1>2. /\ driver_alive /\ d_commands # <<>> /\ d_commands' = Tail(d_commands) /\ frames[e].stage = "commit"
    <2>1. Take("commit")
      BY DEF commit
    <2> QED BY <2>1, Taken DEF order_of, begin_command, Waits
  <1>3. Matches(e) /\ ~stale_transaction
    BY <1>2, EndsOwn DEF Gone
  <1>4. CASE /\ Close(IF d_pending.kind = "remove" THEN "None" ELSE "Active") /\ d_revision' = Head(d_commands).revision
             /\ UNCHANGED d_refused
    <2>1. d_pending # NoTransaction
      BY <1>3 DEF Matches
    <2> QED BY <1>1, <1>2, <1>4, <2>1, ClosedKeeps
  <1>5. CASE owner_state_refused
    <2>1. d_refused' \in BOOLEAN
      BY <1>5 DEF owner_state_refused, FenceInv, FenceTypes
    <2> QED BY <1>1, <1>2, <1>3, <1>5, <2>1, NotEndedKeeps DEF owner_state_refused, Refuse
  <1>6. CASE owner_step_refused
    BY <1>1, <1>2, <1>3, <1>6, NotEndedKeeps DEF owner_step_refused
  <1> QED BY <1>3, <1>4, <1>5, <1>6 DEF commit

LEMMA AbortKeeps == ASSUME FenceInv, abort PROVE FenceInv'
  <1> DEFINE e == Head(d_commands).depth
  <1>1. UNCHANGED <<frames, interest_revision, canonical, commands, delivery_reply, d_work, trusted, point, pools,
                    d_refused>>
    BY DEF abort, actor_vars
  <1>2. /\ driver_alive /\ d_commands # <<>> /\ d_commands' = Tail(d_commands) /\ frames[e].stage = "abort"
    <2>1. Take("abort")
      BY DEF abort
    <2> QED BY <2>1, Taken DEF order_of, begin_command, Waits
  <1>3. (Matches(e) /\ ~stale_transaction) \/ (Gone(e) /\ stale_transaction)
    BY <1>2, EndsOwn
  <1>4. CASE Matches(e) /\ ~stale_transaction
    <2>1. /\ Close(IF d_pending.kind = "add" THEN "None" ELSE "Active") /\ d_revision' = d_revision
      BY <1>4 DEF abort
    <2>2. d_pending # NoTransaction
      BY <1>4 DEF Matches
    <2> QED BY <1>1, <1>2, <2>1, <2>2, ClosedKeeps
  <1>5. CASE Gone(e) /\ stale_transaction
    <2>1. Refuse
      BY <1>5 DEF abort
    <2>2. d_refused' \in BOOLEAN
      BY <1>1 DEF FenceInv, FenceTypes
    <2> QED BY <1>1, <1>2, <1>5, <2>1, <2>2, NotEndedKeeps DEF Refuse
  <1> QED BY <1>3, <1>4, <1>5

LEMMA StoppedKeeps == ASSUME FenceInv, d_closed PROVE FenceInv'
  <1>1. UNCHANGED <<frames, interest_revision, canonical, commands, delivery_reply, trusted, point, pools>>
    BY DEF d_closed, actor_vars
  <1>2. /\ ~driver_alive /\ d_commands # <<>> /\ d_commands' = Tail(d_commands) /\ Reply("error", 0)
        /\ UNCHANGED <<d_work, d_paused, d_revision, d_pending, d_refused, d_next_transaction, d_owners>>
    BY DEF d_closed, driver_alive, driver_vars
  <1> QED BY <1>1, <1>2, RefusedKeeps

-----------------------------------------------------------------------------
(* The actor: steps of an ingest, which waits for nothing from the driver.   *)

\* The handlers that wait are the same before and after.
LEMMA AsideKeeps ==
  ASSUME FenceInv,
         UNCHANGED <<replies, d_commands, interest_revision, d_revision, pools, d_pending, d_refused, d_paused, d_owners, d_work>>,
         trusted' => trusted, FenceTypes', Nesting', InFlight',
         \A d \in Depths : Waits(d) => d \in Depths' /\ frames'[d] = frames[d],
         \A d \in Depths' : Waits(d)' => d \in Depths /\ frames'[d] = frames[d]
  PROVE  FenceInv'
  <1>1. \A d \in Depths' : Waits(d)' => d \in Depths /\ Waits(d) /\ frames'[d] = frames[d]
    BY DEF Waits
  <1>2. \A d \in Depths : Waits(d) => d \in Depths' /\ Waits(d)' /\ frames'[d] = frames[d]
    BY DEF Waits
  <1>3. Exchange'
    <2>1. \A d \in 1..MaxDepth : replies[d] # Nothing => d \in Depths' /\ Waits(d)'
      BY <1>2 DEF FenceInv, Exchange
    <2>2. \A d \in Depths' : frames'[d].stage = "fence" => replies[d].kind # "done" /\ frames'[d].id = 0
      BY <1>1 DEF FenceInv, Exchange, Waits
    <2>3. \A d \in Depths' : frames'[d].stage \in {"commit", "abort"} => replies[d].kind # "transaction"
      BY <1>1 DEF FenceInv, Exchange, Waits
    <2>4. \A i \in DOMAIN d_commands : LET c == d_commands[i] IN
            /\ c.depth \in Depths' /\ Waits(c.depth)' /\ replies[c.depth] = Nothing
            /\ c.pool = frames'[c.depth].pool /\ c.kind = order_of(frames'[c.depth])
            /\ c.id = frames'[c.depth].id
            /\ c.kind = "commit" => c.revision = interest_revision + 1
      BY <1>2 DEF FenceInv, Exchange
    <2>5. \A d \in Depths' : Waits(d)' /\ replies[d] = Nothing =>
            \E i \in DOMAIN d_commands : d_commands[i].depth = d
      BY <1>1 DEF FenceInv, Exchange
    <2>6. \A i, j \in DOMAIN d_commands : i < j => d_commands[i].depth < d_commands[j].depth
      BY DEF FenceInv, Exchange
    <2> QED BY <2>1, <2>2, <2>3, <2>4, <2>5, <2>6 DEF Exchange, Waits, Nothing
  <1>4. \A d \in Depths' : /\ Begun(d)' => d \in Depths /\ Begun(d) /\ frames'[d] = frames[d]
                           /\ Settling(d)' => d \in Depths /\ Settling(d) /\ frames'[d] = frames[d]
                           /\ Refused(d)' => d \in Depths /\ Refused(d) /\ frames'[d] = frames[d]
    BY <1>1 DEF Begun, Settling, Refused, Waits, Nothing
  <1>5. \A d \in Depths : /\ Begun(d) => d \in Depths' /\ Begun(d)' /\ frames'[d] = frames[d]
                          /\ Settling(d) => d \in Depths' /\ Settling(d)' /\ frames'[d] = frames[d]
                          /\ Refused(d) => d \in Depths' /\ Refused(d)' /\ frames'[d] = frames[d]
    BY <1>2 DEF Begun, Settling, Refused, Waits, Nothing
  <1>6. driver_alive' <=> driver_alive
    BY DEF driver_alive
  <1>7. Holding'
    <2>1. \A d \in Depths' : Begun(d)' => transaction_id(d)' = transaction_id(d)
      BY <1>4 DEF transaction_id
    <2> QED BY <1>4, <1>5, <1>6, <2>1, HoldingStays DEF FenceInv
  <1>8. Exclusive'
    <2>1. \A d, e \in Depths' : d < e /\ Waits(d)' /\ Waits(e)' =>
            /\ replies[d] = Nothing => replies[e] = Nothing /\ frames'[e].stage = "fence"
            /\ replies[d].kind = "transaction" => replies[e].kind # "transaction" /\ frames'[e].stage = "fence"
      BY <1>1 DEF FenceInv, Exclusive
    <2> QED BY <2>1 DEF Exclusive, Nothing
  <1>9. Revisions'
    BY <1>4, <1>5 DEF FenceInv, Revisions
  <1>10. Topology'
    <2> SUFFICES ASSUME driver_alive, trusted PROVE Topology'
      BY <1>6 DEF Topology
    <2>1. \A d \in Depths' : frames'[d].op = "install" /\ frames'[d].stage = "fence" => frames'[d].pool \notin pools
      BY <1>1 DEF FenceInv, Topology, Place, Waits
    <2> QED BY <1>4, <1>5, <1>6, <2>1, TopologyStays DEF FenceInv
  <1> QED BY <1>3, <1>7, <1>8, <1>9, <1>10 DEF FenceInv

LEMMA IngestKeeps == ASSUME FenceInv, ingest PROVE FenceInv'
  <1>1. /\ UNCHANGED <<interest_revision, pools, commands, d_commands, replies, d_paused, d_revision, d_pending, d_refused,
                       d_next_transaction, d_owners, d_work>>
        /\ canonical # <<>> /\ canonical' = Tail(canonical) /\ (frames = <<>> \/ At("fence"))
    BY DEF ingest, driver_vars
  <1>2. /\ d_work.kind = "deliver" /\ d_work.submitted = TRUE /\ delivery_reply = "none" /\ Len(canonical) = 1
        /\ \A d \in Depths : ~Ingests(d)
    BY <1>1 DEF FenceInv, InFlight
  <1>3. canonical' = <<>> /\ canonical' \in Seq([revision : Nat])
    <2>1. canonical \in Seq([revision : Nat])
      BY DEF FenceInv, FenceTypes
    <2>2. Tail(canonical) \in Seq([revision : Nat]) /\ Len(Tail(canonical)) = 0
      BY <1>1, <1>2, <2>1, InFront
    <2> QED BY <1>1, <2>2, EmptySeq
  <1>4. \A i \in DOMAIN commands : commands[i].op # "ingest_preconfirmation"
    BY <1>2 DEF FenceInv, InFlight
  <1>5. CASE UNCHANGED <<point, frames>> /\ delivery_reply' = "error" /\ (trusted' = FALSE \/ trusted' = trusted)
    <2>1. FenceTypes'
      BY <1>1, <1>3, <1>5 DEF FenceInv, FenceTypes
    <2>2. InFlight'
      BY <1>1, <1>2, <1>3, <1>4, <1>5 DEF InFlight, Depths, Ingests
    <2> QED BY <1>1, <1>5, <2>1, <2>2, ElsewhereKeeps DEF driver_alive
  <1>6. ASSUME NEW orphans \in SUBSET Pool, point' = point + 1, UNCHANGED <<trusted, delivery_reply>>,
               Push([Frame("ingest", "none", point, "reorg_actions") EXCEPT !.orphans = orphans])
        PROVE  FenceInv'
    <2> DEFINE f == [Frame("ingest", "none", point, "reorg_actions") EXCEPT !.orphans = orphans]
    <2>1. f \in Frames /\ f.op = "ingest" /\ f.stage = "reorg_actions" /\ frames' = Append(frames, f)
      BY <1>6 DEF Frame, Frames, FenceInv, FenceTypes, Push
    <2> HIDE DEF f
    <2> DEFINE m == Len(frames) + 1
    <2>2. /\ frames' \in Seq(Frames) /\ Depths' = Depths \union {m} /\ m \notin Depths
          /\ \A d \in Depths : frames'[d] = frames[d]
          /\ frames'[m] = f
      BY <2>1, Pushed DEF FenceInv
    <2>3. /\ frames = <<>> => Depths = {}
          /\ frames # <<>> => Depths = {1} /\ m = 2 /\ frames[1].stage = "fence"
      <3>1. Len(frames) \in Nat /\ Depths = 1..Len(frames) /\ (frames # <<>> => Len(frames) >= 1) /\ (frames = <<>> => Depths = {})
        BY StackTypes DEF FenceInv
      <3>2. Len(frames) <= 1
        BY <1>2, Shallow DEF FenceInv
      <3>3. ASSUME frames # <<>> PROVE Depths = {1} /\ m = 2 /\ frames[1].stage = "fence"
        <4>1. Len(frames) = 1
          <5> DEFINE n == Len(frames)
          <5>1. n \in Nat /\ n >= 1 /\ n <= 1
            BY <3>1, <3>2, <3>3
          <5> HIDE DEF n
          <5>2. n = 1
            BY <5>1
          <5> QED BY <5>2 DEF n
        <4> QED BY <1>1, <3>1, <3>3, <4>1 DEF At, Top
      <3> QED BY <3>1, <3>3
    <2>4. m \in Nat
      BY StackTypes DEF FenceInv
    <2> HIDE DEF m
    <2>5. FenceTypes'
      <3>1. point' \in Nat
        BY <1>6 DEF FenceInv, FenceTypes
      <3> QED BY <1>1, <1>3, <1>6, <2>2, <3>1 DEF FenceInv, FenceTypes
    <2>6. \A d \in Depths' : Ingests(d)' <=> d = m
      BY <1>2, <2>1, <2>2 DEF Ingests
    <2>7. Nesting'
      <3>1. \A d \in Depths' : IF Ingests(d)' THEN frames'[d].stage \in {"reorg_actions", "removing"}
                               ELSE Waits(d)' /\ frames'[d].pool \in Pool
        <4>1. \A d \in Depths : Waits(d) /\ frames[d].pool \in Pool
          BY <1>2 DEF FenceInv, Nesting
        <4>2. \A d \in Depths : d # m /\ Waits(d)' /\ frames'[d].pool \in Pool
          BY <2>2, <4>1 DEF Waits
        <4>3. frames'[m].stage = "reorg_actions"
          BY <2>1, <2>2
        <4> QED BY <2>2, <2>6, <4>2, <4>3
      <3>2. \A d \in Depths' : d + 1 \in Depths' =>
              frames'[d].stage = "fence" /\ Ingests(d + 1)'
        <4>1. CASE frames = <<>>
          <5>1. Depths' = {m} /\ m + 1 # m
            BY <2>2, <2>3, <2>4, <4>1
          <5> QED BY <5>1
        <4>2. CASE frames # <<>>
          <5>1. Depths' = {1, 2} /\ frames'[1].stage = "fence" /\ Ingests(2)'
            BY <2>2, <2>3, <2>6, <4>2
          <5>2. 2 + 1 \notin {1, 2} /\ 1 + 1 = 2
            OBVIOUS
          <5> QED BY <5>1, <5>2
        <4> QED BY <4>1, <4>2
      <3> QED BY <2>6, <3>1, <3>2 DEF Nesting
    <2>8. InFlight'
      BY <1>1, <1>2, <1>3, <1>4, <1>6 DEF InFlight
    <2>9. \A d \in Depths' : Waits(d)' => d \in Depths /\ frames'[d] = frames[d]
      BY <2>1, <2>2 DEF Waits
    <2> QED BY <1>1, <1>6, <2>2, <2>5, <2>7, <2>8, <2>9, AsideKeeps
  <1>7. \/ UNCHANGED <<point, frames>> /\ delivery_reply' = "error" /\ (trusted' = FALSE \/ trusted' = trusted)
        \/ /\ point' = point + 1 /\ UNCHANGED <<trusted, delivery_reply>>
           /\ \E orphans \in SUBSET (IF Reorgs THEN pools ELSE {}) :
                Push([Frame("ingest", "none", point, "reorg_actions") EXCEPT !.orphans = orphans])
    BY DEF ingest
  <1>8. SUBSET (IF Reorgs THEN pools ELSE {}) \subseteq SUBSET Pool
    <2>1. pools \subseteq Pool
      BY DEF FenceInv, FenceTypes
    <2> QED BY <2>1
  <1> QED BY <1>5, <1>6, <1>7, <1>8

\* The innermost handler returns: the others are nested as before.
LEMMA Returned ==
  ASSUME FenceInv, frames # <<>>, Pop
  PROVE  /\ frames' \in Seq(Frames) /\ Depths' = Depths \ {Len(frames)} /\ Nesting'
         /\ \A d \in Depths' : frames'[d] = frames[d] /\ (Waits(d)' <=> Waits(d)) /\ (Ingests(d)' <=> Ingests(d))
         /\ Depths' \subseteq Depths /\ Len(frames) \in Depths
  <1>1. /\ frames' \in Seq(Frames) /\ Depths' = Depths \ {Len(frames)}
        /\ \A d \in Depths' : frames'[d] = frames[d]
    BY Popped DEF FenceInv, Pop
  <1>2. \A d \in Depths' : (Waits(d)' <=> Waits(d)) /\ (Ingests(d)' <=> Ingests(d))
    BY <1>1 DEF Waits, Ingests
  <1>3. Nesting'
    <2>1. \A d \in Depths' : IF Ingests(d)' THEN frames'[d].stage \in {"reorg_actions", "removing"}
                             ELSE Waits(d)' /\ frames'[d].pool \in Pool
      BY <1>1, <1>2 DEF FenceInv, Nesting
    <2>2. \A d \in Depths' : d + 1 \in Depths' =>
            \/ frames'[d].stage = "fence" /\ Ingests(d + 1)'
            \/ frames'[d].stage = "removing" /\ frames'[d + 1].op = "remove"
      BY <1>1, <1>2 DEF FenceInv, Nesting
    <2>3. \A d, e \in Depths' : Ingests(d)' /\ Ingests(e)' => d = e
      BY <1>1, <1>2 DEF FenceInv, Nesting
    <2> QED BY <2>1, <2>2, <2>3 DEF Nesting
  <1>4. Len(frames) \in Depths
    BY StackTypes DEF FenceInv
  <1> QED BY <1>1, <1>2, <1>3, <1>4

\* An ingest is the innermost handler: nothing else is between driver and actor.
LEMMA IngestOnTop ==
  ASSUME FenceInv, At("reorg_actions") \/ At("removing")
  PROVE  /\ frames # <<>> /\ Len(frames) \in Depths /\ Ingests(Len(frames)) /\ frames[Len(frames)] \in Frames
         /\ d_work.kind = "deliver" /\ d_work.submitted = TRUE /\ delivery_reply = "none" /\ canonical = <<>>
         /\ \A i \in DOMAIN commands : commands[i].op # "ingest_preconfirmation"
         /\ \A d \in Depths : Ingests(d) => d = Len(frames)
         /\ Len(frames) <= 2
  <1>1. frames # <<>> /\ frames[Len(frames)].stage \in {"reorg_actions", "removing"}
    BY DEF At, Top
  <1>2. Len(frames) \in Depths /\ frames[Len(frames)] \in Frames
    BY <1>1, StackTypes DEF FenceInv
  <1>3. Ingests(Len(frames))
    BY <1>1, <1>2 DEF FenceInv, Nesting, Waits
  <1>4. Len(frames) <= 2
    BY <1>1, <1>3, Shallow DEF FenceInv
  <1>5. /\ d_work.kind = "deliver" /\ d_work.submitted = TRUE /\ delivery_reply = "none" /\ canonical = <<>>
    BY <1>2, <1>3 DEF FenceInv, InFlight
  <1>6. \A i \in DOMAIN commands : commands[i].op # "ingest_preconfirmation"
    BY <1>5 DEF FenceInv, InFlight
  <1>7. \A d \in Depths : Ingests(d) => d = Len(frames)
    BY <1>2, <1>3 DEF FenceInv, Nesting
  <1> QED BY <1>1, <1>2, <1>3, <1>4, <1>5, <1>6, <1>7

LEMMA IngestReturnsKeeps ==
  ASSUME FenceInv, At("reorg_actions") \/ At("removing"), Pop, delivery_reply' \in {"ok", "error"},
         UNCHANGED <<replies, d_commands, interest_revision, d_revision, pools, d_pending, d_refused, d_paused, d_owners, d_work,
                     trusted, point, commands, canonical, d_next_transaction>>
  PROVE  FenceInv'
  <1>1. /\ frames # <<>> /\ Len(frames) \in Depths /\ Ingests(Len(frames))
        /\ d_work.kind = "deliver" /\ d_work.submitted = TRUE /\ canonical = <<>>
        /\ \A i \in DOMAIN commands : commands[i].op # "ingest_preconfirmation"
        /\ \A d \in Depths : Ingests(d) => d = Len(frames)
    BY IngestOnTop
  <1>2. /\ frames' \in Seq(Frames) /\ Depths' = Depths \ {Len(frames)} /\ Nesting'
        /\ \A d \in Depths' : frames'[d] = frames[d] /\ (Waits(d)' <=> Waits(d)) /\ (Ingests(d)' <=> Ingests(d))
    BY <1>1, Returned
  <1>3. FenceTypes'
    BY <1>2 DEF FenceInv, FenceTypes
  <1>4. InFlight'
    BY <1>1, <1>2 DEF InFlight
  <1>5. ~Waits(Len(frames))
    BY <1>1, Shallow DEF FenceInv
  <1>6. \A d \in Depths : Waits(d) => d \in Depths' /\ frames'[d] = frames[d]
    BY <1>2, <1>5
  <1>7. \A d \in Depths' : Waits(d)' => d \in Depths /\ frames'[d] = frames[d]
    BY <1>2
  <1> QED BY <1>2, <1>3, <1>4, <1>6, <1>7, AsideKeeps

LEMMA IngestMovesKeeps ==
  ASSUME FenceInv, At("reorg_actions") \/ At("removing"), NEW f \in Frames, SetTop(f),
         f.op = "ingest", f.stage \in {"reorg_actions", "removing"},
         UNCHANGED <<replies, d_commands, interest_revision, d_revision, pools, d_pending, d_refused, d_paused, d_owners, d_work,
                     trusted, point, commands, canonical, d_next_transaction, delivery_reply>>
  PROVE  FenceInv'
  <1> DEFINE n == Len(frames)
  <1>1. frames # <<>> /\ n \in Depths /\ Ingests(n) /\ \A d \in Depths : Ingests(d) => d = n
    BY IngestOnTop
  <1>2. /\ frames' \in Seq(Frames) /\ Depths' = Depths
        /\ \A d \in Depths \ {n} : frames'[d] = frames[d]
        /\ frames'[n] = f
    BY <1>1, Retopped DEF FenceInv, SetTop
  <1>3. Depths = 1..n /\ n \in Nat
    BY StackTypes DEF FenceInv
  <1>4. ~Waits(n)
    BY <1>1, Shallow DEF FenceInv
  <1> HIDE DEF n
  <1>5. FenceTypes'
    BY <1>2 DEF FenceInv, FenceTypes
  <1>6. \A d \in Depths : (Ingests(d)' <=> Ingests(d)) /\ (Waits(d)' <=> Waits(d))
    BY <1>1, <1>2, <1>4 DEF Ingests, Waits
  <1>7. Nesting'
    <2>1. \A d \in Depths : IF Ingests(d)' THEN frames'[d].stage \in {"reorg_actions", "removing"}
                            ELSE Waits(d)' /\ frames'[d].pool \in Pool
      BY <1>1, <1>2, <1>6 DEF FenceInv, Nesting
    <2>2. ASSUME NEW d \in Depths, d + 1 \in Depths
          PROVE  \/ frames'[d].stage = "fence" /\ Ingests(d + 1)'
                 \/ frames'[d].stage = "removing" /\ frames'[d + 1].op = "remove"
      <3>1. d # n /\ frames'[d] = frames[d]
        BY <1>2, <1>3, <2>2
      <3>2. \/ frames[d].stage = "fence" /\ Ingests(d + 1)
            \/ frames[d].stage = "removing" /\ frames[d + 1].op = "remove"
        BY <2>2 DEF FenceInv, Nesting
      <3>3. CASE d + 1 = n
        BY <1>1, <1>6, <3>1, <3>2, <3>3 DEF Ingests
      <3>4. CASE d + 1 # n
        BY <1>2, <1>6, <2>2, <3>1, <3>2, <3>4
      <3> QED BY <3>3, <3>4
    <2> QED BY <1>1, <1>2, <1>6, <2>1, <2>2 DEF Nesting
  <1>8. InFlight'
    BY <1>2, <1>6 DEF FenceInv, InFlight
  <1>9. \A d \in Depths : Waits(d) => d \in Depths' /\ frames'[d] = frames[d]
    BY <1>2, <1>4
  <1>10. \A d \in Depths' : Waits(d)' => d \in Depths /\ frames'[d] = frames[d]
    BY <1>2, <1>4, <1>6
  <1> QED BY <1>5, <1>7, <1>8, <1>9, <1>10, AsideKeeps

LEMMA OrphanRemovedKeeps == ASSUME FenceInv, orphan_removed PROVE FenceInv'
  <1>1. /\ UNCHANGED <<replies, d_commands, interest_revision, d_revision, pools, d_pending, d_refused, d_paused, d_owners, d_work,
                       trusted, point, commands, canonical, d_next_transaction>>
        /\ At("removing")
    BY DEF orphan_removed, driver_vars
  <1>2. CASE Pop /\ delivery_reply' = "error"
    BY <1>1, <1>2, IngestReturnsKeeps
  <1>3. CASE SetTop([Top EXCEPT !.stage = "reorg_actions"]) /\ UNCHANGED delivery_reply
    <2> DEFINE f == [Top EXCEPT !.stage = "reorg_actions"]
    <2>1. Top \in Frames /\ Top.op = "ingest"
      BY <1>1, IngestOnTop DEF Top, Ingests
    <2>2. f \in Frames /\ f.op = "ingest" /\ f.stage = "reorg_actions"
      BY <2>1 DEF Frames
    <2> QED BY <1>1, <1>3, <2>2, IngestMovesKeeps
  <1> QED BY <1>2, <1>3 DEF orphan_removed

LEMMA IngestedKeeps == ASSUME FenceInv, ingested PROVE FenceInv'
  <1>1. /\ UNCHANGED <<replies, d_commands, interest_revision, d_revision, pools, d_pending, d_refused, d_paused, d_owners, d_work,
                       trusted, point, commands, canonical, d_next_transaction>>
        /\ At("reorg_actions") /\ Pop /\ delivery_reply' = "ok"
    BY DEF ingested, driver_vars, Return
  <1> QED BY <1>1, IngestReturnsKeeps

-----------------------------------------------------------------------------
(* The actor: a handler asks the driver to begin.                           *)

\* A handler f at depth m, deeper than the others, that asks first of all.
Starting(m, f) ==
  /\ m \in 1..MaxDepth /\ m \notin Depths /\ Depths' = Depths \union {m} /\ \A d \in Depths : d \in Nat /\ d < m
  /\ frames'[m] = f /\ f.stage = "fence" /\ f.id = 0 /\ f.pool \in Pool
  /\ f.op = "install" => f.pool \notin pools
  /\ d_commands' = Append(d_commands, [kind |-> begin_command(f.op), pool |-> f.pool, depth |-> m,
                                       id |-> 0, revision |-> 0])
  /\ \A d \in Depths : Waits(d) => frames'[d] = frames[d]
  /\ \A d \in Depths : Waits(d)' => Waits(d)
  /\ UNCHANGED <<replies, interest_revision, d_revision, pools, d_pending, d_refused, d_paused, d_owners, d_work, trusted>>

LEMMA StartedKeeps ==
  ASSUME FenceInv, NEW m, NEW f, Starting(m, f), FenceTypes', Nesting', InFlight',
         begin_command(f.op) \in {"begin_add", "begin_remove", "begin_replace"}
  PROVE  FenceInv'
  <1> DEFINE o == [kind |-> begin_command(f.op), pool |-> f.pool, depth |-> m, id |-> 0, revision |-> 0]
  <1>1. /\ m \in 1..MaxDepth /\ m \notin Depths /\ Depths' = Depths \union {m} /\ \A d \in Depths : d \in Nat /\ d < m
        /\ frames'[m] = f /\ f.stage = "fence" /\ f.id = 0 /\ f.pool \in Pool
        /\ f.op = "install" => f.pool \notin pools
        /\ \A d \in Depths : Waits(d) => frames'[d] = frames[d]
        /\ \A d \in Depths : Waits(d)' => Waits(d)
        /\ UNCHANGED <<replies, interest_revision, d_revision, pools, d_pending, d_refused, d_paused, d_owners, d_work, trusted>>
    BY DEF Starting
  <1>0. d_commands' = Append(d_commands, o)
    BY DEF Starting
  <1>2. /\ o \in Orders /\ o.kind = begin_command(f.op) /\ o.pool = f.pool /\ o.depth = m /\ o.id = 0
    BY <1>1 DEF Orders
  <1>3. o.kind = order_of(f) /\ o.kind # "commit"
    BY <1>1, <1>2 DEF order_of
  <1> HIDE DEF o
  <1>4. d_commands \in Seq(Orders)
    BY DEF FenceInv, FenceTypes
  <1>5. /\ DOMAIN d_commands' = DOMAIN d_commands \union {Len(d_commands) + 1}
        /\ \A i \in DOMAIN d_commands : d_commands'[i] = d_commands[i] /\ i \in Nat /\ i < Len(d_commands) + 1
        /\ d_commands'[Len(d_commands) + 1] = o /\ Len(d_commands) \in Nat
    BY <1>0, <1>2, <1>4, Behind
  <1>6. replies[m] = Nothing
    BY <1>1 DEF FenceInv, Exchange
  <1>7. Waits(m)'
    BY <1>1 DEF Waits
  <1>8. \A d \in Depths : Waits(d) => Waits(d)'
    BY <1>1 DEF Waits
  <1>9. Exchange'
    <2>1. \A d \in 1..MaxDepth : replies[d] # Nothing => d \in Depths' /\ Waits(d)'
      BY <1>1, <1>8 DEF FenceInv, Exchange
    <2>2. \A d \in Depths' : frames'[d].stage = "fence" => replies[d].kind # "done" /\ frames'[d].id = 0
      <3>1. replies[m].kind # "done" /\ frames'[m].id = 0
        BY <1>1, <1>6 DEF Nothing
      <3>2. \A d \in Depths : frames'[d].stage = "fence" => Waits(d) /\ frames'[d] = frames[d]
        BY <1>1 DEF Waits
      <3> QED BY <1>1, <3>1, <3>2 DEF FenceInv, Exchange
    <2>3. \A d \in Depths' : frames'[d].stage \in {"commit", "abort"} => replies[d].kind # "transaction"
      <3>1. \A d \in Depths : frames'[d].stage \in {"commit", "abort"} => Waits(d) /\ frames'[d] = frames[d]
        BY <1>1 DEF Waits
      <3> QED BY <1>1, <3>1 DEF FenceInv, Exchange
    <2>4. ASSUME NEW i \in DOMAIN d_commands'
          PROVE  LET c == d_commands'[i] IN
            /\ c.depth \in Depths' /\ frames'[c.depth].stage \in {"fence", "commit", "abort"} /\ replies[c.depth] = Nothing
            /\ c.pool = frames'[c.depth].pool /\ c.kind = order_of(frames'[c.depth])
            /\ c.id = frames'[c.depth].id
            /\ c.kind = "commit" => c.revision = interest_revision + 1
      <3>1. CASE i \in DOMAIN d_commands
        <4> DEFINE c == d_commands[i]
        <4>1. /\ c.depth \in Depths /\ Waits(c.depth) /\ replies[c.depth] = Nothing
              /\ c.pool = frames[c.depth].pool /\ c.kind = order_of(frames[c.depth])
              /\ c.id = frames[c.depth].id
              /\ c.kind = "commit" => c.revision = interest_revision + 1
          BY <3>1 DEF FenceInv, Exchange
        <4>2. d_commands'[i] = c
          BY <1>5, <3>1
        <4> HIDE DEF c
        <4>3. frames'[c.depth] = frames[c.depth]
          BY <1>1, <4>1
        <4> QED BY <1>1, <4>1, <4>2, <4>3 DEF Waits
      <3>2. CASE i = Len(d_commands) + 1
        <4>1. d_commands'[i] = o
          BY <1>5, <3>2
        <4> QED BY <1>1, <1>2, <1>3, <1>6, <1>7, <4>1
      <3> QED BY <1>5, <3>1, <3>2
    <2>5. ASSUME NEW d \in Depths', Waits(d)', replies[d] = Nothing
          PROVE  \E i \in DOMAIN d_commands' : d_commands'[i].depth = d
      <3>1. CASE d = m
        <4>1. Len(d_commands) + 1 \in DOMAIN d_commands'
          BY <1>5
        <4> QED BY <1>2, <1>5, <3>1, <4>1
      <3>2. CASE d # m
        <4>1. d \in Depths /\ Waits(d)
          BY <1>1, <2>5, <3>2
        <4>2. PICK i \in DOMAIN d_commands : d_commands[i].depth = d
          BY <2>5, <4>1 DEF FenceInv, Exchange
        <4> QED BY <1>5, <4>2
      <3> QED BY <3>1, <3>2
    <2>6. ASSUME NEW i \in DOMAIN d_commands', NEW j \in DOMAIN d_commands', i < j
          PROVE  d_commands'[i].depth < d_commands'[j].depth
      <3>1. i \in DOMAIN d_commands
        BY <1>5, <2>6
      <3>2. CASE j \in DOMAIN d_commands
        <4>1. d_commands[i].depth < d_commands[j].depth
          BY <2>6, <3>1, <3>2 DEF FenceInv, Exchange
        <4> QED BY <1>5, <3>1, <3>2, <4>1
      <3>3. CASE j = Len(d_commands) + 1
        <4>1. d_commands[i].depth \in Depths
          BY <3>1 DEF FenceInv, Exchange
        <4> QED BY <1>1, <1>2, <1>5, <3>1, <3>3, <4>1
      <3> QED BY <1>5, <3>2, <3>3
    <2> HIDE DEF o
    <2> QED BY <1>1, <2>1, <2>2, <2>3, <2>4, <2>5, <2>6 DEF Exchange, Waits, Nothing
  <1>10. \A d \in Depths : /\ Begun(d)' <=> Begun(d)
                           /\ Settling(d)' <=> Settling(d)
                           /\ Refused(d)' <=> Refused(d)
    BY <1>1, <1>8 DEF Begun, Settling, Refused, Waits, Nothing
  <1>11. ~Begun(m)' /\ ~Settling(m)' /\ ~Refused(m)'
    BY <1>1, <1>6 DEF Begun, Settling, Refused, Nothing
  <1>12. \A d \in Depths : Begun(d) \/ Settling(d) \/ Refused(d) => frames'[d] = frames[d]
    BY <1>1 DEF Begun, Settling, Refused, Waits
  <1>13. driver_alive' <=> driver_alive
    BY <1>1 DEF driver_alive
  <1>14. Holding'
    <2>1. \A d \in Depths : Begun(d) => transaction_id(d)' = transaction_id(d)
      BY <1>1, <1>12 DEF transaction_id
    <2> QED BY <1>1, <1>10, <1>11, <1>12, <1>13, <2>1, HoldingStays DEF FenceInv
  <1>15. Exclusive'
    <2>1. ASSUME NEW d \in Depths', NEW e \in Depths', d < e, Waits(d)', Waits(e)'
          PROVE /\ replies[d] = Nothing => replies[e] = Nothing /\ frames'[e].stage = "fence"
                /\ replies[d].kind = "transaction" => replies[e].kind # "transaction" /\ frames'[e].stage = "fence"
      <3>1. CASE e = m
        BY <1>1, <1>6, <3>1 DEF Nothing
      <3>2. CASE e # m
        <4>1. d \in Depths /\ e \in Depths
          BY <1>1, <2>1, <3>2
        <4> QED BY <1>1, <2>1, <4>1 DEF FenceInv, Exclusive
      <3> QED BY <3>1, <3>2
    <2> QED BY <1>1, <2>1 DEF Exclusive, Nothing
  <1>16. Revisions'
    BY <1>1, <1>10, <1>11 DEF FenceInv, Revisions
  <1>17. Topology'
    <2> SUFFICES ASSUME driver_alive, trusted PROVE Topology'
      BY <1>1, <1>13 DEF Topology
    <2>1. \A d \in Depths' : frames'[d].op = "install" /\ frames'[d].stage = "fence" => frames'[d].pool \notin pools
      <3>1. \A d \in Depths : frames'[d].stage = "fence" => frames'[d] = frames[d]
        BY <1>1 DEF Waits
      <3> QED BY <1>1, <3>1 DEF FenceInv, Topology, Place
    <2> QED BY <1>1, <1>10, <1>11, <1>12, <1>13, <2>1, TopologyStays DEF FenceInv
  <1> QED BY <1>9, <1>14, <1>15, <1>16, <1>17 DEF FenceInv

LEMMA HandleControlKeeps == ASSUME FenceInv, handle_control PROVE FenceInv'
  <1> DEFINE c == Head(commands)
  <1>1. /\ UNCHANGED <<trusted, point, interest_revision, pools, canonical, replies, delivery_reply,
                       d_paused, d_revision, d_pending, d_refused, d_next_transaction, d_owners, d_work>>
        /\ frames = <<>> /\ commands # <<>> /\ commands' = Tail(commands) /\ c.op \in {"install", "remove", "refresh"}
    BY DEF handle_control, driver_vars
  <1>2. /\ commands' \in Seq(Controls)
        /\ \A i \in DOMAIN commands' : commands'[i].op \in {"install", "remove", "refresh"} => commands'[i].pool \in Pool
        /\ \A i \in DOMAIN commands' : i + 1 \in DOMAIN commands /\ commands'[i] = commands[i + 1] /\ i \in Nat /\ i >= 1
        /\ c \in Controls /\ c.pool \in Pool
    BY <1>1, Dequeued DEF FenceInv
  <1>3. CASE UNCHANGED <<frames, d_commands>>
    <2>1. FenceTypes'
      BY <1>1, <1>2, <1>3 DEF FenceInv, FenceTypes
    <2>2. InFlight'
      BY <1>1, <1>2, <1>3 DEF FenceInv, InFlight, Depths, Ingests
    <2> QED BY <1>1, <1>3, <2>1, <2>2, ElsewhereKeeps DEF driver_alive
  <1>4. CASE /\ admissible(c.op, c.pool, c.baseline, FALSE)
             /\ Push(Frame(c.op, c.pool, c.baseline, "fence"))
             /\ Send(begin_command(c.op), c.pool, 1, 0, 0)
    <2> DEFINE f == Frame(c.op, c.pool, c.baseline, "fence")
               o == [kind |-> begin_command(f.op), pool |-> f.pool, depth |-> 1, id |-> 0, revision |-> 0]
    <2>1. f \in Frames /\ f.op = c.op /\ f.pool = c.pool /\ f.stage = "fence" /\ f.id = 0 /\ frames' = Append(frames, f)
      BY <1>1, <1>2, <1>4 DEF Frame, Frames, Controls, Push
    <2>2. d_commands' = Append(d_commands, o)
      BY <1>4, <2>1 DEF Send
    <2>3. c.op = "install" => c.pool \notin pools
      BY <1>4 DEF admissible
    <2>4. begin_command(c.op) \in {"begin_add", "begin_remove", "begin_replace"}
      BY <1>1 DEF begin_command
    <2>5. o \in Orders
      BY <1>2, <2>1, <2>4 DEF Orders, MaxDepth
    <2> HIDE DEF c, f, o
    <2>6. /\ frames' \in Seq(Frames) /\ Depths' = {1} /\ frames'[1] = f /\ Depths = {}
      <3>1. Len(frames) = 0 /\ Depths = {}
        BY <1>1, StackTypes DEF FenceInv
      <3>2. /\ frames' \in Seq(Frames) /\ Depths' = Depths \union {Len(frames) + 1} /\ frames'[Len(frames) + 1] = f
        BY <2>1, Pushed DEF FenceInv
      <3> QED BY <3>1, <3>2
    <2>7. FenceTypes'
      <3>1. d_commands' \in Seq(Orders)
        BY <2>2, <2>5, Behind DEF FenceInv, FenceTypes
      <3> QED BY <1>1, <1>2, <2>6, <3>1 DEF FenceInv, FenceTypes
    <2>8. Nesting'
      <3>1. Waits(1)' /\ ~Ingests(1)' /\ frames'[1].pool \in Pool
        BY <1>1, <1>2, <2>1, <2>6 DEF Waits, Ingests
      <3>2. 1 + 1 # 1
        OBVIOUS
      <3> QED BY <2>6, <3>1, <3>2 DEF Nesting
    <2>9. InFlight'
      <3>1. ~Ingests(1)'
        BY <1>1, <2>1, <2>6 DEF Ingests
      <3> QED BY <1>1, <1>2, <2>6, <3>1 DEF FenceInv, InFlight
    <2>10. Starting(1, f)
      BY <1>1, <1>2, <2>1, <2>2, <2>3, <2>6 DEF Starting, MaxDepth, o
    <2> QED BY <2>1, <2>4, <2>7, <2>8, <2>9, <2>10, StartedKeeps
  <1> QED BY <1>3, <1>4 DEF handle_control

LEMMA RemoveOrphanKeeps == ASSUME FenceInv, remove_orphan PROVE FenceInv'
  <1>0. PICK n : n = Len(frames)
    OBVIOUS
  <1>1. /\ UNCHANGED <<trusted, point, interest_revision, pools, commands, canonical, replies, delivery_reply,
                       d_paused, d_revision, d_pending, d_refused, d_next_transaction, d_owners, d_work>>
        /\ At("reorg_actions")
    BY DEF remove_orphan, driver_vars
  <1>2. /\ frames # <<>> /\ n \in Depths /\ Ingests(n) /\ Top \in Frames /\ n <= 2
        /\ d_work.kind = "deliver" /\ d_work.submitted = TRUE /\ delivery_reply = "none" /\ canonical = <<>>
        /\ \A i \in DOMAIN commands : commands[i].op # "ingest_preconfirmation"
        /\ \A d \in Depths : Ingests(d) => d = n
    BY <1>0, <1>1, IngestOnTop DEF Top
  <1>3. PICK p \in Top.orphans :
          LET rest == [Top EXCEPT !.orphans = Top.orphans \ {p}, !.stage = "removing"] IN
          \/ /\ trusted /\ p \in pools
             /\ frames' = Append([frames EXCEPT ![Len(frames)] = rest], Frame("remove", p, point, "fence"))
             /\ Send("begin_remove", p, Len(frames) + 1, 0, 0)
          \/ SetTop(rest) /\ UNCHANGED d_commands
    BY Zenon DEF remove_orphan
  <1> DEFINE rest == [Top EXCEPT !.orphans = Top.orphans \ {p}, !.stage = "removing"]
             f == Frame("remove", p, point, "fence")
             o == [kind |-> begin_command(f.op), pool |-> f.pool, depth |-> n + 1, id |-> 0, revision |-> 0]
  <1>4. p \in Pool /\ rest \in Frames /\ rest.op = "ingest" /\ rest.stage = "removing"
    <2>1. Top.op = "ingest"
      BY <1>0, <1>2 DEF Ingests, Top
    <2> QED BY <1>2, <2>1 DEF Frames
  <1>5. CASE SetTop(rest) /\ UNCHANGED d_commands
    BY <1>1, <1>4, <1>5, IngestMovesKeeps
  <1>6. CASE /\ frames' = Append([frames EXCEPT ![Len(frames)] = rest], f)
             /\ Send("begin_remove", p, Len(frames) + 1, 0, 0)
    <2>1. f \in Frames /\ f.op = "remove" /\ f.pool = p /\ f.stage = "fence" /\ f.id = 0
      BY <1>4 DEF Frame, Frames, FenceInv, FenceTypes
    <2>2. begin_command(f.op) = "begin_remove"
      BY <2>1 DEF begin_command
    <2>3. d_commands' = Append(d_commands, o)
      BY <1>0, <1>6, <2>1, <2>2 DEF Send
    <2>4. n \in Nat /\ n >= 1 /\ Depths = 1..n
      BY <1>0, <1>2, StackTypes DEF FenceInv
    <2>5. n + 1 \in 1..MaxDepth /\ n + 1 \notin Depths /\ \A d \in Depths : d \in Nat /\ d < n + 1
      BY <1>2, <2>4 DEF MaxDepth
    <2>6. o \in Orders
      BY <1>4, <2>1, <2>2, <2>5 DEF Orders
    <2>7. /\ frames' \in Seq(Frames) /\ Depths' = Depths \union {n + 1} /\ frames'[n + 1] = f /\ frames'[n] = rest
          /\ \A d \in Depths : d # n => frames'[d] = frames[d]
      <3> DEFINE g == [frames EXCEPT ![Len(frames)] = rest]
      <3>1. frames \in Seq(Frames) /\ Len(frames) \in 1..Len(frames)
        BY <1>0, <2>4 DEF FenceInv, FenceTypes
      <3>2. g \in Seq(Frames) /\ Len(g) = n /\ DOMAIN g = Depths /\ g[n] = rest /\ \A d \in Depths : d # n => g[d] = frames[d]
        BY <1>0, <1>4, <2>4, <3>1, ExceptSeq DEF Depths
      <3>3. frames' = Append(g, f)
        BY <1>6
      <3> HIDE DEF g, rest, f
      <3>4. /\ frames' \in Seq(Frames) /\ DOMAIN frames' = DOMAIN g \union {Len(g) + 1}
            /\ \A i \in DOMAIN g : frames'[i] = g[i]
            /\ frames'[Len(g) + 1] = f
        BY <2>1, <3>2, <3>3, Behind
      <3>5. Depths' = DOMAIN frames'
        BY DEF Depths
      <3> QED BY <1>2, <3>2, <3>4, <3>5
    <2> HIDE DEF rest, f, o
    <2>8. FenceTypes'
      <3>1. d_commands' \in Seq(Orders)
        BY <2>3, <2>6, Behind DEF FenceInv, FenceTypes
      <3> QED BY <1>1, <2>7, <3>1 DEF FenceInv, FenceTypes
    <2>9. /\ \A d \in Depths : (Ingests(d)' <=> Ingests(d)) /\ (Waits(d)' <=> Waits(d))
          /\ ~Ingests(n + 1)' /\ Waits(n + 1)' /\ ~Waits(n)
      <3>1. ~Waits(n)
        BY <1>2, Shallow DEF FenceInv
      <3> QED BY <1>2, <1>4, <2>1, <2>7, <3>1 DEF Ingests, Waits
    <2>10. Nesting'
      <3>1. \A d \in Depths' : IF Ingests(d)' THEN frames'[d].stage \in {"reorg_actions", "removing"}
                               ELSE Waits(d)' /\ frames'[d].pool \in Pool
        <4>1. \A d \in Depths : d # n => (IF Ingests(d)' THEN frames'[d].stage \in {"reorg_actions", "removing"}
                                         ELSE Waits(d)' /\ frames'[d].pool \in Pool)
          BY <2>7, <2>9 DEF FenceInv, Nesting
        <4>2. Ingests(n)' /\ frames'[n].stage = "removing" /\ frames'[n + 1].pool \in Pool
          BY <1>2, <1>4, <2>1, <2>7, <2>9
        <4> QED BY <2>7, <2>9, <4>1, <4>2
      <3>2. ASSUME NEW d \in Depths', d + 1 \in Depths'
            PROVE  \/ frames'[d].stage = "fence" /\ Ingests(d + 1)'
                   \/ frames'[d].stage = "removing" /\ frames'[d + 1].op = "remove"
        <4>1. d \in Depths /\ (d = n \/ (d # n /\ d + 1 \in Depths))
          BY <2>4, <2>7, <3>2
        <4>2. CASE d = n
          BY <1>4, <2>1, <2>7, <4>2
        <4>3. CASE d # n /\ d + 1 \in Depths
          <5>1. frames'[d] = frames[d]
            BY <2>7, <4>1, <4>3
          <5>2. \/ frames[d].stage = "fence" /\ Ingests(d + 1)
                \/ frames[d].stage = "removing" /\ frames[d + 1].op = "remove"
            BY <4>1, <4>3 DEF FenceInv, Nesting
          <5>3. CASE d + 1 = n
            BY <1>2, <2>9, <5>1, <5>2, <5>3 DEF Ingests
          <5>4. CASE d + 1 # n
            BY <2>7, <2>9, <4>3, <5>1, <5>2, <5>4
          <5> QED BY <5>3, <5>4
        <4> QED BY <4>1, <4>2, <4>3
      <3>3. \A d, e \in Depths' : Ingests(d)' /\ Ingests(e)' => d = e
        BY <1>2, <2>7, <2>9
      <3> QED BY <3>1, <3>2, <3>3 DEF Nesting
    <2>11. InFlight'
      BY <1>1, <1>2, <2>7, <2>9 DEF InFlight
    <2>12. Starting(n + 1, f)
      <3>1. /\ \A d \in Depths : Waits(d) => frames'[d] = frames[d]
            /\ \A d \in Depths : Waits(d)' => Waits(d)
        BY <2>7, <2>9
      <3> QED BY <1>1, <1>4, <2>1, <2>3, <2>5, <2>7, <3>1 DEF Starting, o
    <2> QED BY <2>2, <2>8, <2>10, <2>11, <2>12, StartedKeeps
  <1> QED BY <1>3, <1>5, <1>6

-----------------------------------------------------------------------------
(* The actor: a handler reads the driver's answer and returns.              *)

\* The innermost handler, at depth n, reads its answer.
Reading(n) ==
  /\ frames # <<>> /\ n = Len(frames) /\ Waits(n) /\ replies[n] # Nothing
  /\ replies' = [replies EXCEPT ![n] = Nothing]
  /\ UNCHANGED <<point, commands, canonical, delivery_reply, d_paused, d_revision, d_pending, d_refused,
                 d_next_transaction, d_owners, d_work>>

LEMMA AnswerRead ==
  ASSUME FenceInv, NEW n, Reading(n)
  PROVE  /\ n \in Depths /\ n \in 1..MaxDepth /\ Depths = 1..n /\ n \in Nat /\ Depths \subseteq 1..MaxDepth
         /\ replies' \in [1..MaxDepth -> Answers] /\ replies'[n] = Nothing
         /\ \A d \in 1..MaxDepth : replies'[d].kind = "none" => replies'[d] = Nothing
         /\ \A d \in 1..MaxDepth : d # n => replies'[d] = replies[d]
         /\ \A i \in DOMAIN d_commands : d_commands[i].depth \in Depths \ {n}
         /\ \A d \in Depths : d # n => ~Settling(d) /\ ~Refused(d) /\ frames[d].stage \notin {"commit", "abort"}
  <1>1. /\ frames # <<>> /\ n = Len(frames) /\ Waits(n) /\ replies[n] # Nothing
        /\ replies' = [replies EXCEPT ![n] = Nothing]
    BY DEF Reading
  <1>2. n \in Depths /\ Depths = 1..n /\ n \in Nat /\ n <= 3
    BY <1>1, StackTypes, Shallow DEF FenceInv
  <1>3. n \in 1..MaxDepth /\ Depths \subseteq 1..MaxDepth
    BY <1>2 DEF MaxDepth
  <1>4. replies \in [1..MaxDepth -> Answers] /\ Nothing \in Answers
    BY DEF FenceInv, FenceTypes, Nothing, Answers
  <1>5. /\ replies' \in [1..MaxDepth -> Answers] /\ replies'[n] = Nothing
        /\ \A d \in 1..MaxDepth : d # n => replies'[d] = replies[d]
    BY <1>1, <1>3, <1>4
  <1>6. \A d \in 1..MaxDepth : replies'[d].kind = "none" => replies'[d] = Nothing
    BY <1>5 DEF FenceInv, FenceTypes
  <1>7. \A i \in DOMAIN d_commands : d_commands[i].depth \in Depths \ {n}
    BY <1>1 DEF FenceInv, Exchange
  <1>8. \A d \in Depths : d # n => ~Settling(d) /\ ~Refused(d) /\ frames[d].stage \notin {"commit", "abort"}
    <2>1. \A d \in Depths : Waits(d) /\ d # Len(frames) => frames[d].stage = "fence"
      BY Shallow DEF FenceInv
    <2> QED BY <1>1, <2>1 DEF Settling, Refused, Waits
  <1> QED BY <1>2, <1>3, <1>5, <1>6, <1>7, <1>8

\* The handlers that are left are where they were.
LEMMA EndedExchange ==
  ASSUME FenceInv, NEW n, Reading(n), Pop, ~Begun(n), ~Refused(n) \/ frames[n].op # "install" \/ ~driver_alive,
         trusted' => trusted, UNCHANGED d_commands
  PROVE  /\ frames' \in Seq(Frames) /\ Depths' = Depths \ {n} /\ n \in Depths
         /\ \A d \in Depths' : frames'[d] = frames[d] /\ (Begun(d)' <=> Begun(d)) /\ ~Settling(d)' /\ ~Settling(d) /\ ~Refused(d)' /\ ~Refused(d)
         /\ replies' \in [1..MaxDepth -> Answers]
         /\ \A d \in 1..MaxDepth : replies'[d].kind = "none" => replies'[d] = Nothing
         /\ Nesting' /\ InFlight' /\ Exchange' /\ Exclusive' /\ Holding'
  <1>1. /\ frames # <<>> /\ n = Len(frames) /\ replies[n] # Nothing
        /\ UNCHANGED <<point, commands, canonical, delivery_reply, d_paused, d_pending, d_refused, d_work>>
    BY DEF Reading
  <1>2. /\ n \in Depths /\ n \in 1..MaxDepth /\ Depths = 1..n /\ n \in Nat /\ Depths \subseteq 1..MaxDepth
        /\ replies' \in [1..MaxDepth -> Answers] /\ replies'[n] = Nothing
        /\ \A d \in 1..MaxDepth : replies'[d].kind = "none" => replies'[d] = Nothing
        /\ \A d \in 1..MaxDepth : d # n => replies'[d] = replies[d]
        /\ \A i \in DOMAIN d_commands : d_commands[i].depth \in Depths \ {n}
        /\ \A d \in Depths : d # n => ~Settling(d) /\ ~Refused(d) /\ frames[d].stage \notin {"commit", "abort"}
    BY AnswerRead
  <1>3. /\ frames' \in Seq(Frames) /\ Depths' = Depths \ {n} /\ Nesting'
        /\ \A d \in Depths' : frames'[d] = frames[d] /\ (Waits(d)' <=> Waits(d)) /\ (Ingests(d)' <=> Ingests(d))
    BY <1>1, Returned
  <1>4. \A d \in Depths' : replies'[d] = replies[d] /\ d \in Depths /\ d # n
    BY <1>2, <1>3
  <1>5. \A d \in Depths' : (Begun(d)' <=> Begun(d)) /\ ~Settling(d)' /\ ~Settling(d) /\ ~Refused(d)' /\ ~Refused(d)
    BY <1>2, <1>3, <1>4 DEF Begun, Settling, Refused, Nothing
  <1>6. InFlight'
    BY <1>1, <1>3 DEF FenceInv, InFlight
  <1>7. Exchange'
    <2>1. \A d \in 1..MaxDepth : replies'[d] # Nothing => d \in Depths' /\ Waits(d)'
      <3> SUFFICES ASSUME NEW d \in 1..MaxDepth, replies'[d] # Nothing PROVE d \in Depths' /\ Waits(d)'
        OBVIOUS
      <3>1. d # n /\ replies[d] # Nothing
        BY <1>2
      <3>2. d \in Depths /\ Waits(d)
        BY <3>1 DEF FenceInv, Exchange
      <3> QED BY <1>3, <3>1, <3>2
    <2>2. \A d \in Depths' : frames'[d].stage = "fence" => replies'[d].kind # "done" /\ frames'[d].id = 0
      BY <1>3, <1>4 DEF FenceInv, Exchange
    <2>3. \A d \in Depths' : frames'[d].stage \in {"commit", "abort"} => replies'[d].kind # "transaction"
      BY <1>3, <1>4 DEF FenceInv, Exchange
    <2>4. ASSUME NEW i \in DOMAIN d_commands, NEW c, c = d_commands[i]
          PROVE
            /\ c.depth \in Depths' /\ frames'[c.depth].stage \in {"fence", "commit", "abort"} /\ replies'[c.depth] = Nothing
            /\ c.pool = frames'[c.depth].pool /\ c.kind = order_of(frames'[c.depth])
            /\ c.id = frames'[c.depth].id /\ c.kind # "commit"
      <3>1. /\ c.depth \in Depths /\ Waits(c.depth) /\ replies[c.depth] = Nothing
            /\ c.pool = frames[c.depth].pool /\ c.kind = order_of(frames[c.depth])
            /\ c.id = frames[c.depth].id
        BY <2>4 DEF FenceInv, Exchange
      <3>2. c.depth \in Depths' /\ frames'[c.depth] = frames[c.depth] /\ replies'[c.depth] = replies[c.depth]
            /\ frames[c.depth].stage \notin {"commit", "abort"}
        BY <1>2, <1>3, <1>4, <2>4
      <3>3. c.kind # "commit"
        <4>1. frames[c.depth].stage = "fence" /\ frames[c.depth] \in Frames /\ ~Ingests(c.depth)
          BY <3>1, <3>2, StackTypes, Shallow DEF FenceInv, Waits
        <4>2. frames[c.depth].op \in {"install", "remove", "refresh"}
          BY <4>1 DEF Frames, Ingests
        <4> QED BY <3>1, <4>1, <4>2 DEF order_of, begin_command
      <3> QED BY <3>1, <3>2, <3>3 DEF Waits
    <2>5. \A d \in Depths' : Waits(d)' /\ replies'[d] = Nothing =>
            \E i \in DOMAIN d_commands : d_commands[i].depth = d
      BY <1>3, <1>4 DEF FenceInv, Exchange
    <2>6. \A i, j \in DOMAIN d_commands : i < j => d_commands[i].depth < d_commands[j].depth
      BY DEF FenceInv, Exchange
    <2> QED BY <2>1, <2>2, <2>3, <2>4, <2>5, <2>6 DEF Exchange, Waits, Nothing
  <1>8. Exclusive'
    BY <1>3, <1>4 DEF FenceInv, Exclusive, Nothing
  <1>9. Holding'
    <2> SUFFICES ASSUME driver_alive PROVE Holding'
      BY <1>1 DEF Holding, driver_alive
    <2>1. \A d \in Depths' : Begun(d)' => transaction_id(d)' = transaction_id(d)
      BY <1>3, <1>4 DEF transaction_id
    <2>2. d_refused \/ ~Refused(n)
      BY <1>2 DEF FenceInv, Holding
    <2>3. d_refused \/ \A d \in Depths : Begun(d) \/ Refused(d) => d \in Depths' /\ (Begun(d)' \/ Refused(d)')
      BY <1>3, <1>5, <2>2
    <2>4. UNCHANGED <<d_paused, d_pending, d_refused>> /\ (driver_alive' => driver_alive)
      BY DEF Reading, driver_alive
    <2> QED BY <1>3, <1>4, <1>5, <2>1, <2>3, <2>4, HoldingStays DEF FenceInv
  <1> QED BY <1>2, <1>3, <1>5, <1>6, <1>7, <1>8, <1>9

\* It returns without having changed anything.
LEMMA EndedQuietlyKeeps ==
  ASSUME FenceInv, NEW n, Reading(n), Pop, ~Begun(n), ~Settling(n),
         ~Refused(n) \/ frames[n].op # "install" \/ ~driver_alive,
         UNCHANGED <<d_commands, pools, interest_revision, trusted>>
  PROVE  FenceInv'
  <1>1. /\ frames' \in Seq(Frames) /\ Depths' = Depths \ {n} /\ n \in Depths
        /\ \A d \in Depths' : frames'[d] = frames[d] /\ (Begun(d)' <=> Begun(d)) /\ ~Settling(d)' /\ ~Settling(d) /\ ~Refused(d)' /\ ~Refused(d)
        /\ replies' \in [1..MaxDepth -> Answers]
        /\ \A d \in 1..MaxDepth : replies'[d].kind = "none" => replies'[d] = Nothing
        /\ Nesting' /\ InFlight' /\ Exchange' /\ Exclusive' /\ Holding'
    BY EndedExchange
  <1>2. UNCHANGED <<point, commands, canonical, delivery_reply, d_paused, d_revision, d_pending, d_refused,
                    d_next_transaction, d_owners, d_work>>
    BY DEF Reading
  <1>3. FenceTypes'
    BY <1>1, <1>2 DEF FenceInv, FenceTypes
  <1>4. Revisions'
    BY <1>1, <1>2 DEF FenceInv, Revisions
  <1>5. Topology'
    <2> SUFFICES ASSUME driver_alive, trusted PROVE Topology'
      BY <1>2 DEF Topology, driver_alive
    <2>1. \A d \in Depths' : frames'[d].op = "install" /\ frames'[d].stage = "fence" => frames'[d].pool \notin pools
      BY <1>1 DEF FenceInv, Topology, Place
    <2>2. CASE ~Refused(n)
      BY <1>1, <1>2, <2>1, <2>2, TopologyStays DEF FenceInv, driver_alive
    <2>3. CASE Refused(n)
      <3>1. d_refused /\ frames[n].op # "install"
        BY <1>1, <2>3 DEF FenceInv, Holding
      <3>2. frames[n].pool \in pools /\ registered(frames[n].pool)
        BY <1>1, <2>3, <3>1 DEF FenceInv, Topology, Place
      <3>3. \A p \in Pool : p # frames[n].pool /\ Touched(p) => Touched(p)'
        BY <1>1 DEF Touched
      <3>4. \A p \in Pool : Touched(p)' \/ (registered(p)' <=> p \in pools)
        <4>1. \A p \in Pool : Touched(p) \/ (registered(p) <=> p \in pools)
          BY DEF FenceInv, Topology
        <4>2. \A p \in Pool : registered(p)' <=> registered(p)
          BY <1>2 DEF registered
        <4> QED BY <3>2, <3>3, <4>1, <4>2
      <3>5. ASSUME NEW d \in Depths' PROVE Place(d, frames[d])'
        <4>1. Place(d, frames[d]) /\ d_owners' = d_owners
          BY <1>1, <1>2 DEF FenceInv, Topology
        <4> QED BY <1>1, <4>1 DEF Place, registered
      <3> QED BY <1>2, <3>1, <3>4, <3>5 DEF Topology
    <2> QED BY <2>2, <2>3
  <1> QED BY <1>1, <1>3, <1>4, <1>5 DEF FenceInv

\* It returns and the runtime, or its driver, is no longer to be relied on.
LEMMA EndedBadlyKeeps ==
  ASSUME FenceInv, NEW n, Reading(n), Pop, ~Begun(n), ~Refused(n), pools' \subseteq Pool, interest_revision' \in Nat,
         trusted' = FALSE,
         UNCHANGED d_commands
  PROVE  FenceInv'
  <1>1. /\ frames' \in Seq(Frames) /\ replies' \in [1..MaxDepth -> Answers]
        /\ \A d \in 1..MaxDepth : replies'[d].kind = "none" => replies'[d] = Nothing
        /\ Nesting' /\ InFlight' /\ Exchange' /\ Exclusive' /\ Holding'
    BY EndedExchange
  <1>2. UNCHANGED <<point, commands, canonical, delivery_reply, d_paused, d_revision, d_pending, d_refused,
                    d_next_transaction, d_owners, d_work>>
    BY DEF Reading
  <1>3. FenceTypes'
    BY <1>1, <1>2 DEF FenceInv, FenceTypes
  <1> QED BY <1>1, <1>3 DEF FenceInv, Revisions, Topology

LEMMA AbortedKeeps == ASSUME FenceInv, aborted PROVE FenceInv'
  <1>1. PICK n : n = Len(frames)
    OBVIOUS
  <1>2. Reading(n) /\ frames[n].stage = "abort" /\ replies[n] # Nothing
    BY <1>1 DEF aborted, Reading, At, Top, answer, Receive, Waits, driver_vars
  <1>3. Pop /\ UNCHANGED <<d_commands, pools, interest_revision, trusted>>
    BY DEF aborted, Return
  <1>4. ~Begun(n) /\ ~Settling(n) /\ ~Refused(n)
    BY <1>2 DEF Begun, Settling, Refused
  <1> QED BY <1>2, <1>3, <1>4, EndedQuietlyKeeps

LEMMA CommittedKeeps == ASSUME FenceInv, committed PROVE FenceInv'
  <1>1. PICK n : n = Len(frames)
    OBVIOUS
  <1>2. Reading(n) /\ frames[n].stage = "commit" /\ replies[n].kind = "done" /\ replies[n] # Nothing /\ Top = frames[n]
    BY <1>1 DEF committed, Reading, At, Top, answer, Receive, Waits, driver_vars, Nothing
  <1>3. Pop /\ UNCHANGED d_commands
    BY DEF committed, Return
  <1>4. ~Begun(n) /\ Settling(n) /\ ~Refused(n) /\ (trusted' => trusted)
    BY <1>2 DEF Begun, Settling, Refused, committed
  <1>5. /\ frames' \in Seq(Frames) /\ Depths' = Depths \ {n} /\ n \in Depths
        /\ \A d \in Depths' : frames'[d] = frames[d] /\ (Begun(d)' <=> Begun(d)) /\ ~Settling(d)' /\ ~Settling(d) /\ ~Refused(d)' /\ ~Refused(d)
        /\ replies' \in [1..MaxDepth -> Answers]
        /\ \A d \in 1..MaxDepth : replies'[d].kind = "none" => replies'[d] = Nothing
        /\ Nesting' /\ InFlight' /\ Exchange' /\ Exclusive' /\ Holding'
    BY <1>2, <1>3, <1>4, EndedExchange
  <1>6. UNCHANGED <<point, commands, canonical, delivery_reply, d_paused, d_revision, d_pending, d_refused,
                    d_next_transaction, d_owners, d_work>>
    BY <1>2 DEF Reading
  <1>7. interest_revision \in Nat /\ interest_revision + 1 \in Nat /\ pools \subseteq Pool
    BY DEF FenceInv, FenceTypes
  <1>8. CASE trusted' = FALSE /\ interest_revision' \in {interest_revision, interest_revision + 1} /\ pools' = pools
    BY <1>2, <1>3, <1>4, <1>7, <1>8, EndedBadlyKeeps
  <1>9. CASE /\ interest_revision' = interest_revision + 1 /\ trusted' = trusted
             /\ pools' = IF frames[n].op = "remove" THEN pools \ {frames[n].pool} ELSE pools
    <2>1. FenceTypes'
      <3>1. interest_revision' \in Nat /\ pools' \subseteq Pool
        BY <1>7, <1>9
      <3> QED BY <1>3, <1>5, <1>6, <1>9, <3>1 DEF FenceInv, FenceTypes
    <2>2. Revisions'
      BY <1>4, <1>5, <1>6, <1>9 DEF FenceInv, Revisions
    <2>3. Topology'
      <3> SUFFICES ASSUME driver_alive, trusted PROVE Topology'
        BY <1>6, <1>9 DEF Topology, driver_alive
      <3>1. \A d \in Depths : d # n => ~Begun(d) /\ ~Settling(d) /\ ~Refused(d)
        BY <1>2, <1>5, HoldsAlone
      <3>2. \A p \in Pool : p # frames[n].pool => (registered(p) <=> p \in pools) /\ (~d_refused => Settled(p))
        BY <3>1 DEF FenceInv, Topology, Touched
      <3>3. frames[n].pool \in pools /\ d_owners[frames[n].pool] = IF frames[n].op = "remove" THEN "None" ELSE "Active"
        BY <1>4, <1>5 DEF FenceInv, Topology, Place
      <3>4. \A p \in Pool : (registered(p)' <=> p \in pools') /\ (~d_refused => Settled(p)')
        <4>1. \A p \in Pool : p # frames[n].pool => (p \in pools' <=> p \in pools)
          BY <1>9
        <4>2. \A p \in Pool : p # frames[n].pool => (registered(p)' <=> p \in pools') /\ (~d_refused => Settled(p)')
          BY <1>6, <3>2, <4>1 DEF registered, Settled
        <4>3. \A p \in Pool : p = frames[n].pool => (registered(p)' <=> p \in pools') /\ Settled(p)'
          BY <1>6, <1>9, <3>3 DEF registered, Settled
        <4> QED BY <4>2, <4>3
      <3>5. \A d \in Depths' : frames'[d].op = "install" /\ frames'[d].stage = "fence" => frames'[d].pool \notin pools'
        BY <1>5, <1>9 DEF FenceInv, Topology, Place
      <3>6. \A d \in Depths' : ~Begun(d)' /\ ~Settling(d)' /\ ~Refused(d)'
        BY <1>5, <3>1
      <3>7. \A d \in Depths' : Place(d, frames[d])'
        BY <3>5, <3>6 DEF Place
      <3> QED BY <1>6, <3>4, <3>7 DEF Topology
    <2> QED BY <1>5, <2>1, <2>2, <2>3 DEF FenceInv
  <1> QED BY <1>2, <1>8, <1>9 DEF committed

-----------------------------------------------------------------------------
(* The actor: a handler reads the driver's answer and asks to end.          *)

\* The innermost handler goes on as f and asks the driver to commit or abort.
Asking(n, f, revision) ==
  /\ Reading(n) /\ frames' = [frames EXCEPT ![n] = f]
  /\ f \in Frames /\ f.op = frames[n].op /\ f.pool = frames[n].pool /\ f.stage \in {"commit", "abort"}
  /\ d_commands' = Append(d_commands, [kind |-> f.stage, pool |-> f.pool, depth |-> n, id |-> f.id,
                                       revision |-> revision])
  /\ f.stage = "commit" => revision = interest_revision + 1
  /\ revision \in Nat /\ UNCHANGED interest_revision
  /\ replies[n].kind = "transaction" \/ frames[n].stage # "fence"

LEMMA Asked ==
  ASSUME FenceInv, NEW n, NEW f, NEW revision, Asking(n, f, revision)
  PROVE  /\ frames' \in Seq(Frames) /\ Depths' = Depths /\ n \in Depths /\ frames'[n] = f
         /\ \A d \in Depths : d # n => frames'[d] = frames[d] /\ replies'[d] = replies[d]
         /\ replies' \in [1..MaxDepth -> Answers] /\ replies'[n] = Nothing
         /\ \A d \in 1..MaxDepth : replies'[d].kind = "none" => replies'[d] = Nothing
         /\ d_commands' \in Seq(Orders)
         /\ Nesting' /\ InFlight' /\ Exchange' /\ Exclusive'
  <1> DEFINE o == [kind |-> f.stage, pool |-> f.pool, depth |-> n, id |-> f.id, revision |-> revision]
  <1>1. /\ Reading(n) /\ f \in Frames /\ f.op = frames[n].op /\ f.pool = frames[n].pool /\ f.stage \in {"commit", "abort"}
        /\ f.stage = "commit" => revision = interest_revision + 1
        /\ revision \in Nat /\ UNCHANGED interest_revision
        /\ replies[n].kind = "transaction" \/ frames[n].stage # "fence"
    BY DEF Asking
  <1>2. frames' = [frames EXCEPT ![n] = f] /\ d_commands' = Append(d_commands, o)
    BY DEF Asking
  <1>3. /\ frames # <<>> /\ n = Len(frames) /\ Waits(n) /\ replies[n] # Nothing
        /\ UNCHANGED <<commands, canonical, delivery_reply, d_work>>
    BY <1>1 DEF Reading
  <1>4. /\ n \in Depths /\ n \in 1..MaxDepth /\ Depths = 1..n /\ n \in Nat /\ Depths \subseteq 1..MaxDepth
        /\ replies' \in [1..MaxDepth -> Answers] /\ replies'[n] = Nothing
        /\ \A d \in 1..MaxDepth : replies'[d].kind = "none" => replies'[d] = Nothing
        /\ \A d \in 1..MaxDepth : d # n => replies'[d] = replies[d]
        /\ \A i \in DOMAIN d_commands : d_commands[i].depth \in Depths \ {n}
        /\ \A d \in Depths : d # n => ~Settling(d) /\ ~Refused(d) /\ frames[d].stage \notin {"commit", "abort"}
    BY <1>1, AnswerRead
  <1>5. /\ frames' \in Seq(Frames) /\ Depths' = Depths
        /\ \A d \in Depths \ {n} : frames'[d] = frames[d]
        /\ frames'[n] = f
    BY <1>1, <1>2, <1>3, Retopped DEF FenceInv
  <1>6. ~Ingests(n) /\ f.pool \in Pool /\ f.op # "ingest"
    <2>1. ~Ingests(n)
      BY <1>3, <1>4, Shallow DEF FenceInv
    <2> QED BY <1>1, <1>4, <2>1 DEF FenceInv, Nesting, Ingests
  <1>7. /\ o \in Orders /\ o.kind = f.stage /\ o.pool = f.pool /\ o.depth = n /\ o.id = f.id /\ o.revision = revision
    BY <1>1, <1>4, <1>6 DEF Orders, Frames
  <1>8. o.kind = order_of(f)
    BY <1>1, <1>7 DEF order_of
  <1> HIDE DEF o
  <1>9. /\ d_commands' \in Seq(Orders)
        /\ DOMAIN d_commands' = DOMAIN d_commands \union {Len(d_commands) + 1}
        /\ \A i \in DOMAIN d_commands : d_commands'[i] = d_commands[i] /\ i \in Nat /\ i < Len(d_commands) + 1
        /\ d_commands'[Len(d_commands) + 1] = o /\ Len(d_commands) \in Nat
    BY <1>2, <1>7, Behind DEF FenceInv, FenceTypes
  <1>10. \A d \in Depths : (Waits(d)' <=> Waits(d)) /\ (Ingests(d)' <=> Ingests(d))
    BY <1>1, <1>3, <1>5, <1>6 DEF Waits, Ingests
  <1>11. Nesting'
    <2>1. \A d \in Depths : IF Ingests(d)' THEN frames'[d].stage \in {"reorg_actions", "removing"}
                            ELSE Waits(d)' /\ frames'[d].pool \in Pool
      BY <1>5, <1>6, <1>10 DEF FenceInv, Nesting
    <2>2. ASSUME NEW d \in Depths, d + 1 \in Depths
          PROVE  \/ frames'[d].stage = "fence" /\ Ingests(d + 1)'
                 \/ frames'[d].stage = "removing" /\ frames'[d + 1].op = "remove"
      <3>1. d # n /\ frames'[d] = frames[d]
        BY <1>4, <1>5, <2>2
      <3>2. \/ frames[d].stage = "fence" /\ Ingests(d + 1)
            \/ frames[d].stage = "removing" /\ frames[d + 1].op = "remove"
        BY <2>2 DEF FenceInv, Nesting
      <3>3. frames'[d + 1].op = frames[d + 1].op
        BY <1>1, <1>5, <2>2
      <3> QED BY <1>10, <2>2, <3>1, <3>2, <3>3
    <2>3. \A d, e \in Depths : Ingests(d)' /\ Ingests(e)' => d = e
      BY <1>10 DEF FenceInv, Nesting
    <2> QED BY <1>5, <2>1, <2>2, <2>3 DEF Nesting
  <1>12. InFlight'
    BY <1>3, <1>5, <1>10 DEF FenceInv, InFlight
  <1>13. Exchange'
    <2>1. \A d \in 1..MaxDepth : replies'[d] # Nothing => d \in Depths /\ Waits(d)'
      BY <1>4, <1>10 DEF FenceInv, Exchange
    <2>2. \A d \in Depths : frames'[d].stage = "fence" => replies'[d].kind # "done" /\ frames'[d].id = 0
      BY <1>1, <1>4, <1>5 DEF FenceInv, Exchange
    <2>3. \A d \in Depths : frames'[d].stage \in {"commit", "abort"} => replies'[d].kind # "transaction"
      BY <1>4, <1>5 DEF FenceInv, Exchange, Nothing
    <2>4. ASSUME NEW i \in DOMAIN d_commands', NEW c, c = d_commands'[i]
          PROVE
            /\ c.depth \in Depths /\ frames'[c.depth].stage \in {"fence", "commit", "abort"} /\ replies'[c.depth] = Nothing
            /\ c.pool = frames'[c.depth].pool /\ c.kind = order_of(frames'[c.depth])
            /\ c.id = frames'[c.depth].id
            /\ c.kind = "commit" => c.revision = interest_revision + 1
      <3>1. CASE i \in DOMAIN d_commands
        <4>1. c = d_commands[i]
          BY <1>9, <2>4, <3>1
        <4>2. /\ c.depth \in Depths /\ Waits(c.depth) /\ replies[c.depth] = Nothing
              /\ c.pool = frames[c.depth].pool /\ c.kind = order_of(frames[c.depth])
              /\ c.id = frames[c.depth].id
              /\ c.kind = "commit" => c.revision = interest_revision + 1
          BY <3>1, <4>1 DEF FenceInv, Exchange
        <4>3. c.depth # n
          BY <1>4, <3>1, <4>1
        <4>4. frames'[c.depth] = frames[c.depth] /\ replies'[c.depth] = replies[c.depth]
          BY <1>4, <1>5, <4>2, <4>3
        <4> QED BY <4>2, <4>4 DEF Waits
      <3>2. CASE i = Len(d_commands) + 1
        <4>1. c = o
          BY <1>9, <2>4, <3>2
        <4> QED BY <1>1, <1>4, <1>5, <1>7, <1>8, <4>1
      <3> QED BY <1>9, <3>1, <3>2
    <2>5. ASSUME NEW d \in Depths, Waits(d)', replies'[d] = Nothing
          PROVE  \E i \in DOMAIN d_commands' : d_commands'[i].depth = d
      <3>1. CASE d = n
        <4>1. Len(d_commands) + 1 \in DOMAIN d_commands'
          BY <1>9
        <4> QED BY <1>7, <1>9, <3>1, <4>1
      <3>2. CASE d # n
        <4>1. Waits(d) /\ replies[d] = Nothing
          BY <1>4, <1>10, <2>5, <3>2
        <4>2. PICK i \in DOMAIN d_commands : d_commands[i].depth = d
          BY <4>1 DEF FenceInv, Exchange
        <4> QED BY <1>9, <4>2
      <3> QED BY <3>1, <3>2
    <2>6. ASSUME NEW i \in DOMAIN d_commands', NEW j \in DOMAIN d_commands', i < j
          PROVE  d_commands'[i].depth < d_commands'[j].depth
      <3>1. i \in DOMAIN d_commands
        BY <1>9, <2>6
      <3>2. CASE j \in DOMAIN d_commands
        <4>1. d_commands[i].depth < d_commands[j].depth
          BY <2>6, <3>1, <3>2 DEF FenceInv, Exchange
        <4> QED BY <1>9, <3>1, <3>2, <4>1
      <3>3. CASE j = Len(d_commands) + 1
        <4>1. d_commands[i].depth \in 1..n /\ d_commands[i].depth # n
          BY <1>4, <3>1
        <4>2. d_commands[i].depth < n
          BY <1>4, <4>1
        <4> QED BY <1>7, <1>9, <3>1, <3>3, <4>2
      <3> QED BY <1>9, <3>2, <3>3
    <2> QED BY <1>1, <1>5, <2>1, <2>2, <2>3, <2>4, <2>5, <2>6 DEF Exchange, Waits, Nothing
  <1>14. Exclusive'
    <2>1. ASSUME NEW d \in Depths, NEW e \in Depths, d < e, Waits(d)', Waits(e)'
          PROVE /\ replies'[d] = Nothing => replies'[e] = Nothing /\ frames'[e].stage = "fence"
                /\ replies'[d].kind = "transaction" => replies'[e].kind # "transaction" /\ frames'[e].stage = "fence"
      <3>1. Waits(d) /\ Waits(e) /\ d # n /\ replies'[d] = replies[d]
        BY <1>4, <1>10, <2>1
      <3>2. /\ replies[d] = Nothing => replies[e] = Nothing /\ frames[e].stage = "fence"
            /\ replies[d].kind = "transaction" => replies[e].kind # "transaction" /\ frames[e].stage = "fence"
        BY <2>1, <3>1 DEF FenceInv, Exclusive
      <3>3. CASE e = n
        BY <1>1, <1>3, <3>1, <3>2, <3>3
      <3>4. CASE e # n
        BY <1>4, <1>5, <3>1, <3>2, <3>4
      <3> QED BY <3>3, <3>4
    <2> QED BY <1>5, <2>1 DEF Exclusive, Nothing
  <1>15. \A d \in Depths : d # n => frames'[d] = frames[d] /\ replies'[d] = replies[d]
    BY <1>4, <1>5
  <1> QED BY <1>4, <1>5, <1>9, <1>11, <1>12, <1>13, <1>14, <1>15

\* The answer to a begin is a transaction: the handler still holds it when it asks.
LEMMA BegunKeeps == ASSUME FenceInv, begun PROVE FenceInv'
  <1>1. PICK n : n = Len(frames)
    OBVIOUS
  <1>2. Reading(n) /\ frames[n].stage = "fence" /\ replies[n] # Nothing /\ Top = frames[n] /\ answer = replies[n] /\ Waits(n)
    BY <1>1 DEF begun, Reading, At, Top, answer, Receive, Waits, driver_vars
  <1>3. n \in Depths /\ frames[n] \in Frames /\ replies[n] \in Answers /\ replies[n].kind \in {"transaction", "error"}
        /\ frames[n].op # "ingest" /\ frames[n].pool \in Pool
    <2>1. n \in Depths /\ frames[n] \in Frames
      BY <1>1, <1>2, StackTypes DEF FenceInv, Reading
    <2>2. replies[n] \in Answers /\ (replies[n].kind = "none" => replies[n] = Nothing)
      BY <1>2, AnswerRead DEF FenceInv, FenceTypes
    <2>3. replies[n].kind # "done"
      BY <1>2, <2>1 DEF FenceInv, Exchange
    <2>4. ~Ingests(n)
      BY <1>2, <2>1, Shallow DEF FenceInv
    <2> QED BY <1>2, <2>1, <2>2, <2>3, <2>4 DEF Answers, Ingests, FenceInv, Nesting
  <1>4. UNCHANGED <<trusted, interest_revision>>
    BY DEF begun
  <1>5. CASE /\ replies[n].kind = "error" /\ Return("error") /\ UNCHANGED <<pools, d_commands>>
    <2>1. ~Begun(n) /\ ~Settling(n) /\ ~Refused(n)
      BY <1>2, <1>5 DEF Begun, Settling, Refused
    <2> QED BY <1>2, <1>4, <1>5, <2>1, EndedQuietlyKeeps DEF Return
  <1>6. ASSUME NEW stage \in {"commit", "abort"}, NEW revision \in Nat,
               stage = "commit" => revision = interest_revision + 1, replies[n].kind = "transaction",
               SetTop([Top EXCEPT !.stage = stage, !.id = answer.id]),
               Send(stage, Top.pool, Len(frames), answer.id, revision),
               pools' = IF stage = "commit" /\ frames[n].op = "install" THEN pools \union {frames[n].pool} ELSE pools
        PROVE  FenceInv'
    <2> DEFINE f == [frames[n] EXCEPT !.stage = stage, !.id = replies[n].id]
    <2>1. /\ f \in Frames /\ f.op = frames[n].op /\ f.pool = frames[n].pool /\ f.stage = stage /\ f.id = replies[n].id
      BY <1>3 DEF Frames, Answers
    <2>2. frames' = [frames EXCEPT ![n] = f]
      BY <1>1, <1>2, <1>6 DEF SetTop
    <2>3. d_commands' = Append(d_commands, [kind |-> f.stage, pool |-> f.pool, depth |-> n, id |-> f.id, revision |-> revision])
      BY <1>1, <1>2, <1>6, <2>1 DEF Send
    <2> HIDE DEF f
    <2>4. Asking(n, f, revision)
      BY <1>2, <1>4, <1>6, <2>1, <2>2, <2>3 DEF Asking
    <2>5. /\ frames' \in Seq(Frames) /\ Depths' = Depths /\ frames'[n] = f
          /\ \A d \in Depths : d # n => frames'[d] = frames[d] /\ replies'[d] = replies[d]
          /\ replies' \in [1..MaxDepth -> Answers] /\ replies'[n] = Nothing
          /\ \A d \in 1..MaxDepth : replies'[d].kind = "none" => replies'[d] = Nothing
          /\ d_commands' \in Seq(Orders)
          /\ Nesting' /\ InFlight' /\ Exchange' /\ Exclusive'
      BY <2>4, Asked
    <2>6. UNCHANGED <<point, commands, canonical, delivery_reply, d_paused, d_revision, d_pending, d_refused,
                      d_next_transaction, d_owners, d_work>>
      BY <1>2 DEF Reading
    <2>7. FenceTypes'
      <3>1. pools' \subseteq Pool
        BY <1>3, <1>6 DEF FenceInv, FenceTypes
      <3> QED BY <1>4, <2>5, <2>6, <3>1 DEF FenceInv, FenceTypes
    <2>8. /\ Begun(n) /\ Begun(n)' /\ ~Settling(n) /\ ~Settling(n)' /\ ~Refused(n) /\ ~Refused(n)'
          /\ transaction_id(n) = transaction_id(n)'
      BY <1>2, <1>6, <2>1, <2>5 DEF Begun, Settling, Refused, transaction_id, Nothing
    <2>9. \A d \in Depths : /\ Begun(d)' <=> Begun(d)
                            /\ Settling(d)' <=> Settling(d)
                            /\ Refused(d)' <=> Refused(d)
      <3>1. \A d \in Depths : d # n => /\ Begun(d)' <=> Begun(d)
                                       /\ Settling(d)' <=> Settling(d)
                                       /\ Refused(d)' <=> Refused(d)
        BY <2>5 DEF Begun, Settling, Refused, Nothing
      <3> QED BY <2>8, <3>1
    <2>10. \A d \in Depths : transaction_id(d)' = transaction_id(d) /\ frames'[d].op = frames[d].op /\ frames'[d].pool = frames[d].pool
      <3>1. \A d \in Depths : d # n => transaction_id(d)' = transaction_id(d)
        BY <2>5 DEF transaction_id
      <3> QED BY <2>1, <2>5, <2>8, <3>1
    <2>11. Holding'
      <3>1. \A d \in Depths : Refused(d) => frames'[d] = frames[d]
        BY <2>5, <2>8
      <3>2. \A d \in Depths : frames[d].stage = "abort" => frames'[d].stage = "abort"
        BY <1>2, <2>5
      <3>3. driver_alive' => driver_alive
        BY <2>6 DEF driver_alive
      <3> QED BY <1>4, <2>5, <2>6, <2>9, <2>10, <3>1, <3>2, <3>3, HoldingStays DEF FenceInv
    <2>12. Revisions'
      BY <1>4, <2>5, <2>6, <2>9 DEF FenceInv, Revisions
    <2>13. Topology'
      <3> SUFFICES ASSUME driver_alive, trusted PROVE Topology'
        BY <1>4, <2>6 DEF Topology, driver_alive
      <3>1. \A p \in Pool : Touched(p)' \/ ((registered(p)' <=> p \in pools') /\ (~d_refused => Settled(p)'))
        <4>1. \A p \in Pool : p = frames[n].pool => Touched(p)'
          BY <1>3, <2>5, <2>8, <2>10 DEF Touched
        <4>2. \A p \in Pool : Touched(p) => Touched(p)'
          BY <2>5, <2>9, <2>10 DEF Touched
        <4>3. \A p \in Pool : p # frames[n].pool => (p \in pools' <=> p \in pools)
          BY <1>6
        <4>4. \A p \in Pool : Touched(p) \/ ((registered(p) <=> p \in pools) /\ (~d_refused => Settled(p)))
          BY DEF FenceInv, Topology
        <4> QED BY <2>6, <4>1, <4>2, <4>3, <4>4 DEF registered, Settled
      <3>2. /\ frames[n].op = "install" => frames[n].pool \notin pools
            /\ frames[n].op # "install" => frames[n].pool \in pools /\ registered(frames[n].pool)
        BY <1>2, <1>3, <2>8 DEF FenceInv, Topology, Place
      <3>3. ASSUME NEW d \in Depths, d # n PROVE stage = "commit" /\ frames[n].op = "install" => frames[d].stage # "fence" \/ frames[d].op # "install"
        <4> SUFFICES ASSUME frames[n].op = "install", frames[d].stage = "fence", frames[d].op = "install" PROVE FALSE
          OBVIOUS
        <4>1. ~(n > 1) /\ ~(d > 1)
          BY <1>2, <1>3, <3>3, Shallow DEF FenceInv, Waits
        <4>2. n \in Nat /\ d \in Nat /\ n >= 1 /\ d >= 1
          BY <1>3, StackTypes DEF FenceInv
        <4> QED BY <3>3, <4>1, <4>2
      <3>4. ASSUME NEW d \in Depths PROVE Place(d, frames[d])'
        <4>1. CASE d = n
          <5>1. /\ frames'[n].op = "install" => (frames'[n].pool \in pools') = (frames'[n].stage = "commit")
                /\ frames'[n].op # "install" => frames'[n].pool \in pools' /\ registered(frames[n].pool)'
                /\ frames'[n].stage # "fence"
            BY <1>6, <2>1, <2>5, <2>6, <3>2 DEF registered
          <5> QED BY <2>8, <4>1, <5>1 DEF Place
        <4>2. CASE d # n
          <5>1. frames'[d] = frames[d] /\ pools \subseteq pools' /\ d_owners' = d_owners
            BY <1>6, <2>5, <2>6, <4>2
          <5>2. Place(d, frames[d])
            BY DEF FenceInv, Topology
          <5>3. frames[d].op = "install" /\ frames[d].stage = "fence" => pools' = pools
            BY <1>6, <3>3, <4>2
          <5>4. ~Begun(d) \/ frames[d].stage = "fence"
            <6>1. frames[d].stage \notin {"commit", "abort"}
              BY <1>2, <4>2, AnswerRead
            <6> QED BY <6>1 DEF Begun
          <5> QED BY <2>9, <5>1, <5>2, <5>3, <5>4 DEF Place, registered
        <4> QED BY <4>1, <4>2
      <3> QED BY <2>5, <2>6, <3>1, <3>4 DEF Topology
    <2> QED BY <2>5, <2>7, <2>11, <2>12, <2>13 DEF FenceInv
  <1>7. \/ /\ answer.kind = "error" /\ Return("error") /\ UNCHANGED <<pools, d_commands>>
        \/ /\ answer.kind # "error"
           /\ SetTop([Top EXCEPT !.stage = "abort", !.id = answer.id])
           /\ Send("abort", Top.pool, Len(frames), answer.id, 0)
           /\ UNCHANGED pools
        \/ /\ answer.kind # "error"
           /\ SetTop([Top EXCEPT !.stage = "commit", !.id = answer.id])
           /\ pools' = IF Top.op = "install" THEN pools \cup {Top.pool} ELSE pools
           /\ Send("commit", Top.pool, Len(frames), answer.id, interest_revision + 1)
    BY Zenon DEF begun
  <1>8. interest_revision + 1 \in Nat /\ 0 \in Nat
    BY DEF FenceInv, FenceTypes
  <1>9. CASE /\ answer.kind # "error"
             /\ SetTop([Top EXCEPT !.stage = "abort", !.id = answer.id])
             /\ Send("abort", Top.pool, Len(frames), answer.id, 0)
             /\ UNCHANGED pools
    BY <1>2, <1>3, <1>6, <1>8, <1>9
  <1>10. CASE /\ answer.kind # "error"
              /\ SetTop([Top EXCEPT !.stage = "commit", !.id = answer.id])
              /\ pools' = IF Top.op = "install" THEN pools \cup {Top.pool} ELSE pools
              /\ Send("commit", Top.pool, Len(frames), answer.id, interest_revision + 1)
    BY <1>2, <1>3, <1>6, <1>8, <1>10
  <1> QED BY <1>2, <1>5, <1>7, <1>9, <1>10

\* A refused commit: the driver has stopped, or still holds the transaction, or
\* gave it up.  An install goes on to abort, the others return.
LEMMA CommitRefusedKeeps == ASSUME FenceInv, commit_refused PROVE FenceInv'
  <1>1. PICK n : n = Len(frames)
    OBVIOUS
  <1>2. Reading(n) /\ frames[n].stage = "commit" /\ replies[n].kind = "error" /\ replies[n] # Nothing /\ Top = frames[n] /\ Waits(n)
    BY <1>1 DEF commit_refused, Reading, At, Top, answer, Receive, Waits, driver_vars, Nothing
  <1>3. n \in Depths /\ frames[n] \in Frames
    BY <1>1, <1>2, StackTypes DEF FenceInv, Reading
  <1>4. Refused(n) /\ (driver_alive' <=> driver_alive)
    BY <1>2 DEF Refused, Reading, driver_alive
  <1>5. interest_revision' = interest_revision
    BY DEF commit_refused
  <1>6. CASE frames[n].op # "install" /\ Return("error") /\ UNCHANGED <<pools, trusted, d_commands>>
    <2>1. ~Begun(n) /\ ~Settling(n)
      BY <1>2 DEF Begun, Settling
    <2> QED BY <1>2, <1>5, <1>6, <2>1, EndedQuietlyKeeps DEF Return
  <1>7. CASE /\ frames[n].op = "install" /\ pools' = pools \ {Top.pool} /\ trusted' = FALSE
             /\ SetTop([Top EXCEPT !.stage = "abort"])
             /\ Send("abort", Top.pool, Len(frames), Top.id, 0)
    <2> DEFINE f == [frames[n] EXCEPT !.stage = "abort"]
    <2>1. /\ f \in Frames /\ f.op = frames[n].op /\ f.pool = frames[n].pool /\ f.stage = "abort" /\ f.id = frames[n].id
      BY <1>3 DEF Frames
    <2>2. frames' = [frames EXCEPT ![n] = f]
      BY <1>1, <1>2, <1>7 DEF SetTop
    <2>3. d_commands' = Append(d_commands, [kind |-> f.stage, pool |-> f.pool, depth |-> n, id |-> f.id, revision |-> 0])
      BY <1>1, <1>2, <1>7, <2>1 DEF Send
    <2> HIDE DEF f
    <2>4. Asking(n, f, 0)
      BY <1>2, <1>5, <2>1, <2>2, <2>3 DEF Asking
    <2>5. /\ frames' \in Seq(Frames) /\ Depths' = Depths /\ frames'[n] = f
          /\ \A d \in Depths : d # n => frames'[d] = frames[d] /\ replies'[d] = replies[d]
          /\ replies' \in [1..MaxDepth -> Answers] /\ replies'[n] = Nothing
          /\ \A d \in 1..MaxDepth : replies'[d].kind = "none" => replies'[d] = Nothing
          /\ d_commands' \in Seq(Orders)
          /\ Nesting' /\ InFlight' /\ Exchange' /\ Exclusive'
      BY <2>4, Asked
    <2>6. UNCHANGED <<point, commands, canonical, delivery_reply, d_paused, d_revision, d_pending, d_refused,
                      d_next_transaction, d_owners, d_work>>
      BY <1>2 DEF Reading
    <2>7. FenceTypes'
      BY <1>5, <1>7, <2>5, <2>6 DEF FenceInv, FenceTypes
    <2>8. Holding'
      <3> SUFFICES ASSUME driver_alive PROVE Holding'
        BY <1>4 DEF Holding
      <3>1. \A d \in Depths : d # n => ~Begun(d)' /\ ~Refused(d)'
        <4>1. \A d \in Depths : d # n => ~Begun(d) /\ ~Refused(d)
          BY <1>2, <1>3, HoldsAlone
        <4> QED BY <2>5, <4>1 DEF Begun, Refused, Nothing
      <3>2. Begun(n)' /\ ~Refused(n)'
        BY <2>1, <2>5 DEF Begun, Refused, Nothing
      <3>3. Matches(n) \/ (d_refused /\ d_pending = NoTransaction)
        BY <1>3, <1>4, <1>7 DEF FenceInv, Holding
      <3>4. Matches(n)' \/ Gone(n)'
        <4>1. CASE Matches(n)
          BY <1>2, <2>1, <2>5, <2>6, <4>1 DEF Matches, transaction_id, NoTransaction
        <4>2. CASE d_refused /\ d_pending = NoTransaction
          BY <1>7, <2>1, <2>5, <2>6, <4>2 DEF Gone, NoTransaction
        <4> QED BY <3>3, <4>1, <4>2
      <3>5. /\ d_pending # NoTransaction => d_paused
            /\ ~d_refused /\ d_paused => d_pending # NoTransaction
        BY DEF FenceInv, Holding
      <3> QED BY <1>3, <2>5, <2>6, <3>1, <3>2, <3>4, <3>5 DEF Holding, NoTransaction
    <2> QED BY <1>7, <2>5, <2>7, <2>8 DEF FenceInv, Revisions, Topology
  <1> QED BY <1>2, <1>6, <1>7 DEF commit_refused

-----------------------------------------------------------------------------
(* The theorems.                                                             *)

LEMMA FenceStep == ASSUME FenceInv, [Next]_vars PROVE FenceInv'
  <1>1. CASE \E op \in {"install", "remove", "refresh"}, p \in Pool : Request(op, p)
    BY <1>1, RequestKeeps
  <1>2. CASE \E n \in 1..MaxLineage : d_next_batch(n)
    BY <1>2, NextBatchKeeps
  <1>3. CASE d_preconfirmation
    BY <1>3, PreconfirmationKeeps
  <1>4. CASE d_provider_error
    BY <1>4, ProviderErrorKeeps
  <1>5. CASE Actor
    BY <1>5, HandleControlKeeps, ReportKeeps, PreviewKeeps, IngestKeeps, RemoveOrphanKeeps, OrphanRemovedKeeps,
       IngestedKeeps, BegunKeeps, CommittedKeeps, CommitRefusedKeeps, AbortedKeeps DEF Actor
  <1>6. CASE Driver
    BY <1>6, SubmitKeeps, DeliveredKeeps, PreconfirmedKeeps, BeginAddKeeps, BeginRemoveKeeps, BeginReplaceKeeps,
       CommitKeeps, AbortKeeps, StoppedKeeps DEF Driver
  <1>7. CASE UNCHANGED vars
    <2>1. UNCHANGED <<frames, replies, d_commands, interest_revision, d_revision, pools, d_pending, d_refused, d_paused, d_owners,
                      trusted, point, commands, canonical, delivery_reply, d_next_transaction, d_work>>
      BY <1>7 DEF vars, actor_vars, driver_vars
    <2>2. FenceTypes'
      BY <2>1 DEF FenceInv, FenceTypes
    <2>3. InFlight'
      BY <2>1 DEF FenceInv, InFlight, Depths, Ingests
    <2> QED BY <2>1, <2>2, <2>3, ElsewhereKeeps DEF driver_alive
  <1> QED BY <1>1, <1>2, <1>3, <1>4, <1>5, <1>6, <1>7 DEF Next

\* The exchange between the actor's handlers and the driver is at every step
\* what FenceInv says.
THEOREM FenceInvariance == Spec => []FenceInv
  <1>1. Init => FenceInv
    BY InitFence
  <1>2. FenceInv /\ [Next]_vars => FenceInv'
    BY FenceStep
  <1> QED BY <1>1, <1>2, PTL DEF Spec

\* Without handlers under way nobody holds a transaction.
LEMMA QuietAgrees == ASSUME FenceInv PROVE TopologyAgrees /\ NeverStranded
  <1> SUFFICES ASSUME Quiescent PROVE TopologyAgrees /\ NeverStranded
    BY DEF TopologyAgrees, NeverStranded
  <1>1. Depths = {} /\ driver_alive
    BY StackTypes DEF FenceInv, Quiescent
  <1>2. ~d_refused => d_pending = NoTransaction /\ ~d_paused
    BY <1>1 DEF FenceInv, Holding, FenceTypes
  <1>3. ASSUME trusted PROVE interest_revision = d_revision
    BY <1>1, <1>3 DEF FenceInv, Revisions
  <1>4. ASSUME trusted
        PROVE  /\ pools = {p \in Pool : registered(p)}
               /\ ~d_refused => \A p \in pools : d_owners[p] = "Active"
    <2>1. \A p \in Pool : (registered(p) <=> p \in pools) /\ (~d_refused => Settled(p))
      BY <1>1, <1>4 DEF FenceInv, Topology, Touched
    <2> QED BY <2>1 DEF FenceInv, FenceTypes, Settled
  <1> QED BY <1>2, <1>3, <1>4 DEF TopologyAgrees, NeverStranded

\* Between transactions a trusted actor and a running driver agree on the pools
\* and on the interest revision, for every number of pools, requests and blocks.
THEOREM TopologyAlwaysAgrees == Spec => []TopologyAgrees
  BY FenceInvariance, QuietAgrees, PTL

\* The driver is left paused, or with a transaction nobody will end, only by a
\* commit that the subscriber refuses for an owner's state and no abort follows.
THEOREM DriverNeverStranded == Spec => []NeverStranded
  BY FenceInvariance, QuietAgrees, PTL

\* Only the commit of a subscriber that refuses owners leaves that mark.
LEMMA NothingRefused == ASSUME OwnerFaults = FALSE, ~d_refused, [Next]_vars PROVE ~d_refused'
  <1>1. CASE Actor
    BY <1>1 DEF Actor, handle_control, report_subscriber_failure, ingest_preconfirmation, ingest, remove_orphan,
       orphan_removed, ingested, begun, committed, commit_refused, aborted, driver_vars
  <1>2. CASE d_submit \/ d_delivered \/ d_preconfirmed \/ begin_add \/ begin_remove \/ begin_replace \/ abort \/ d_closed
    BY <1>2, Zenon DEF d_submit, d_delivered, d_preconfirmed, begin_add, begin_remove, begin_replace, abort, d_closed, driver_vars
  <1>3. CASE commit
    BY <1>3 DEF commit
  <1>4. CASE \E op \in {"install", "remove", "refresh"}, p \in Pool : Request(op, p)
    BY <1>4 DEF Request, driver_vars
  <1>5. CASE (\E n \in 1..MaxLineage : d_next_batch(n)) \/ d_preconfirmation \/ d_provider_error
    BY <1>5 DEF d_next_batch, d_preconfirmation, d_provider_error
  <1>6. CASE UNCHANGED vars
    BY <1>6 DEF vars, driver_vars
  <1> QED BY <1>1, <1>2, <1>3, <1>4, <1>5, <1>6 DEF Next, Driver

\* With a subscriber that never refuses an owner it prepared, what the runtime's
\* document says of a failed handshake is so: a runtime that keeps its trust has
\* not left its driver paused.
THEOREM FencedWithoutFaults ==
  ASSUME OwnerFaults = FALSE
  PROVE  Spec => []StrandedIsFenced
  <1>1. Init => FenceInv /\ ~d_refused
    BY InitFence DEF Init
  <1>2. FenceInv /\ ~d_refused /\ [Next]_vars => (FenceInv /\ ~d_refused)'
    BY FenceStep, NothingRefused
  <1>3. FenceInv /\ ~d_refused => StrandedIsFenced
    BY QuietAgrees DEF NeverStranded, StrandedIsFenced
  <1> QED BY <1>1, <1>2, <1>3, PTL DEF Spec

-----------------------------------------------------------------------------
(* Drains of one block: a batch is built under the revision it is read under. *)

\* Queue and revision stand still, and nobody starts to wait for a commit.
LEMMA AlignedElsewhere ==
  ASSUME Aligned, UNCHANGED <<canonical, d_revision, d_pending, d_work>>,
         \A d \in Depths' : frames'[d].stage = "commit" =>
           d \in Depths /\ frames[d].stage = "commit" /\ (replies[d] # Nothing => replies'[d] # Nothing)
  PROVE  Aligned'
  BY DEF Aligned, driver_alive, NoTransaction, Nothing

\* The same when the queue is empty: nothing is asked of the handlers.
LEMMA AlignedEmpty ==
  ASSUME Aligned, canonical' = <<>>, UNCHANGED <<d_pending, d_work>>
  PROVE  Aligned'
  BY DEF Aligned, driver_alive, NoTransaction

\* The driver answers: a handler that had an answer keeps it.
LEMMA AnswersStay ==
  ASSUME FenceInv, d_commands # <<>>, NEW kind, NEW id, kind # "none", Reply(kind, id), UNCHANGED frames
  PROVE  /\ Depths' = Depths
         /\ \A d \in Depths : replies[d] # Nothing => replies'[d] # Nothing
         /\ replies'[Head(d_commands).depth] # Nothing
  <1> DEFINE e == Head(d_commands).depth
             r == [kind |-> kind, id |-> id]
  <1>1. replies \in [1..MaxDepth -> Answers] /\ e \in 1..MaxDepth
    BY HeadCommand DEF FenceInv, FenceTypes
  <1>2. replies' = [replies EXCEPT ![e] = r] /\ r # Nothing
    BY DEF Reply, Nothing
  <1>3. Depths \subseteq 1..MaxDepth
    <2>1. Len(frames) <= 3 /\ Len(frames) \in Nat /\ Depths = 1..Len(frames)
      BY Shallow, StackTypes DEF FenceInv
    <2> QED BY <2>1 DEF MaxDepth
  <1> HIDE DEF e, r
  <1>4. \A d \in Depths : replies'[d] = IF d = e THEN r ELSE replies[d]
    BY <1>1, <1>2, <1>3
  <1>5. replies'[e] = r
    BY <1>1, <1>2
  <1>6. Depths' = Depths
    BY DEF Depths
  <1> QED BY <1>2, <1>4, <1>5, <1>6 DEF e

\* The step of the driver on a command, whatever the command.
LEMMA AlignedAnswer ==
  ASSUME FenceInv, Aligned, d_commands # <<>>, NEW kind, NEW id, kind # "none", Reply(kind, id),
         UNCHANGED <<frames, canonical, d_work>>,
         d_serves \/ d_pending' = d_pending,
         canonical # <<>> => d_revision' = d_revision
  PROVE  Aligned'
  <1>1. Depths' = Depths /\ \A d \in Depths : replies[d] # Nothing => replies'[d] # Nothing
    BY AnswersStay
  <1>2. canonical' # <<>> =>
          /\ Head(canonical').revision = d_revision'
          /\ \A d \in Depths' : frames'[d].stage = "commit" => replies'[d] # Nothing
    BY <1>1 DEF Aligned
  <1>3. driver_alive' /\ d_pending' # NoTransaction =>
          d_work'.kind = "idle" \/ (d_work'.kind = "deliver" /\ d_work'.submitted = TRUE)
    <2>1. CASE d_serves
      <3>1. d_work.kind = "idle" \/ (d_work.kind = "deliver" /\ d_work.submitted)
        BY <2>1 DEF d_serves
      <3>2. d_work.submitted \in BOOLEAN
        BY DEF FenceInv, FenceTypes
      <3> QED BY <3>1, <3>2
    <2>2. CASE d_pending' = d_pending
      BY <2>2 DEF Aligned, driver_alive
    <2> QED BY <2>1, <2>2
  <1>4. d_work'.kind = "deliver" => d_work'.remaining = 1
    BY DEF Aligned
  <1> QED BY <1>2, <1>3, <1>4 DEF Aligned, Nothing, NoTransaction

LEMMA AlignedTake ==
  ASSUME FenceInv, Aligned, begin_add \/ begin_remove \/ begin_replace \/ commit \/ abort \/ d_closed
  PROVE  Aligned'
  <1>1. d_commands # <<>> /\ UNCHANGED <<frames, canonical, d_work>>
    BY Zenon DEF begin_add, begin_remove, begin_replace, commit, abort, d_closed, Take, actor_vars, driver_vars
  <1>2. CASE begin_add \/ begin_remove \/ begin_replace
    <2>1. d_serves /\ d_revision' = d_revision
      BY <1>2, Zenon DEF begin_add, begin_remove, begin_replace, Take, Open, Refuse, Resume
    <2>2. PICK kind \in {"error", "transaction"}, id \in {0, d_next_transaction + 1} : Reply(kind, id)
      BY <1>2, Zenon DEF begin_add, begin_remove, begin_replace, Open, Refuse, Resume
    <2> QED BY <1>1, <2>1, <2>2, AlignedAnswer
  <1>3. CASE commit \/ abort
    <2>1. d_serves
      BY <1>3 DEF commit, abort, Take
    <2>2. PICK kind \in {"error", "done"} : Reply(kind, 0)
      BY <1>3, Zenon DEF commit, abort, Close, Refuse, owner_state_refused, owner_step_refused
    <2>3. ASSUME canonical # <<>> PROVE d_revision' = d_revision
      <3>1. CASE abort
        BY <3>1, Zenon DEF abort, Refuse
      <3>2. CASE commit
        <4>1. Take("commit")
          BY <3>2 DEF commit
        <4>2. /\ Head(d_commands).depth \in Depths /\ replies[Head(d_commands).depth] = Nothing
              /\ frames[Head(d_commands).depth].stage = "commit"
          BY <4>1, Taken DEF order_of, begin_command, Waits
        <4> QED BY <2>3, <4>2 DEF Aligned
      <3> QED BY <1>3, <3>1, <3>2
    <2> QED BY <1>1, <2>1, <2>2, <2>3, AlignedAnswer
  <1>4. CASE d_closed
    <2>1. Reply("error", 0) /\ UNCHANGED <<d_revision, d_pending>>
      BY <1>4 DEF d_closed, driver_vars
    <2> QED BY <1>1, <2>1, AlignedAnswer
  <1> QED BY <1>2, <1>3, <1>4

\* A handler returns: with a batch waiting it was the only one.
LEMMA AlignedReturn ==
  ASSUME FenceInv, Aligned, NEW n, Reading(n), Pop
  PROVE  Aligned'
  <1>1. /\ frames # <<>> /\ n = Len(frames)
        /\ UNCHANGED <<canonical, d_revision, d_pending, d_work>>
    BY DEF Reading
  <1>2. /\ Depths' = Depths \ {n} /\ \A d \in Depths' : frames'[d] = frames[d]
    BY <1>1, Returned
  <1>3. \A d \in Depths' : d \in 1..MaxDepth /\ d # n /\ replies'[d] = replies[d]
    BY <1>2, AnswerRead
  <1> QED BY <1>1, <1>2, <1>3, AlignedElsewhere

LEMMA AlignedActor ==
  ASSUME FenceInv, Aligned, Actor
  PROVE  Aligned'
  <1>1. PICK n : n = Len(frames)
    OBVIOUS
  <1>2. CASE handle_control
    <2>1. UNCHANGED <<canonical, d_revision, d_pending, d_work, replies>> /\ frames = <<>>
      BY <1>2 DEF handle_control, driver_vars
    <2>2. \/ frames' = frames
          \/ frames' = Append(frames, Frame(Head(commands).op, Head(commands).pool, Head(commands).baseline, "fence"))
      BY <1>2, Zenon DEF handle_control, Push
    <2>3. \A d \in Depths' : frames'[d].stage # "commit"
      <3>1. CASE frames' = frames
        BY <2>1, <3>1 DEF Depths
      <3>2. CASE frames' = Append(frames, Frame(Head(commands).op, Head(commands).pool, Head(commands).baseline, "fence"))
        <4> DEFINE f == Frame(Head(commands).op, Head(commands).pool, Head(commands).baseline, "fence")
        <4>1. f.stage = "fence"
          BY DEF Frame
        <4> HIDE DEF f
        <4>2. frames' = <<f>>
          BY <2>1, <3>2 DEF f
        <4>3. Depths' = {1} /\ frames'[1] = f
          BY <4>2 DEF Depths
        <4> QED BY <4>1, <4>3
      <3> QED BY <2>2, <3>1, <3>2
    <2> QED BY <2>1, <2>3, AlignedElsewhere
  <1>3. CASE report_subscriber_failure \/ ingest_preconfirmation
    <2>1. UNCHANGED <<canonical, d_revision, d_pending, d_work, replies, frames>>
      BY <1>3 DEF report_subscriber_failure, ingest_preconfirmation, driver_vars
    <2>2. Depths' = Depths
      BY <2>1 DEF Depths
    <2> QED BY <2>1, <2>2, AlignedElsewhere
  <1>4. CASE ingest
    <2>1. canonical # <<>> /\ canonical' = Tail(canonical) /\ UNCHANGED <<d_pending, d_work>>
      BY <1>4 DEF ingest, driver_vars
    <2>2. canonical' = <<>>
      <3>1. canonical \in Seq([revision : Nat]) /\ Len(canonical) = 1
        BY <2>1 DEF FenceInv, FenceTypes, InFlight
      <3>2. Tail(canonical) \in Seq([revision : Nat]) /\ Len(Tail(canonical)) = 0
        BY <2>1, <3>1, InFront
      <3> QED BY <2>1, <3>2, EmptySeq
    <2> QED BY <2>1, <2>2, AlignedEmpty
  <1>5. CASE remove_orphan \/ orphan_removed \/ ingested
    <2>1. UNCHANGED <<canonical, d_pending, d_work>> /\ (At("reorg_actions") \/ At("removing"))
      BY <1>5 DEF remove_orphan, orphan_removed, ingested, driver_vars
    <2>2. canonical = <<>>
      BY <2>1, IngestOnTop
    <2> QED BY <2>1, <2>2, AlignedEmpty
  <1>6. CASE begun
    BY <1>6, AlignedEmpty DEF begun, driver_vars
  <1>7. CASE committed \/ aborted
    <2>1. Pop
      BY <1>7 DEF committed, aborted, Return
    <2>2. Reading(n)
      BY <1>1, <1>7 DEF committed, aborted, Reading, At, Top, answer, Receive, Waits, driver_vars, Nothing
    <2> QED BY <2>1, <2>2, AlignedReturn
  <1>8. CASE commit_refused
    <2>1. Reading(n) /\ Top = frames[n]
      BY <1>1, <1>8 DEF commit_refused, Reading, At, Top, answer, Receive, Waits, driver_vars, Nothing
    <2>2. CASE Pop
      BY <2>1, <2>2, AlignedReturn
    <2>3. CASE SetTop([Top EXCEPT !.stage = "abort"])
      <3> DEFINE f == [frames[n] EXCEPT !.stage = "abort"]
      <3>1. n \in Depths /\ frames[n] \in Frames /\ frames # <<>>
        BY <1>1, <2>1, StackTypes DEF FenceInv, Reading
      <3>2. f \in Frames /\ f.stage = "abort" /\ frames' = [frames EXCEPT ![Len(frames)] = f]
        BY <1>1, <2>1, <2>3, <3>1 DEF Frames, SetTop
      <3> HIDE DEF f
      <3>3. /\ Depths' = Depths /\ frames'[n] = f
            /\ \A d \in Depths \ {n} : frames'[d] = frames[d]
        BY <1>1, <3>1, <3>2, Retopped DEF FenceInv
      <3>4. \A d \in Depths : d # n => replies'[d] = replies[d]
        BY <2>1, AnswerRead
      <3>5. UNCHANGED <<canonical, d_revision, d_pending, d_work>>
        BY <2>1 DEF Reading
      <3>6. \A d \in Depths' : frames'[d].stage = "commit" =>
              d \in Depths /\ frames[d].stage = "commit" /\ (replies[d] # Nothing => replies'[d] # Nothing)
        BY <3>2, <3>3, <3>4
      <3> QED BY <3>5, <3>6, AlignedElsewhere
    <2> QED BY <1>8, <2>2, <2>3 DEF commit_refused, Return
  <1> QED BY <1>2, <1>3, <1>4, <1>5, <1>6, <1>7, <1>8 DEF Actor

LEMMA AlignedDriver ==
  ASSUME FenceInv, Aligned, MaxLineage = 1,
         \/ \E n \in 1..MaxLineage : d_next_batch(n)
         \/ d_preconfirmation \/ d_provider_error \/ d_submit \/ d_delivered \/ d_preconfirmed
  PROVE  Aligned'
  <1>1. CASE \E n \in 1..MaxLineage : d_next_batch(n)
    <2>1. PICK n \in 1..MaxLineage : d_next_batch(n)
      BY <1>1
    <2>2. n = 1
      <3>1. n \in 1..1
        BY <2>1
      <3> QED BY <3>1
    <2>3. /\ UNCHANGED <<canonical, frames, replies, d_pending, d_revision>> /\ d_work.kind = "idle" /\ ~d_paused
          /\ d_work' = [kind |-> "deliver", remaining |-> 1, submitted |-> FALSE]
      BY <2>1, <2>2 DEF d_next_batch, actor_vars
    <2>4. d_pending = NoTransaction
      BY <2>3 DEF FenceInv, Holding, driver_alive
    <2>5. canonical = <<>>
      BY <2>3 DEF FenceInv, InFlight
    <2> QED BY <2>3, <2>4, <2>5 DEF Aligned, NoTransaction
  <1>2. CASE d_preconfirmation
    <2>1. /\ UNCHANGED <<canonical, d_pending>> /\ d_work.kind = "idle" /\ ~d_paused
          /\ d_work' = [kind |-> "preconfirmation", remaining |-> 0, submitted |-> FALSE]
      BY <1>2 DEF d_preconfirmation, Idle
    <2>2. d_pending = NoTransaction
      BY <2>1 DEF FenceInv, Holding, driver_alive
    <2>3. canonical = <<>>
      BY <2>1 DEF FenceInv, InFlight
    <2> QED BY <2>1, <2>2, <2>3 DEF Aligned, NoTransaction
  <1>3. ASSUME canonical = <<>>, UNCHANGED canonical, d_work'.kind \in {"failed", "idle"} PROVE Aligned'
    BY <1>3 DEF Aligned, driver_alive
  <1>4. CASE d_provider_error
    <2>1. UNCHANGED canonical /\ d_work'.kind = "failed" /\ d_work.kind = "deliver" /\ d_work.submitted # TRUE
      BY <1>4 DEF d_provider_error, d_fails, Idle
    <2>2. canonical = <<>>
      BY <2>1 DEF FenceInv, InFlight
    <2> QED BY <1>3, <2>1, <2>2
  <1>5. CASE d_preconfirmed
    <2>1. UNCHANGED canonical /\ d_work'.kind \in {"failed", "idle"} /\ d_work.kind = "preconfirmation"
      BY <1>5 DEF d_preconfirmed, d_fails, Idle
    <2>2. canonical = <<>>
      BY <2>1 DEF FenceInv, InFlight
    <2> QED BY <1>3, <2>1, <2>2
  <1>6. CASE d_delivered
    <2>1. d_work.remaining = 1
      BY <1>6 DEF d_delivered, Aligned
    <2>2. UNCHANGED canonical /\ d_work'.kind \in {"failed", "idle"} /\ delivery_reply # "none"
      BY <1>6, <2>1 DEF d_delivered, d_fails, Idle
    <2>3. canonical = <<>>
      BY <2>2 DEF FenceInv, InFlight
    <2> QED BY <1>3, <2>2, <2>3
  <1>7. CASE d_submit
    <2>1. /\ UNCHANGED <<frames, replies, d_pending, d_revision>> /\ d_work.kind = "deliver" /\ d_work.submitted # TRUE
          /\ canonical' = Append(canonical, [revision |-> d_revision]) /\ d_work' = [d_work EXCEPT !.submitted = TRUE]
      BY <1>7 DEF d_submit, actor_vars
    <2>2. canonical = <<>>
      BY <2>1 DEF FenceInv, InFlight
    <2>3. Head(canonical').revision = d_revision
      BY <2>1, <2>2
    <2>4. d_work'.kind = "deliver" /\ d_work'.submitted = TRUE /\ d_work'.remaining = 1
      BY <2>1 DEF FenceInv, FenceTypes, Aligned
    <2>5. d_pending = NoTransaction
      BY <2>1 DEF Aligned, driver_alive
    <2>6. \A d \in Depths : frames[d].stage = "commit" => replies[d] # Nothing
      <3>1. \A d \in Depths : Begun(d) => Gone(d)
        BY <2>1, <2>5 DEF FenceInv, Holding, Matches, driver_alive
      <3> QED BY <3>1 DEF Begun, Gone
    <2>7. Depths' = Depths
      BY <2>1 DEF Depths
    <2>8. UNCHANGED <<frames, replies, d_revision>>
      BY <2>1
    <2> HIDE <2>1
    <2> QED BY <2>3, <2>4, <2>6, <2>7, <2>8 DEF Aligned, Nothing
  <1> QED BY <1>1, <1>2, <1>4, <1>5, <1>6, <1>7

LEMMA InitAligned == ASSUME Init PROVE Aligned
  BY DEF Init, Aligned, Idle

LEMMA AlignedStep ==
  ASSUME FenceInv, Aligned, [Next]_vars, MaxLineage = 1
  PROVE  Aligned'
  <1>1. CASE \/ \E op \in {"install", "remove", "refresh"}, p \in Pool : Request(op, p)
             \/ UNCHANGED vars
    <2>1. UNCHANGED <<canonical, d_revision, d_pending, d_work, replies, frames>>
      BY <1>1 DEF Request, vars, actor_vars, driver_vars
    <2>2. Depths' = Depths
      BY <2>1 DEF Depths
    <2> QED BY <2>1, <2>2, AlignedElsewhere
  <1>2. CASE Actor
    BY <1>2, AlignedActor
  <1>3. CASE begin_add \/ begin_remove \/ begin_replace \/ commit \/ abort \/ d_closed
    BY <1>3, AlignedTake
  <1>4. CASE \/ \E n \in 1..MaxLineage : d_next_batch(n)
             \/ d_preconfirmation \/ d_provider_error \/ d_submit \/ d_delivered \/ d_preconfirmed
    BY <1>4, AlignedDriver
  <1> QED BY <1>1, <1>2, <1>3, <1>4 DEF Next, Driver

\* A handler at its fence is alone when a batch waits, and has not committed.
LEMMA AlignedMatches == ASSUME FenceInv, Aligned PROVE NoMismatch
  <1> SUFFICES ASSUME frames = <<>> \/ At("fence"), canonical # <<>>, trusted
               PROVE  Head(canonical).revision = interest_revision
    BY DEF NoMismatch
  <1>1. Head(canonical).revision = d_revision
    BY DEF Aligned
  <1>2. \A d \in Depths : ~Settling(d)
    <2>1. CASE frames = <<>>
      BY <2>1, StackTypes DEF FenceInv
    <2>2. CASE At("fence")
      <3>1. \A d \in Depths : frames[d].stage = "commit" => d = Len(frames)
        BY Shallow DEF FenceInv
      <3> QED BY <2>2, <3>1 DEF At, Top, Settling
    <2> QED BY <2>1, <2>2
  <1> QED BY <1>1, <1>2 DEF FenceInv, Revisions

\* When the driver delivers one block at a time, the revision of the batch a
\* trusted actor ingests is its own, whatever transaction ran in between.
THEOREM RevisionsMatch ==
  ASSUME MaxLineage = 1
  PROVE  Spec => []NoMismatch
  <1>1. Init => FenceInv /\ Aligned
    BY InitFence, InitAligned
  <1>2. FenceInv /\ Aligned /\ [Next]_vars => (FenceInv /\ Aligned)'
    BY FenceStep, AlignedStep
  <1>3. FenceInv /\ Aligned => NoMismatch
    BY AlignedMatches
  <1> QED BY <1>1, <1>2, <1>3, PTL DEF Spec
=============================================================================
