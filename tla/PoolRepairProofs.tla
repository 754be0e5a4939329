--------------------------- MODULE PoolRepairProofs ---------------------------
(***************************************************************************)
(* The repair of pool state, for every block tree, set of pools and slots, *)
(* and treatment of events: StaleIsOwed, LifecycleHonest, and that the     *)
(* actor, the engine and the worker together implement QuoteView.          *)
(***************************************************************************)
EXTENDS PoolRepair, WellFoundedInduction, NaturalsInduction, TLAPS

-----------------------------------------------------------------------------
(* The block tree.                                                         *)

LEMMA LeastOf ==
  ASSUME NEW T \in SUBSET Nat, T # {}
  PROVE  \E n \in T : \A m \in T : n <= m
  <1>1. PICK n \in T : \A m \in T : ~(<<m, n>> \in OpToRel(<, Nat))
    BY WFMin, NatLessThanWellFounded
  <1>2. \A m \in T : m \in Nat /\ n \in Nat /\ ~(m < n)
    BY <1>1 DEF OpToRel
  <1>3. \A m \in T : n <= m
    BY <1>2
  <1> QED
    BY <1>3

LEMMA LeastNumber ==
  ASSUME NEW T \in SUBSET Block, T # {}
  PROVE  \E b \in T : \A c \in T : Number[b] <= Number[c]
  <1> DEFINE N == {Number[b] : b \in T}
  <1>1. N \in SUBSET Nat /\ N # {}
    BY TreeAssumption
  <1>2. PICK n \in N : \A m \in N : n <= m
    BY <1>1, LeastOf
  <1> QED
    BY <1>2

\* Lineage is defined: the closure of a block under Parent satisfies its equation.
LEMMA LineageEquation ==
  \A b \in Block : Lineage[b] = IF b = Genesis THEN {b} ELSE {b} \cup Lineage[Parent[b]]
  <1> DEFINE Closed(X) == \A c \in X : c # Genesis => Parent[c] \in X
             f == [b \in Block |-> {a \in Block : \A X \in SUBSET Block :
                                                    Closed(X) /\ b \in X => a \in X}]
  <1>1. ASSUME NEW b \in Block
        PROVE  f[b] = IF b = Genesis THEN {b} ELSE {b} \cup f[Parent[b]]
    <2>1. b \in f[b] /\ (b # Genesis => Parent[b] \in Block)
      BY TreeAssumption
    <2>2. CASE b = Genesis
      <3>1. {b} \in SUBSET Block /\ Closed({b})
        BY <2>2
      <3>2. \A a \in f[b] : a \in {b}
        BY <3>1
      <3> QED
        BY <2>1, <2>2, <3>2
    <2>3. CASE b # Genesis
      <3>1. f[Parent[b]] \subseteq f[b]
        BY <2>1, <2>3
      <3>2. ASSUME NEW a \in f[b], a # b PROVE a \in f[Parent[b]]
        <4>1. a \in Block
          BY <3>2
        <4>2. ASSUME NEW X \in SUBSET Block, Closed(X), Parent[b] \in X PROVE a \in X
          <5>1. X \cup {b} \in SUBSET Block /\ Closed(X \cup {b}) /\ b \in X \cup {b}
            BY <4>2
          <5> QED
            BY <3>2, <5>1
        <4> QED
          BY <2>1, <2>3, <4>1, <4>2
      <3> QED
        BY <2>1, <2>3, <3>1, <3>2
    <2> QED
      BY <2>2, <2>3
  <1>2. f = [b \in Block |-> IF b = Genesis THEN {b} ELSE {b} \cup f[Parent[b]]]
    BY <1>1, Zenon
  <1> HIDE DEF f
  <1>3. \E h : h = [b \in Block |-> IF b = Genesis THEN {b} ELSE {b} \cup h[Parent[b]]]
    BY <1>2
  <1>4. Lineage = [b \in Block |-> IF b = Genesis THEN {b} ELSE {b} \cup Lineage[Parent[b]]]
    BY <1>3, Zenon DEF Lineage
  <1> QED
    BY <1>4, Zenon

\* Ancestors are blocks, lower than their descendants, and lineages are nested.
LEMMA LineageNested ==
  ASSUME NEW b \in Block
  PROVE  /\ b \in Lineage[b] /\ Lineage[b] \subseteq Block
         /\ \A a \in Lineage[b] : /\ Number[a] <= Number[b] /\ (Number[a] = Number[b] => a = b)
                                  /\ Lineage[a] \subseteq Lineage[b]
  <1> DEFINE Fine(c) == /\ Lineage[c] \subseteq Block
                        /\ \A a \in Lineage[c] : /\ Number[a] <= Number[c]
                                                 /\ (Number[a] = Number[c] => a = c)
                                                 /\ Lineage[a] \subseteq Lineage[c]
             T == {c \in Block : ~Fine(c)}
  <1>1. ASSUME T # {} PROVE FALSE
    <2>1. PICK c \in T : \A d \in T : Number[c] <= Number[d]
      BY <1>1, LeastNumber
    <2>2. c \in Block /\ ~Fine(c) /\ Number[c] \in Nat
      BY <2>1, TreeAssumption
    <2>3. c # Genesis
      <3>1. ASSUME c = Genesis PROVE Fine(c)
        <4>1. Lineage[c] = {c}
          BY <2>2, <3>1, LineageEquation
        <4> QED
          BY <2>2, <4>1
      <3> QED
        BY <2>2, <3>1
    <2>4. Parent[c] \in Block /\ Number[c] = Number[Parent[c]] + 1 /\ Number[Parent[c]] \in Nat
      BY <2>2, <2>3, TreeAssumption
    <2>5. Fine(Parent[c])
      BY <2>1, <2>2, <2>4
    <2>6. Lineage[c] = {c} \cup Lineage[Parent[c]]
      BY <2>2, <2>3, LineageEquation
    <2>7. \A a \in Lineage[Parent[c]] : /\ a \in Block /\ Number[a] \in Nat
                                        /\ Number[a] <= Number[Parent[c]]
                                        /\ Lineage[a] \subseteq Lineage[Parent[c]]
      BY <2>5, TreeAssumption
    <2>8. \A a \in Lineage[Parent[c]] : Number[a] < Number[c]
      BY <2>4, <2>7
    <2>9. Fine(c)
      BY <2>2, <2>4, <2>6, <2>7, <2>8
    <2> QED
      BY <2>2, <2>9
  <1>2. Fine(b)
    BY <1>1
  <1>3. b \in Lineage[b]
    BY LineageEquation
  <1> QED
    BY <1>2, <1>3

Writers(b, p, s) == {w \in Lineage[b] \ {Genesis} : s \in Touch[w][p]}

LEMMA TruthOfWriters ==
  ASSUME NEW b, NEW c, NEW p, NEW s, Writers(b, p, s) = Writers(c, p, s)
  PROVE  Truth(b, p, s) = Truth(c, p, s)
  <1> DEFINE Latest(W) == IF W = {} THEN Genesis
                          ELSE CHOOSE w \in W : \A v \in W : Number[v] <= Number[w]
  <1>1. Truth(b, p, s) = Latest(Writers(b, p, s)) /\ Truth(c, p, s) = Latest(Writers(c, p, s))
    BY DEF Truth, Writers
  <1> QED
    BY <1>1

\* A block that does not write a slot leaves it as its parent had it, and one
\* that writes it is the slot's last writer.
LEMMA TruthStep ==
  ASSUME NEW b \in Block \ {Genesis}, NEW p, NEW s
  PROVE  /\ s \notin Touch[b][p] => Truth(b, p, s) = Truth(Parent[b], p, s)
         /\ s \in Touch[b][p] => Truth(b, p, s) = b
  <1>1. Lineage[b] = {b} \cup Lineage[Parent[b]]
    BY LineageEquation
  <1>2. ASSUME s \notin Touch[b][p] PROVE Truth(b, p, s) = Truth(Parent[b], p, s)
    <2>1. Writers(b, p, s) = Writers(Parent[b], p, s)
      BY <1>1, <1>2 DEF Writers
    <2> QED
      BY <2>1, TruthOfWriters
  <1>3. ASSUME s \in Touch[b][p] PROVE Truth(b, p, s) = b
    <2> DEFINE W == Writers(b, p, s)
               Top(w) == \A v \in W : Number[v] <= Number[w]
    <2>1. b \in W /\ W \subseteq Lineage[b]
      BY <1>1, <1>3 DEF Writers
    <2>2. Top(b)
      BY <2>1, LineageNested
    <2>3. \A w \in W : Number[w] <= Number[b] /\ Number[w] \in Nat /\ Number[b] \in Nat
      BY <2>1, LineageNested, TreeAssumption
    <2>4. \A w \in W : Top(w) => Number[w] = Number[b]
      BY <2>1, <2>3
    <2>5. \A w \in W : Top(w) => w = b
      BY <2>1, <2>4, LineageNested
    <2>6. Truth(b, p, s) = CHOOSE w \in W : Top(w)
      BY <2>1, Zenon DEF Truth, Writers
    <2> HIDE DEF W, Top
    <2>7. \E w \in W : Top(w)
      BY <2>1, <2>2
    <2> QED
      BY <2>5, <2>6, <2>7
  <1> QED
    BY <1>2, <1>3

-----------------------------------------------------------------------------
(* What the actor and the worker know about a pool.                        *)

Acts    == {"none", "verify", "cold", "lazy", "other"}
Origins == {"none", "repair", "deferred"}
Tasks   == {"none", "refresh", "lazy", "patch"}

Intents(p) == [kind : Origins, act : Acts, slots : SUBSET SlotsOf[p]]
Works(p) == [id : Nat, kind : Origins, task : Tasks, slots : SUBSET SlotsOf[p],
             queued : BOOLEAN, completed : Nat]
JobSet(p) == [id : Nat, task : Tasks, slots : SUBSET SlotsOf[p], baseline : Block,
              phase : {"queued", "running", "between", "done", "failing"}, round : Nat,
              stale : BOOLEAN]
PoolRecords(p) ==
  [active : BOOLEAN, status : {"Ready", "Degraded"}, fence : BOOLEAN, targets : SUBSET SlotsOf[p],
   val : [Slot -> Values], intent : Intents(p), waiting : Block \cup {None}, work : Works(p),
   shown : {None, "CatchingUp", "Degraded"}, jobs : SUBSET JobSet(p), ids : SUBSET Nat]

Attempted(P) == P.work # NoWork => P.active /\ \E j \in P.jobs : j.id = P.work.id
Honest(P) == (P.shown = "CatchingUp" <=> P.work.kind = "repair") /\ Attempted(P)

\* A slot the adapter does not read is not cached.
Reads(p, P) == \A s \in Slot \ SlotsOf[p] : P.val[s] = Cold

Sound(p, P) == P \in PoolRecords(p) /\ Honest(P) /\ Reads(p, P)

\* What readers and the cache see of a pool.
SameView(P, Q) == Q.active = P.active /\ Q.val = P.val /\ Q.status = P.status

LEMMA NoWorkIs == \A p \in Pool : NoWork \in Works(p) /\ NoWork.kind = "none" /\ NoWork.id = 0
  BY PoolAssumption DEF NoWork, Works, Origins, Tasks

LEMMA NoIntentIs == \A p \in Pool : NoIntent \in Intents(p)
  BY PoolAssumption DEF NoIntent, Intents, Origins, Acts

\* A change of fields that honesty is not about.
LEMMA Untouched ==
  ASSUME NEW p, NEW P, NEW Q \in PoolRecords(p), Sound(p, P),
         Q.shown = P.shown, Q.work = P.work, Q.active = P.active, Q.jobs = P.jobs, Q.val = P.val
  PROVE  Sound(p, Q)
  BY DEF Sound, Honest, Attempted, Reads

LEMMA CombineIs ==
  ASSUME NEW p \in Pool, NEW a \in [act : Acts, slots : SUBSET SlotsOf[p]],
         NEW b \in [act : Acts, slots : SUBSET SlotsOf[p]]
  PROVE  combine(a, b) \in [act : Acts, slots : SUBSET SlotsOf[p]]
  BY DEF combine, Acts

LEMMA RetainSound ==
  ASSUME NEW p \in Pool, NEW P, Sound(p, P), NEW i \in Intents(p)
  PROVE  /\ Sound(p, retain_followup_intent(P, i)) /\ SameView(P, retain_followup_intent(P, i))
         /\ retain_followup_intent(P, i).work = P.work
  <1> DEFINE A == [act : Acts, slots : SUBSET SlotsOf[p]]
             R == retain_followup_intent(P, i)
  <1>1. P \in PoolRecords(p) /\ P.intent \in Intents(p)
    BY DEF Sound, PoolRecords
  <1>2. \A j \in Intents(p) : [P EXCEPT !.intent = j] \in PoolRecords(p)
    BY <1>1 DEF PoolRecords
  <1>3. \A j \in Intents(p) : LET Q == [P EXCEPT !.intent = j] IN
          /\ Q.shown = P.shown /\ Q.work = P.work /\ Q.active = P.active /\ Q.jobs = P.jobs
          /\ Q.val = P.val /\ Q.status = P.status
    BY <1>1 DEF PoolRecords
  <1>4. \A j \in Intents(p) : Sound(p, [P EXCEPT !.intent = j])
    BY <1>2, <1>3, Untouched
  <1>5. \A j \in Intents(p) : RepairIntent(combine([act |-> P.intent.act, slots |-> P.intent.slots],
                                                   [act |-> j.act, slots |-> j.slots])) \in Intents(p)
    <2>1. \A j \in Intents(p) : [act |-> j.act, slots |-> j.slots] \in A
      BY DEF Intents
    <2>2. \A a, b \in A : combine(a, b) \in A
      BY CombineIs
    <2>3. \A a \in A : RepairIntent(a) \in Intents(p)
      BY DEF RepairIntent, Intents, Origins
    <2> QED
      BY <1>1, <2>1, <2>2, <2>3
  <1>6. R = P \/ \E j \in Intents(p) : R = [P EXCEPT !.intent = j]
    <2>1. CASE i = NoIntent
      BY <2>1 DEF retain_followup_intent, NoIntent
    <2>2. CASE i # NoIntent /\ i.kind = "deferred" /\ P.intent.kind = "repair"
      BY <2>2 DEF retain_followup_intent
    <2>3. CASE i # NoIntent /\ i.kind = "repair" /\ P.intent.kind = "repair"
      <3>1. R = [P EXCEPT !.intent =
                   RepairIntent(combine([act |-> P.intent.act, slots |-> P.intent.slots],
                                        [act |-> i.act, slots |-> i.slots]))]
        BY <1>1, <2>3 DEF retain_followup_intent, PoolRecords
      <3> QED
        BY <1>5, <3>1
    <2>4. CASE i # NoIntent /\ P.intent.kind # "repair"
      BY <2>4 DEF retain_followup_intent
    <2>5. CASE i # NoIntent /\ i.kind \notin {"deferred", "repair"}
      BY <2>5 DEF retain_followup_intent
    <2> QED
      BY <2>1, <2>2, <2>3, <2>4, <2>5
  <1> HIDE DEF R
  <1>7. Sound(p, R) /\ SameView(P, R) /\ R.work = P.work
    <2>1. CASE R = P
      BY <2>1 DEF SameView
    <2>2. ASSUME NEW j \in Intents(p), R = [P EXCEPT !.intent = j]
          PROVE  Sound(p, R) /\ SameView(P, R) /\ R.work = P.work
      BY <1>3, <1>4, <2>2 DEF SameView
    <2> QED
      BY <1>6, <2>1, <2>2
  <1> QED
    BY <1>7 DEF R

LEMMA CancelSound ==
  ASSUME NEW p \in Pool, NEW P, Sound(p, P)
  PROVE  /\ Sound(p, cancel_scheduled_work(P)) /\ SameView(P, cancel_scheduled_work(P))
         /\ cancel_scheduled_work(P).work = NoWork /\ cancel_scheduled_work(P).ids = P.ids
  <1> DEFINE C == cancel_scheduled_work(P)
  <1>1. P \in PoolRecords(p) /\ Honest(P) /\ Reads(p, P) /\ NoWork \in Works(p)
    BY NoWorkIs DEF Sound
  <1>2. WithoutQueued(P) \subseteq P.jobs
    BY DEF WithoutQueued
  <1>3. /\ C \in PoolRecords(p) /\ C.work = NoWork /\ C.active = P.active /\ C.val = P.val
        /\ C.status = P.status /\ C.ids = P.ids
        /\ C.shown = IF P.work.kind = "repair" THEN "Degraded" ELSE P.shown
    BY <1>1, <1>2 DEF cancel_scheduled_work, PoolRecords
  <1> HIDE DEF C
  <1>4. C.shown # "CatchingUp" /\ C.work.kind # "repair"
    BY <1>1, <1>3, NoWorkIs DEF Honest
  <1> QED
    BY <1>1, <1>3, <1>4 DEF Sound, Honest, Attempted, Reads, SameView, C


LEMMA SubmitSound ==
  ASSUME NEW p \in Pool, NEW P, Sound(p, P), P.work = NoWork, P.active, FreeIds(P) # {},
         NEW i \in Intents(p), NEW b \in Block
  PROVE  Sound(p, submit(P, i, b)) /\ SameView(P, submit(P, i, b))
  <1> DEFINE id == Min(FreeIds(P))
             w == [id |-> id, kind |-> i.kind, task |-> task_of(i), slots |-> i.slots,
                   queued |-> TRUE, completed |-> 0]
             j == [id |-> id, task |-> task_of(i), slots |-> i.slots, baseline |-> b,
                   phase |-> "queued", round |-> 0, stale |-> FALSE]
             S == submit(P, i, b)
  <1>1. P \in PoolRecords(p) /\ Honest(P) /\ Reads(p, P)
    BY DEF Sound
  <1>2. id \in Nat
    <2>1. FreeIds(P) \in SUBSET Nat
      BY <1>1 DEF FreeIds, PoolRecords
    <2>2. PICK n \in FreeIds(P) : \A m \in FreeIds(P) : n <= m
      BY <2>1, LeastOf
    <2> QED
      BY <2>1, <2>2 DEF Min
  <1>3. task_of(i) \in Tasks
    BY DEF task_of, Tasks
  <1> HIDE DEF id
  <1>4. w \in Works(p) /\ w.kind = i.kind /\ w.id = id
    BY <1>2, <1>3 DEF Works, Intents
  <1>5. j \in JobSet(p) /\ j.id = id
    BY <1>2, <1>3 DEF JobSet, Intents
  <1>6. S = [P EXCEPT !.work = w, !.jobs = P.jobs \cup {j},
                      !.shown = IF i.kind = "repair" THEN "CatchingUp" ELSE P.shown]
    BY <1>1 DEF submit, id, PoolRecords
  <1> HIDE DEF w, j, S
  <1>7. /\ S \in PoolRecords(p) /\ S.work = w /\ S.jobs = P.jobs \cup {j} /\ S.active = P.active
        /\ S.val = P.val /\ S.status = P.status
        /\ S.shown = IF i.kind = "repair" THEN "CatchingUp" ELSE P.shown
    BY <1>1, <1>4, <1>5, <1>6 DEF PoolRecords
  <1>8. P.shown # "CatchingUp"
    BY <1>1, NoWorkIs DEF Honest
  <1>9. S.shown = "CatchingUp" <=> S.work.kind = "repair"
    BY <1>4, <1>7, <1>8
  <1>10. Attempted(S)
    BY <1>4, <1>5, <1>7 DEF Attempted
  <1> QED
    BY <1>1, <1>7, <1>9, <1>10 DEF Sound, Honest, Reads, SameView, S

LEMMA QueueSound ==
  ASSUME NEW p \in Pool, NEW P, Sound(p, P), P.active,
         NEW i \in Intents(p), NEW b \in Block, NEW ok \in BOOLEAN
  PROVE  Sound(p, queue_followup(P, i, b, ok)[1]) /\ SameView(P, queue_followup(P, i, b, ok)[1])
  <1> DEFINE C == IF P.work = NoWork THEN P ELSE cancel_scheduled_work(P)
             r == queue_followup(P, i, b, ok)
  <1>1. Sound(p, C) /\ SameView(P, C) /\ C.work = NoWork /\ C.ids = P.ids
    BY CancelSound DEF SameView
  <1> HIDE DEF C
  <1>2. C.active
    BY <1>1 DEF SameView
  <1>3. r[1] \in {P, C} \/ (FreeIds(P) # {} /\ r[1] = submit(C, i, b))
    BY DEF queue_followup, C
  <1>4. FreeIds(P) # {} => FreeIds(C) # {}
    <2>1. C = P \/ C.jobs \subseteq P.jobs
      <3>1. P \in PoolRecords(p)
        BY DEF Sound
      <3> QED
        BY <3>1 DEF C, cancel_scheduled_work, WithoutQueued, PoolRecords
    <2> QED
      BY <1>1, <2>1 DEF FreeIds
  <1> HIDE DEF r
  <1>5. SameView(P, P) /\ \A Q : SameView(P, C) /\ SameView(C, Q) => SameView(P, Q)
    BY DEF SameView
  <1>6. Sound(p, r[1]) /\ SameView(P, r[1])
    <2>1. CASE r[1] = P
      BY <2>1, <1>5
    <2>2. CASE r[1] = C
      BY <2>2, <1>1
    <2>3. CASE FreeIds(P) # {} /\ r[1] = submit(C, i, b)
      BY <2>3, <1>1, <1>2, <1>4, <1>5, SubmitSound
    <2> QED
      BY <1>3, <2>1, <2>2, <2>3
  <1> QED
    BY <1>6 DEF r

LEMMA DrainSound ==
  ASSUME NEW p \in Pool, NEW P, Sound(p, P), NEW b \in Block, NEW ok \in BOOLEAN
  PROVE  Sound(p, drain_followup_intents(P, b, ok)) /\ SameView(P, drain_followup_intents(P, b, ok))
  <1> DEFINE D == drain_followup_intents(P, b, ok)
             Q == [P EXCEPT !.waiting = None]
             r == queue_followup(Q, P.intent, b, ok)
             Done(R) == [R EXCEPT !.intent = NoIntent]
             Dropped == [P EXCEPT !.intent = NoIntent, !.waiting = None]
  <1>1. P \in PoolRecords(p) /\ P.intent \in Intents(p)
    BY DEF Sound, PoolRecords
  <1>2. Sound(p, Q) /\ SameView(P, Q) /\ Q.intent \in Intents(p)
    <2>1. /\ Q \in PoolRecords(p) /\ Q.intent = P.intent /\ Q.status = P.status
          /\ Q.shown = P.shown /\ Q.work = P.work /\ Q.active = P.active /\ Q.jobs = P.jobs
          /\ Q.val = P.val
      BY <1>1 DEF PoolRecords
    <2> HIDE DEF Q
    <2> QED
      BY <1>1, <2>1, Untouched DEF SameView
  <1>3. \A R : Sound(p, R) => Sound(p, Done(R)) /\ SameView(R, Done(R))
    <2>1. ASSUME NEW R, Sound(p, R) PROVE Sound(p, Done(R)) /\ SameView(R, Done(R))
      <3>1. R \in PoolRecords(p)
        BY <2>1 DEF Sound
      <3>2. /\ Done(R) \in PoolRecords(p) /\ Done(R).status = R.status
            /\ Done(R).shown = R.shown /\ Done(R).work = R.work /\ Done(R).active = R.active
            /\ Done(R).jobs = R.jobs /\ Done(R).val = R.val
        BY <3>1, NoIntentIs DEF PoolRecords
      <3> HIDE DEF Done
      <3> QED
        BY <2>1, <3>2, Untouched DEF SameView
    <2> QED
      BY <2>1
  <1>4. D \in {P, Dropped, Done(Q), Done(r[1]), r[1]} /\ (D \in {r[1], Done(r[1])} \ {P, Dropped, Done(Q)} => P.active)
    BY DEF drain_followup_intents
  <1>5. Dropped = Done(Q)
    BY <1>1 DEF PoolRecords
  <1> HIDE DEF Done, Q, D, Dropped
  <1>6. P.active => Sound(p, r[1]) /\ SameView(Q, r[1])
    <2>1. P.active => Q.active
      BY <1>2 DEF SameView
    <2> QED
      BY <1>1, <1>2, <2>1, QueueSound
  <1> HIDE DEF r
  <1>7. SameView(P, P) /\ \A R, S : SameView(P, R) /\ SameView(R, S) => SameView(P, S)
    BY DEF SameView
  <1>8. Sound(p, D) /\ SameView(P, D)
    <2>1. CASE D = P
      BY <2>1, <1>7
    <2>2. CASE D = Done(Q)
      BY <2>2, <1>2, <1>3, <1>7
    <2>3. CASE P.active /\ D = r[1]
      BY <2>3, <1>2, <1>6, <1>7
    <2>4. CASE P.active /\ D = Done(r[1])
      <3>1. Sound(p, r[1]) /\ SameView(P, r[1])
        BY <2>4, <1>2, <1>6, <1>7
      <3> QED
        BY <2>4, <3>1, <1>3, <1>7
    <2> QED
      BY <1>4, <1>5, <2>1, <2>2, <2>3, <2>4
  <1> QED
    BY <1>8 DEF D

-----------------------------------------------------------------------------
(* What a block does to the cache of one pool.                             *)

Treated == {"none", "write", "delta", "verify", "cold", "other", "undecoded"}
Repairs(p) == [act : Acts, slots : SUBSET SlotsOf[p]]

\* The cached slots that do not hold the chain's value at block b.
Stale(p, v, b) == {s \in Slot : v[s] \notin {Cold, Truth(b, p, s)}}

Uncached(p, v) == \A s \in Slot \ SlotsOf[p] : v[s] = Cold

LEMMA StaleIsRead ==
  ASSUME NEW p, NEW v, NEW b, Uncached(p, v)
  PROVE  Stale(p, v, b) \subseteq SlotsOf[p]
  BY DEF Uncached, Stale

LEMMA TruthIsBlock ==
  ASSUME NEW b \in Block, NEW p, NEW s
  PROVE  Truth(b, p, s) \in Block
  <1> DEFINE W == Writers(b, p, s)
             Top(w) == \A v \in W : Number[v] <= Number[w]
  <1>1. Truth(b, p, s) = IF W = {} THEN Genesis ELSE CHOOSE w \in W : Top(w)
    BY DEF Truth, Writers
  <1>2. W \in SUBSET Block
    BY LineageNested DEF Writers
  <1>3. Genesis \in Block
    BY TreeAssumption
  <1>4. ASSUME W # {} PROVE \E w \in W : \A v \in W : Number[v] <= Number[w]
    <2>1. \A w \in W : Number[w] \in Nat /\ Number[b] \in Nat /\ Number[w] <= Number[b]
      BY LineageNested, TreeAssumption DEF Writers
    <2> DEFINE N == {n \in Nat : \E w \in W : Number[b] - Number[w] = n}
    <2>2. \A w \in W : Number[b] - Number[w] \in N
      BY <2>1
    <2>3. N \in SUBSET Nat /\ N # {}
      BY <1>4, <2>2
    <2>4. PICK n \in N : \A m \in N : n <= m
      BY <2>3, LeastOf
    <2>5. PICK w \in W : Number[b] - Number[w] = n
      BY <2>4
    <2>6. \A v \in W : Number[b] - Number[w] <= Number[b] - Number[v]
      BY <2>2, <2>4, <2>5
    <2>7. \A v \in W : Number[v] <= Number[w]
      BY <2>1, <2>6
    <2> QED
      BY <2>7
  <1> HIDE DEF W, Top
  <1>5. W # {} => (CHOOSE w \in W : Top(w)) \in W
    BY <1>4 DEF Top
  <1> QED
    BY <1>1, <1>2, <1>3, <1>5

LEMMA RollbackIs ==
  ASSUME NEW p \in Pool, NEW P, Sound(p, P), NEW b \in Block \ {Genesis}, NEW undo \in BOOLEAN
  PROVE  /\ rolled_back(P, p, b, undo) \in [Slot -> Values]
         /\ Uncached(p, rolled_back(P, p, b, undo))
         /\ ~undo => rolled_back(P, p, b, undo) = P.val
  <1> DEFINE r == rolled_back(P, p, b, undo)
  <1>1. P.val \in [Slot -> Values] /\ \A s \in Slot \ SlotsOf[p] : P.val[s] = Cold
    BY DEF Sound, PoolRecords, Reads
  <1>2. Cold \notin Block /\ Parent[b] \in Block
    BY TreeAssumption
  <1>3. \A s \in Slot : Truth(Parent[b], p, s) \in Values
    BY <1>2, TruthIsBlock DEF Values
  <1>4. r \in [Slot -> Values]
    BY <1>1, <1>3 DEF rolled_back
  <1>5. \A s \in Slot \ SlotsOf[p] : r[s] = Cold
    BY <1>1, <1>2 DEF rolled_back
  <1>6. ~undo => r = P.val
    BY <1>1 DEF rolled_back
  <1> QED
    BY <1>4, <1>5, <1>6 DEF Uncached

\* A rollback makes no slot wrong at the parent that was right at a point whose
\* values are the parent's.
LEMMA RollbackStale ==
  ASSUME NEW p \in Pool, NEW P, Sound(p, P), NEW b \in Block \ {Genesis}, NEW undo \in BOOLEAN,
         NEW c, \A s \in Slot : Truth(c, p, s) = Truth(Parent[b], p, s)
  PROVE  Stale(p, rolled_back(P, p, b, undo), Parent[b]) \subseteq Stale(p, P.val, c)
  BY DEF Stale, rolled_back

LEMMA RepairIs ==
  ASSUME NEW p \in Pool, NEW b \in Block, NEW v, NEW k \in Treated
  PROVE  /\ event_repair(v, p, b, k) \in Repairs(p)
         /\ k = "verify" => event_repair(v, p, b, k) = VerifySlots(Touch[b][p])
         /\ k = "cold" => event_repair(v, p, b, k) = ColdStartRepair
         /\ k = "other" => event_repair(v, p, b, k) = [act |-> "other", slots |-> Touch[b][p]]
         /\ k = "delta" => event_repair(v, p, b, k)
                             = VerifySlots({s \in Touch[b][p] : v[s] = Cold})
         /\ k \notin {"verify", "cold", "other", "delta"} => event_repair(v, p, b, k) = NoRepair
  <1>1. Touch[b][p] \in SUBSET SlotsOf[p]
    BY PoolAssumption
  <1>2. \A S \in SUBSET SlotsOf[p] : VerifySlots(S) \in Repairs(p)
    BY DEF VerifySlots, NoRepair, Repairs, Acts
  <1>3. VerifySlots({}) = NoRepair
    BY DEF VerifySlots
  <1>4. \A a : combine(NoRepair, a) = a
    BY DEF combine, NoRepair
  <1>5. \A a \in Repairs(p) : a.act # "none" => combine(a, NoRepair) = a
    BY DEF combine, NoRepair
  <1>6. combine(NoRepair, NoRepair) = NoRepair
    BY <1>4
  <1>7. ASSUME NEW a \in Repairs(p), a = NoRepair \/ a.act # "none" PROVE combine(a, NoRepair) = a
    BY <1>5, <1>6, <1>7
  <1> DEFINE own == CASE k = "verify" -> VerifySlots(Touch[b][p])
                      [] k = "cold" -> ColdStartRepair
                      [] k = "other" -> [act |-> "other", slots |-> Touch[b][p]]
                      [] OTHER -> NoRepair
             skips == verify_slots_for_predicted_skips(v, p, b, k)
  <1>8. event_repair(v, p, b, k) = combine(own, skips)
    BY DEF event_repair
  <1>9. skips = IF k = "delta" THEN VerifySlots({s \in Touch[b][p] : v[s] = Cold}) ELSE NoRepair
    BY <1>3 DEF verify_slots_for_predicted_skips
  <1>10. CASE k = "verify"
    <2>1. own = VerifySlots(Touch[b][p]) /\ skips = NoRepair
      BY <1>9, <1>10
    <2>2. own \in Repairs(p) /\ (own = NoRepair \/ own.act # "none")
      BY <1>1, <1>2, <2>1 DEF VerifySlots
    <2> HIDE DEF own, skips
    <2> QED
      BY <1>7, <1>8, <1>10, <2>1, <2>2
  <1>11. CASE k = "cold"
    <2>1. own = ColdStartRepair /\ skips = NoRepair
      BY <1>9, <1>11
    <2>2. own \in Repairs(p) /\ own.act # "none"
      BY <2>1 DEF ColdStartRepair, Repairs, Acts
    <2> HIDE DEF own, skips
    <2> QED
      BY <1>7, <1>8, <1>11, <2>1, <2>2
  <1>12. CASE k = "other"
    <2>1. own = [act |-> "other", slots |-> Touch[b][p]] /\ skips = NoRepair
      BY <1>9, <1>12
    <2>2. own \in Repairs(p) /\ own.act # "none"
      BY <1>1, <2>1 DEF Repairs, Acts
    <2> HIDE DEF own, skips
    <2> QED
      BY <1>7, <1>8, <1>12, <2>1, <2>2
  <1>13. CASE k = "delta"
    <2>1. own = NoRepair /\ skips = VerifySlots({s \in Touch[b][p] : v[s] = Cold})
      BY <1>9, <1>13
    <2>2. skips \in Repairs(p)
      BY <1>1, <1>2, <2>1
    <2> HIDE DEF own, skips
    <2> QED
      BY <1>4, <1>8, <1>13, <2>1, <2>2
  <1>14. CASE k \notin {"verify", "cold", "other", "delta"}
    <2>1. own = NoRepair /\ skips = NoRepair
      BY <1>9, <1>14
    <2>2. NoRepair \in Repairs(p)
      BY DEF NoRepair, Repairs, Acts
    <2> HIDE DEF own, skips
    <2> QED
      BY <1>6, <1>8, <1>14, <2>1, <2>2
  <1> QED
    BY <1>10, <1>11, <1>12, <1>13, <1>14

\* The slots whose refresh the treatment of a block demands.
Asks(p, b, v, k) == IF k = "undecoded" THEN SlotsOf[p] ELSE Demand(p, event_repair(v, p, b, k))

LEMMA UpdateIs ==
  ASSUME NEW p \in Pool, NEW b \in Block, NEW v \in [Slot -> Values], Uncached(p, v), NEW k
  PROVE  apply_updates(v, p, b, k) \in [Slot -> Values] /\ Uncached(p, apply_updates(v, p, b, k))
  <1>1. Touch[b][p] \subseteq SlotsOf[p]
    BY PoolAssumption
  <1>2. b \in Values /\ Cold \in Values /\ Bad \in Values
    BY DEF Values
  <1>3. apply_updates(v, p, b, k) \in [Slot -> Values]
    BY <1>2 DEF apply_updates
  <1>4. \A s \in Slot \ SlotsOf[p] : apply_updates(v, p, b, k)[s] = v[s]
    BY <1>1 DEF apply_updates
  <1> QED
    BY <1>3, <1>4 DEF Uncached

\* A slot the updates of a block leave wrong was wrong before, or the block's
\* report demands its refresh.
LEMMA UpdateStale ==
  ASSUME NEW p \in Pool, NEW b \in Block \ {Genesis}, NEW v \in [Slot -> Values],
         Uncached(p, v), NEW k \in Treated, Touch[b][p] # {} => k # "none"
  PROVE  /\ Stale(p, apply_updates(v, p, b, k), b)
              \subseteq Stale(p, v, Parent[b]) \cup Asks(p, b, v, k)
         /\ Stale(p, apply_updates(v, p, b, k), b) \cap Rewritten(p, b, k) = {}
  <1> DEFINE u == apply_updates(v, p, b, k)
  <1>0. Stale(p, u, b) \cap Rewritten(p, b, k) = {}
    <2>1. \A s \in Touch[b][p] : Truth(b, p, s) = b
      BY TruthStep
    <2> QED
      BY <2>1 DEF Stale, Rewritten, apply_updates
  <1> SUFFICES ASSUME NEW s \in Stale(p, u, b), s \notin Stale(p, v, Parent[b])
               PROVE  s \in Asks(p, b, v, k)
    BY <1>0
  <1>1. s \in Slot /\ u[s] # Cold /\ u[s] # Truth(b, p, s) /\ v[s] \in {Cold, Truth(Parent[b], p, s)}
    BY DEF Stale
  <1>2. Touch[b][p] \subseteq SlotsOf[p]
    BY PoolAssumption
  <1>3. s \in Touch[b][p]
    <2>1. ASSUME s \notin Touch[b][p] PROVE FALSE
      <3>1. u[s] = v[s]
        BY <1>1, <2>1 DEF apply_updates
      <3> QED
        BY <1>1, <2>1, <3>1, TruthStep
    <2> QED
      BY <2>1
  <1>4. Truth(b, p, s) = b /\ k # "none"
    BY <1>3, TruthStep
  <1>5. k \notin {"write", "other"}
    BY <1>1, <1>3, <1>4 DEF apply_updates
  <1>6. k # "delta"
    BY <1>1, <1>3, <1>4 DEF apply_updates
  <1>7. k \in {"verify", "cold", "undecoded"}
    BY <1>4, <1>5, <1>6 DEF Treated
  <1>8. CASE k = "verify"
    <2>1. event_repair(v, p, b, k) = [act |-> "verify", slots |-> Touch[b][p]]
      BY <1>3, <1>8, RepairIs DEF VerifySlots
    <2> QED
      BY <1>3, <1>8, <2>1 DEF Asks, Demand
  <1>9. CASE k = "cold"
    <2>1. event_repair(v, p, b, k) = ColdStartRepair
      BY <1>9, RepairIs
    <2> QED
      BY <1>2, <1>3, <1>9, <2>1 DEF Asks, Demand, ColdStartRepair
  <1>10. CASE k = "undecoded"
    BY <1>2, <1>3, <1>10 DEF Asks
  <1> QED
    BY <1>7, <1>8, <1>9, <1>10

LEMMA AsksNothing ==
  ASSUME NEW p, NEW b, NEW v, NEW k, k # "undecoded", event_repair(v, p, b, k) = NoRepair
  PROVE  Asks(p, b, v, k) = {}
  BY DEF Asks, Demand, NoRepair

LEMMA AsksRead ==
  ASSUME NEW p \in Pool, NEW b \in Block, NEW v, NEW k \in Treated
  PROVE  Asks(p, b, v, k) \subseteq SlotsOf[p]
  <1>1. event_repair(v, p, b, k) \in Repairs(p)
    BY RepairIs
  <1> QED
    BY <1>1 DEF Asks, Demand, Repairs

LEMMA FinishIngest ==
  ASSUME NEW p \in Pool, NEW P, Sound(p, P), P.active, NEW b \in Block, NEW k \in Treated,
         NEW v \in [Slot -> Values], Uncached(p, v), NEW full \in BOOLEAN
  PROVE  LET F == finish_ingest(P, p, b, k, v, full) IN
         /\ Sound(p, F) /\ F.active /\ F.val = apply_updates(v, p, b, k)
         /\ F.status \in {P.status, "Degraded"}
         /\ F.status # "Degraded" => ~full /\ Asks(p, b, v, k) = {}
  <1> DEFINE u == apply_updates(v, p, b, k)
             repair == IF full THEN ColdStartRepair ELSE event_repair(v, p, b, k)
             fenced == full \/ repair # NoRepair \/ k = "undecoded"
             Q == [P EXCEPT !.val = u]
             R == IF fenced THEN require_explicit_refresh(Q) ELSE Q
             F == finish_ingest(P, p, b, k, v, full)
  <1>1. u \in [Slot -> Values] /\ Uncached(p, u)
    BY UpdateIs
  <1>2. repair \in Repairs(p)
    <2>1. ColdStartRepair \in Repairs(p)
      BY DEF ColdStartRepair, Repairs, Acts
    <2> QED
      BY <2>1, RepairIs
  <1>3. RepairIntent(repair) \in Intents(p)
    BY <1>2 DEF RepairIntent, Repairs, Intents, Origins
  <1>4. F = IF repair = NoRepair THEN R ELSE retain_followup_intent(R, RepairIntent(repair))
    BY DEF finish_ingest
  <1>5. fenced \/ (~full /\ Asks(p, b, v, k) = {})
    BY AsksNothing
  <1> HIDE DEF u, repair, F
  <1>6. P \in PoolRecords(p) /\ Honest(P)
    BY DEF Sound
  <1>7. /\ R \in PoolRecords(p) /\ R.val = u /\ R.active = P.active /\ R.shown = P.shown
        /\ R.work = P.work /\ R.jobs = P.jobs /\ R.status = IF fenced THEN "Degraded" ELSE P.status
    <2>1. /\ Q \in PoolRecords(p) /\ Q.val = u /\ Q.active = P.active /\ Q.shown = P.shown
          /\ Q.work = P.work /\ Q.jobs = P.jobs /\ Q.status = P.status
      BY <1>1, <1>6 DEF PoolRecords
    <2> HIDE DEF Q
    <2>2. CASE fenced
      BY <2>1, <2>2 DEF require_explicit_refresh, PoolRecords
    <2>3. CASE ~fenced
      BY <2>1, <2>3
    <2> QED
      BY <2>2, <2>3
  <1> HIDE DEF R, fenced
  <1>8. Sound(p, R)
    BY <1>1, <1>6, <1>7 DEF Sound, Honest, Attempted, Reads, Uncached
  <1>9. Sound(p, F) /\ SameView(R, F)
    <2>1. SameView(R, R)
      BY DEF SameView
    <2> QED
      BY <1>3, <1>4, <1>8, <2>1, RetainSound
  <1>10. F.active = R.active /\ F.val = R.val /\ F.status = R.status
    BY <1>9 DEF SameView
  <1>11. F.status \in {P.status, "Degraded"} /\ (F.status # "Degraded" => ~fenced)
    BY <1>7, <1>10
  <1> QED
    BY <1>5, <1>7, <1>9, <1>10, <1>11 DEF u, F

\* The slots ingest_batch itself refreshes.
Refreshed(p, b, v, k, ok) ==
  IF ok /\ event_repair(v, p, b, k).act = "verify" THEN event_repair(v, p, b, k).slots ELSE {}

LEMMA RefreshedTouched ==
  ASSUME NEW p \in Pool, NEW b \in Block, NEW v, NEW k \in Treated, NEW ok \in BOOLEAN
  PROVE  Refreshed(p, b, v, k, ok) \subseteq Touch[b][p]
  <1>1. ASSUME event_repair(v, p, b, k).act = "verify"
        PROVE  event_repair(v, p, b, k).slots \subseteq Touch[b][p]
    <2> DEFINE r == event_repair(v, p, b, k)
    <2>1. /\ k = "verify" => r = VerifySlots(Touch[b][p])
          /\ k = "delta" => r = VerifySlots({s \in Touch[b][p] : v[s] = Cold})
          /\ k = "cold" => r = ColdStartRepair
          /\ k = "other" => r = [act |-> "other", slots |-> Touch[b][p]]
          /\ k \notin {"verify", "cold", "other", "delta"} => r = NoRepair
      BY RepairIs
    <2> HIDE DEF r
    <2>2. k \in {"verify", "delta"}
      BY <1>1, <2>1 DEF ColdStartRepair, NoRepair, r
    <2>3. \A S : VerifySlots(S).slots = S
      BY DEF VerifySlots, NoRepair
    <2>4. r.slots \subseteq Touch[b][p]
      BY <2>1, <2>2, <2>3
    <2> QED
      BY <2>4 DEF r
  <1> QED
    BY <1>1 DEF Refreshed

LEMMA FinishResync ==
  ASSUME NEW p \in Pool, NEW P, Sound(p, P), P.active, NEW b \in Block \ {Genesis}, NEW k \in Treated,
         NEW v \in [Slot -> Values], Uncached(p, v), NEW full \in BOOLEAN, NEW ok \in BOOLEAN,
         Touch[b][p] # {} => k # "none"
  PROVE  LET F == finish_resync(P, p, b, k, v, full, ok) IN
         /\ Sound(p, F) /\ F.active
         /\ Stale(p, F.val, b) \subseteq (Stale(p, v, Parent[b]) \cup Asks(p, b, v, k))
                                           \ Refreshed(p, b, v, k, ok)
         /\ P.status = "Ready" /\ F.status # "Degraded"
              => ~full /\ Asks(p, b, v, k) \subseteq Refreshed(p, b, v, k, ok)
  <1> DEFINE u == apply_updates(v, p, b, k)
             repair == event_repair(v, p, b, k)
             asked == IF repair.act = "verify" THEN repair.slots ELSE {}
             done == IF ok THEN asked ELSE {}
             w == [s \in Slot |-> IF s \in done THEN b ELSE u[s]]
             Q == [P EXCEPT !.val = w]
             R == IF asked # done THEN [Q EXCEPT !.status = "Degraded", !.targets = Q.targets \cup asked]
                  ELSE Q
             fenced == full \/ k \in {"undecoded", "cold", "other"}
             T == IF fenced THEN require_explicit_refresh(R) ELSE R
             F == finish_resync(P, p, b, k, v, full, ok)
  <1>1. u \in [Slot -> Values] /\ Uncached(p, u)
    BY UpdateIs
  <1>2. repair \in Repairs(p) /\ asked \subseteq SlotsOf[p] /\ done = Refreshed(p, b, v, k, ok)
    BY RepairIs DEF Repairs, Refreshed
  <1>3. done \subseteq Touch[b][p] /\ Touch[b][p] \subseteq SlotsOf[p]
    BY <1>2, RefreshedTouched, PoolAssumption
  <1>4. P \in PoolRecords(p) /\ Honest(P)
    BY DEF Sound
  <1>5. \/ F = T
        \/ T = Q /\ F = [T EXCEPT !.status = "Ready", !.targets = {}] /\ T.status = "Degraded"
    <2>1. Q = [P EXCEPT !.val = [s \in Slot |-> IF s \in done THEN b
                                                ELSE apply_updates(v, p, b, k)[s]]]
      BY DEF w
    <2>2. Q \in PoolRecords(p)
      <3>1. w \in [Slot -> Values]
        BY <1>1 DEF Values
      <3> HIDE DEF w
      <3> QED
        BY <1>4, <3>1 DEF PoolRecords
    <2>3. R = IF asked # done THEN [Q EXCEPT !.status = "Degraded", !.targets = @ \cup asked] ELSE Q
      BY <2>2 DEF PoolRecords
    <2>4. set_pool_status(T, "Ready") = [T EXCEPT !.status = "Ready"]
      BY DEF set_pool_status
    <2>5. F = IF T.status = "Degraded" /\ ~(T # Q) /\ done # {} /\ should_recover(T, p, done)
              THEN [set_pool_status(T, "Ready") EXCEPT !.targets = {}] ELSE T
      BY Zenon DEF finish_resync
    <2> HIDE DEF T, Q, F, done
    <2> QED
      BY <2>4, <2>5
  <1>6. w \in [Slot -> Values] /\ Uncached(p, w)
    BY <1>1, <1>3 DEF Values, Uncached
  <1>7. Stale(p, w, b) \subseteq (Stale(p, v, Parent[b]) \cup Asks(p, b, v, k)) \ done
    <2>1. \A s \in done : Truth(b, p, s) = b
      BY <1>3, TruthStep
    <2>2. Stale(p, w, b) \subseteq Stale(p, u, b) \ done
      BY <2>1 DEF Stale
    <2>3. Stale(p, u, b) \subseteq Stale(p, v, Parent[b]) \cup Asks(p, b, v, k)
      BY UpdateStale
    <2> QED
      BY <2>2, <2>3
  <1>8. ASSUME ~fenced, asked = done PROVE Asks(p, b, v, k) \subseteq done
    <2>1. k \in {"none", "write", "delta", "verify"}
      BY <1>8 DEF Treated
    <2>2. \A S : VerifySlots(S) = NoRepair \/ VerifySlots(S).act = "verify"
      BY DEF VerifySlots
    <2>3. repair = NoRepair \/ repair.act = "verify"
      <3>1. /\ k = "verify" => repair = VerifySlots(Touch[b][p])
            /\ k = "delta" => repair = VerifySlots({s \in Touch[b][p] : v[s] = Cold})
            /\ k \notin {"verify", "cold", "other", "delta"} => repair = NoRepair
        BY RepairIs
      <3> HIDE DEF repair
      <3> QED
        BY <2>1, <2>2, <3>1
    <2>4. Asks(p, b, v, k) = Demand(p, repair)
      BY <2>1 DEF Asks
    <2> QED
      BY <1>8, <2>3, <2>4 DEF Demand, NoRepair
  <1> HIDE DEF u, repair, asked, done, w, F
  <1>9. /\ Q \in PoolRecords(p) /\ Q.val = w /\ Q.active = P.active /\ Q.shown = P.shown
        /\ Q.work = P.work /\ Q.jobs = P.jobs /\ Q.status = P.status
    BY <1>4, <1>6 DEF PoolRecords
  <1> HIDE DEF Q
  <1>10. /\ R \in PoolRecords(p) /\ R.val = w /\ R.active = P.active /\ R.shown = P.shown
         /\ R.work = P.work /\ R.jobs = P.jobs
         /\ R.status = IF asked # done THEN "Degraded" ELSE P.status
    <2>1. CASE asked # done
      BY <1>2, <1>9, <2>1 DEF PoolRecords
    <2>2. CASE asked = done
      BY <1>9, <2>2
    <2> QED
      BY <2>1, <2>2
  <1> HIDE DEF R
  <1>11. /\ T \in PoolRecords(p) /\ T.val = w /\ T.active = P.active /\ T.shown = P.shown
         /\ T.work = P.work /\ T.jobs = P.jobs
         /\ T.status = IF fenced \/ asked # done THEN "Degraded" ELSE P.status
    <2>1. CASE fenced
      BY <1>10, <2>1 DEF require_explicit_refresh, PoolRecords
    <2>2. CASE ~fenced
      BY <1>10, <2>2
    <2> QED
      BY <2>1, <2>2
  <1> HIDE DEF T, fenced
  <1>12. /\ F \in PoolRecords(p) /\ F.val = w /\ F.active = P.active /\ F.shown = P.shown
         /\ F.work = P.work /\ F.jobs = P.jobs
    BY <1>5, <1>11 DEF PoolRecords
  <1>13. P.status = "Ready" /\ F.status # "Degraded" => ~fenced /\ asked = done
    <2>1. ASSUME P.status = "Ready", F.status # "Degraded", fenced \/ asked # done PROVE FALSE
      <3>1. T.status = "Degraded" /\ Q.status = "Ready"
        BY <1>9, <1>11, <2>1
      <3>2. F # T
        BY <2>1, <3>1
      <3> QED
        BY <1>5, <3>1, <3>2
    <2> QED
      BY <2>1
  <1>14. Sound(p, F)
    BY <1>4, <1>6, <1>12 DEF Sound, Honest, Attempted, Reads, Uncached
  <1>15. ~fenced => ~full
    BY DEF fenced
  <1> QED
    BY <1>2, <1>7, <1>8, <1>12, <1>13, <1>14, <1>15 DEF F

-----------------------------------------------------------------------------
(* Reports of the worker, for one pool.                                    *)

LEMMA SetJobSound ==
  ASSUME NEW p \in Pool, NEW P, Sound(p, P), NEW j \in P.jobs, NEW k \in JobSet(p), k.id = j.id
  PROVE  /\ Sound(p, SetJob(P, j, k)) /\ SameView(P, SetJob(P, j, k))
         /\ SetJob(P, j, k).work = P.work /\ k \in SetJob(P, j, k).jobs
  <1> DEFINE S == SetJob(P, j, k)
  <1>1. P \in PoolRecords(p)
    BY DEF Sound
  <1>2. /\ S \in PoolRecords(p) /\ S.jobs = (P.jobs \ {j}) \cup {k} /\ S.work = P.work
        /\ S.active = P.active /\ S.val = P.val /\ S.status = P.status /\ S.shown = P.shown
    BY <1>1 DEF SetJob, PoolRecords
  <1> HIDE DEF S
  <1>3. Attempted(S)
    BY <1>2 DEF Attempted, Sound, Honest
  <1> QED
    BY <1>2, <1>3 DEF Sound, Honest, Reads, SameView, S

\* The attempt moves on and the pool's record of it with it.
LEMMA WorkMoves ==
  ASSUME NEW p \in Pool, NEW P, Sound(p, P), P.work # NoWork,
         NEW w \in Works(p), w.id = P.work.id, w.kind = P.work.kind
  PROVE  Sound(p, [P EXCEPT !.work = w]) /\ SameView(P, [P EXCEPT !.work = w])
  <1> DEFINE Q == [P EXCEPT !.work = w]
  <1>1. P \in PoolRecords(p)
    BY DEF Sound
  <1>2. /\ Q \in PoolRecords(p) /\ Q.work = w /\ Q.jobs = P.jobs /\ Q.active = P.active
        /\ Q.val = P.val /\ Q.status = P.status /\ Q.shown = P.shown
    BY <1>1 DEF PoolRecords
  <1> HIDE DEF Q
  <1>3. Attempted(Q) /\ (Q.shown = "CatchingUp" <=> Q.work.kind = "repair")
    BY <1>2 DEF Attempted, Sound, Honest
  <1> QED
    BY <1>2, <1>3 DEF Sound, Honest, Reads, SameView, Q

\* An attempt that ends leaves no lifecycle behind.
LEMMA WorkEnds ==
  ASSUME NEW p \in Pool, NEW P, Sound(p, P), NEW Q \in PoolRecords(p), Q.work = NoWork,
         Q.shown # "CatchingUp", Q.val = P.val
  PROVE  Sound(p, Q)
  BY NoWorkIs DEF Sound, Honest, Attempted, Reads

LEMMA IntentsAre ==
  ASSUME NEW p \in Pool
  PROVE  /\ \A S \in SUBSET SlotsOf[p], act \in {"cold", "lazy", "verify"} :
              Deferred(act, S) \in Intents(p)
         /\ \A w \in Works(p) : retry_intent(w) \in Intents(p)
  <1>1. \A S \in SUBSET SlotsOf[p], act \in {"cold", "lazy", "verify"} : Deferred(act, S) \in Intents(p)
    BY NoIntentIs DEF Deferred, Intents, Origins, Acts
  <1>2. ASSUME NEW w \in Works(p) PROVE retry_intent(w) \in Intents(p)
    <2>1. w.slots \in SUBSET SlotsOf[p]
      BY DEF Works
    <2>2. \A a \in Repairs(p) : RepairIntent(a) \in Intents(p)
      BY DEF RepairIntent, Repairs, Intents, Origins
    <2>3. ColdStartRepair \in Repairs(p) /\ LazyRepair \in Repairs(p) /\ VerifySlots(w.slots) \in Repairs(p)
      BY <2>1 DEF ColdStartRepair, LazyRepair, VerifySlots, NoRepair, Repairs, Acts
    <2> DEFINE a == CASE w.task = "refresh" -> ColdStartRepair [] w.task = "lazy" -> LazyRepair
                      [] OTHER -> VerifySlots(w.slots)
               t == CASE w.task = "refresh" -> "cold" [] w.task = "lazy" -> "lazy" [] OTHER -> "verify"
    <2>4. a \in Repairs(p) /\ t \in {"cold", "lazy", "verify"}
      BY <2>3
    <2>5. retry_intent(w) = IF w.kind = "repair" THEN RepairIntent(a) ELSE Deferred(t, w.slots)
      BY DEF retry_intent
    <2> HIDE DEF a, t
    <2> QED
      BY <1>1, <2>1, <2>2, <2>4, <2>5
  <1> QED
    BY <1>1, <1>2

LEMMA FinishSound ==
  ASSUME NEW p \in Pool, NEW P, Sound(p, P), NEW j, point \in Block, trusted \in BOOLEAN
  PROVE  Sound(p, finish_followup(P, j)) /\ SameView(P, finish_followup(P, j))
  <1> DEFINE Q == [P EXCEPT !.work = NoWork, !.shown = None, !.jobs = @ \ {j}]
  <1>1. P \in PoolRecords(p) /\ NoWork \in Works(p)
    BY NoWorkIs DEF Sound
  <1>2. /\ Q \in PoolRecords(p) /\ Q.work = NoWork /\ Q.shown = None /\ Q.val = P.val
        /\ Q.active = P.active /\ Q.status = P.status
    BY <1>1 DEF PoolRecords
  <1>3. finish_followup(P, j) = drain_followup_intents(Q, point, trusted)
    BY DEF finish_followup
  <1> HIDE DEF Q
  <1>4. Sound(p, Q)
    BY <1>2, WorkEnds DEF None
  <1>5. Sound(p, finish_followup(P, j)) /\ SameView(Q, finish_followup(P, j))
    BY <1>3, <1>4, DrainSound
  <1> QED
    BY <1>2, <1>5 DEF SameView

LEMMA ResolveSound ==
  ASSUME NEW p \in Pool, NEW P, Sound(p, P), NEW t \in Block, point \in Block, trusted \in BOOLEAN
  PROVE  Sound(p, resolve_repair_commit(P, t)) /\ SameView(P, resolve_repair_commit(P, t))
  <1>1. CASE ~(P.work.kind = "repair" /\ P.active /\ P.status = "Degraded")
    BY <1>1 DEF resolve_repair_commit, SameView
  <1>2. CASE P.work.kind = "repair" /\ P.active /\ P.status = "Degraded"
    <2> DEFINE Q == [P EXCEPT !.work = NoWork, !.shown = "Degraded",
                              !.waiting = IF t = point THEN t ELSE @]
               R == retain_followup_intent(Q, retry_intent(P.work))
               D == drain_followup_intents(R, point, trusted)
    <2>1. P \in PoolRecords(p) /\ NoWork \in Works(p) /\ P.work \in Works(p)
      BY NoWorkIs DEF Sound, PoolRecords
    <2>2. /\ Q \in PoolRecords(p) /\ Q.work = NoWork /\ Q.shown = "Degraded" /\ Q.val = P.val
          /\ Q.active = P.active /\ Q.status = P.status
      BY <2>1 DEF PoolRecords
    <2>3. resolve_repair_commit(P, t) = D
      BY <1>2 DEF resolve_repair_commit
    <2> HIDE DEF Q
    <2>4. Sound(p, Q)
      BY <2>2, WorkEnds
    <2>5. Sound(p, R) /\ SameView(Q, R)
      BY <2>1, <2>4, RetainSound, IntentsAre
    <2> HIDE DEF R
    <2>6. Sound(p, D) /\ SameView(R, D)
      BY <2>5, DrainSound
    <2> HIDE DEF D
    <2> QED
      BY <2>2, <2>3, <2>5, <2>6 DEF SameView
  <1> QED
    BY <1>1, <1>2

\* What a cold start does not read keeps its word, right or wrong.
LEMMA PreparedIs ==
  ASSUME NEW p \in Pool, NEW b \in Block, NEW v \in [Slot -> Values], Uncached(p, v), NEW unread
  PROVE  LET f == apply_prepared_storage(v, p, b, unread) IN
         /\ f \in [Slot -> Values] /\ Uncached(p, f)
         /\ Stale(p, f, b) \subseteq Stale(p, v, b) \cap unread
  <1>1. \A s \in Slot : Truth(b, p, s) \in Values /\ Cold \in Values
    BY TruthIsBlock DEF Values
  <1> QED
    BY <1>1 DEF apply_prepared_storage, Uncached, Stale

-----------------------------------------------------------------------------
(* EventFreeReorgHistory.                                                  *)

Entries == [block : Block, has_logs : BOOLEAN]

\* The recorded blocks are one path of the tree, up to an ancestor of b.
Traced(h, b) ==
  /\ h \in Seq(Entries)
  /\ \A i \in 1 .. Len(h) :
       /\ h[i].block \in Lineage[b]
       /\ \A j \in 1 .. Len(h) : i <= j => h[i].block \in Lineage[h[j].block]

\* A block recorded without logs touches no pool that is active.
Quiet(h, PP) ==
  \A i \in 1 .. Len(h) :
    h[i].has_logs \/ \A p \in Pool : PP[p].active => Touch[h[i].block][p] = {}

LEMMA ResetTraced ==
  ASSUME NEW b \in Block, NEW PP
  PROVE  Traced(reset(b), b) /\ Quiet(reset(b), PP)
  <1>1. b \in Lineage[b]
    BY LineageNested
  <1>2. /\ reset(b) \in Seq(Entries) /\ Len(reset(b)) = 1 /\ reset(b)[1].block = b
        /\ reset(b)[1].has_logs = TRUE
    BY DEF reset, Entries
  <1> QED
    BY <1>1, <1>2 DEF Traced, Quiet

LEMMA SubSeqIs ==
  ASSUME NEW S, NEW s \in Seq(S), NEW m \in 1 .. Len(s) + 1, NEW n \in 0 .. Len(s)
  PROVE  /\ SubSeq(s, m, n) \in Seq(S) /\ Len(SubSeq(s, m, n)) = IF m <= n THEN n - m + 1 ELSE 0
         /\ \A i \in 1 .. Len(SubSeq(s, m, n)) : SubSeq(s, m, n)[i] = s[m + i - 1]
  <1>1. m \in Nat /\ n \in Nat /\ Len(s) \in Nat
    OBVIOUS
  <1>2. \A i \in m .. n : s[i] \in S
    <2>1. \A i \in m .. n : i \in 1 .. Len(s)
      BY <1>1
    <2> QED
      BY <2>1
  <1> QED
    BY <1>1, <1>2

LEMMA TracedSuffix ==
  ASSUME NEW h, NEW b, NEW PP, Traced(h, b), NEW m \in 1 .. Len(h)
  PROVE  /\ Traced(SubSeq(h, m, Len(h)), b)
         /\ Quiet(h, PP) => Quiet(SubSeq(h, m, Len(h)), PP)
  <1> DEFINE t == SubSeq(h, m, Len(h))
  <1>1. h \in Seq(Entries) /\ Len(h) \in Nat /\ m \in Nat
    BY DEF Traced
  <1>2. t \in Seq(Entries) /\ Len(t) = Len(h) - m + 1 /\ \A i \in 1 .. Len(t) : t[i] = h[m + i - 1]
    BY <1>1, SubSeqIs
  <1> HIDE DEF t
  <1>3. \A i \in 1 .. Len(t) : m + i - 1 \in 1 .. Len(h)
    BY <1>1, <1>2
  <1>4. Traced(t, b)
    <2>1. \A i, j \in 1 .. Len(t) : i <= j => m + i - 1 <= m + j - 1
      BY <1>1, <1>2
    <2>2. \A i \in 1 .. Len(t) : t[i].block \in Lineage[b]
      BY <1>2, <1>3 DEF Traced
    <2>3. ASSUME NEW i \in 1 .. Len(t), NEW j \in 1 .. Len(t), i <= j
          PROVE  t[i].block \in Lineage[t[j].block]
      <3>1. /\ t[i] = h[m + i - 1] /\ t[j] = h[m + j - 1] /\ m + i - 1 <= m + j - 1
            /\ m + i - 1 \in 1 .. Len(h) /\ m + j - 1 \in 1 .. Len(h)
        BY <1>2, <1>3, <2>1, <2>3
      <3> QED
        BY <3>1 DEF Traced
    <2> QED
      BY <1>2, <2>2, <2>3 DEF Traced
  <1>5. Quiet(h, PP) => Quiet(t, PP)
    BY <1>2, <1>3 DEF Quiet
  <1> QED
    BY <1>4, <1>5 DEF t

LEMMA ParentIndex ==
  ASSUME Traced(history, point), NEW b, parent_index(b) # {}
  PROVE  /\ Min(parent_index(b)) \in 1 .. Len(history)
         /\ history[Min(parent_index(b))].block = Parent[b]
  <1>1. history \in Seq(Entries) /\ DOMAIN history = 1 .. Len(history) /\ Len(history) \in Nat
    BY DEF Traced
  <1>2. parent_index(b) \in SUBSET Nat
    BY <1>1 DEF parent_index
  <1>3. PICK n \in parent_index(b) : \A m \in parent_index(b) : n <= m
    BY <1>2, LeastOf
  <1>4. Min(parent_index(b)) \in parent_index(b)
    BY <1>3 DEF Min
  <1> QED
    BY <1>1, <1>4 DEF parent_index

LEMMA RecordTraced ==
  ASSUME Traced(history, point), NEW b \in Block \ {Genesis}, NEW has_logs \in BOOLEAN, NEW PP,
         Quiet(history, PP), has_logs \/ \A p \in Pool : PP[p].active => Touch[b][p] = {}
  PROVE  Traced(record(b, has_logs), b) /\ Quiet(record(b, has_logs), PP)
  <1>1. CASE parent_index(b) = {}
    BY <1>1, ResetTraced DEF record
  <1>2. CASE parent_index(b) # {}
    <2> DEFINE m == Min(parent_index(b))
               e == [block |-> b, has_logs |-> has_logs]
               t == SubSeq(history, 1, m)
               g == Append(t, e)
               a == IF Len(g) > Retained THEN Len(g) - Retained + 1 ELSE 1
    <2>1. m \in 1 .. Len(history) /\ history[m].block = Parent[b]
      BY <1>2, ParentIndex
    <2>2. history \in Seq(Entries) /\ Len(history) \in Nat /\ e \in Entries
      BY DEF Traced, Entries
    <2>3. record(b, has_logs) = SubSeq(g, a, Len(g))
      BY <1>2, Zenon DEF record
    <2> HIDE DEF m
    <2>4. t \in Seq(Entries) /\ Len(t) = m /\ \A i \in 1 .. m : t[i] = history[i]
      <3>1. 1 \in 1 .. Len(history) + 1 /\ m \in 0 .. Len(history) /\ m \in Nat /\ 1 <= m
        BY <2>1, <2>2
      <3> QED
        BY <2>2, <3>1, SubSeqIs
    <2> HIDE DEF t, e
    <2>5. /\ g \in Seq(Entries) /\ Len(g) = m + 1 /\ g[m + 1] = e
          /\ \A i \in 1 .. m : g[i] = history[i]
      BY <2>1, <2>2, <2>4
    <2>6. e.block = b /\ e.has_logs = has_logs
      BY DEF e
    <2> HIDE DEF g
    <2>7. Lineage[b] = {b} \cup Lineage[Parent[b]] /\ b \in Lineage[b]
      BY LineageEquation
    <2>8. m \in Nat /\ \A i \in 1 .. m + 1 : i = m + 1 \/ i \in 1 .. m
      BY <2>1, <2>2
    <2>9. \A i \in 1 .. m : i \in 1 .. Len(history) /\ i <= m
      BY <2>1, <2>2
    <2>10. \A i \in 1 .. m : history[i].block \in Lineage[b]
      BY <2>1, <2>7, <2>9 DEF Traced
    <2>11. \A i \in 1 .. m + 1 : g[i].block \in Lineage[b]
      BY <2>5, <2>6, <2>7, <2>8, <2>10
    <2>12. ASSUME NEW i \in 1 .. m + 1, NEW j \in 1 .. m + 1, i <= j
           PROVE  g[i].block \in Lineage[g[j].block]
      <3>1. CASE j = m + 1
        BY <2>5, <2>6, <2>11, <3>1
      <3>2. CASE j \in 1 .. m
        <4>1. i \in 1 .. m
          BY <2>8, <2>12, <3>2
        <4> QED
          BY <2>5, <2>9, <2>12, <3>2, <4>1 DEF Traced
      <3> QED
        BY <2>8, <3>1, <3>2
    <2>13. Traced(g, b)
      BY <2>5, <2>11, <2>12 DEF Traced
    <2>14. Quiet(g, PP)
      BY <2>5, <2>6, <2>8, <2>9 DEF Quiet
    <2>15. a \in 1 .. Len(g)
      BY <2>5, <2>8, BoundAssumption
    <2> HIDE DEF a
    <2> QED
      BY <2>3, <2>13, <2>14, <2>15, TracedSuffix
  <1> QED
    BY <1>1, <1>2

\* A replacement proved to be without events leaves every slot of an active
\* pool as it was.
LEMMA EventFree ==
  ASSUME Traced(history, point), Quiet(history, pools), point \in Block,
         NEW b \in Block \ {Genesis}, NEW has_logs \in BOOLEAN,
         verify_event_free_reorg(b, replacement_proof(b, has_logs)),
         NEW p \in Pool, pools[p].active, Touch[b][p] = {}, NEW s \in Slot
  PROVE  Truth(point, p, s) = Truth(Parent[b], p, s)
  <1> DEFINE m == Min(parent_index(b))
             dropped == SubSeq(history, m + 1, Len(history))
             proof == replacement_proof(b, has_logs)
  <1>1. proof # <<>> /\ {proof[i].block : i \in DOMAIN proof} = Lineage[point] \ Lineage[b]
    BY DEF verify_event_free_reorg
  <1>2. parent_index(b) # {} /\ proof = dropped /\ ~\E i \in DOMAIN dropped : dropped[i].has_logs
    BY <1>1, Zenon DEF replacement_proof
  <1>3. m \in 1 .. Len(history) /\ history[m].block = Parent[b] /\ history \in Seq(Entries)
    BY <1>2, ParentIndex DEF Traced
  <1> HIDE DEF m, proof
  <1>4. /\ dropped \in Seq(Entries)
        /\ \A i \in 1 .. Len(dropped) : dropped[i] = history[m + i] /\ m + i \in 1 .. Len(history)
    <2>1. m + 1 \in 1 .. Len(history) + 1 /\ Len(history) \in 0 .. Len(history) /\ m \in Nat
          /\ Len(history) \in Nat
      BY <1>3
    <2>2. /\ dropped \in Seq(Entries)
          /\ Len(dropped) = IF m + 1 <= Len(history) THEN Len(history) - (m + 1) + 1 ELSE 0
          /\ \A i \in 1 .. Len(dropped) : dropped[i] = history[m + 1 + i - 1]
      BY <1>3, <2>1, SubSeqIs
    <2> HIDE DEF dropped
    <2>3. \A i \in 1 .. Len(dropped) : m + 1 + i - 1 = m + i /\ m + i \in 1 .. Len(history)
      BY <2>1, <2>2
    <2> QED
      BY <2>2, <2>3
  <1> HIDE DEF dropped
  <1>5. DOMAIN dropped = 1 .. Len(dropped)
    BY <1>4
  <1>6. \A w \in Lineage[point] \ Lineage[b] : Touch[w][p] = {}
    <2>1. ASSUME NEW i \in 1 .. Len(dropped) PROVE Touch[dropped[i].block][p] = {}
      <3>1. dropped[i] = history[m + i] /\ m + i \in 1 .. Len(history) /\ ~dropped[i].has_logs
        BY <1>2, <1>4, <1>5
      <3> QED
        BY <3>1 DEF Quiet
    <2> QED
      BY <1>1, <1>2, <1>5, <2>1
  <1>7. Parent[b] \in Lineage[point]
    BY <1>3 DEF Traced
  <1>8. Lineage[b] = {b} \cup Lineage[Parent[b]] /\ Lineage[Parent[b]] \subseteq Lineage[point]
    BY <1>7, LineageEquation, LineageNested
  <1>9. Writers(point, p, s) = Writers(Parent[b], p, s)
    BY <1>6, <1>8 DEF Writers
  <1> QED
    BY <1>9, TruthOfWriters

-----------------------------------------------------------------------------
(* The inductive invariant.                                                *)

Known ==
  /\ mode \in {"live", "resync"} /\ trusted \in BOOLEAN /\ point \in Block /\ point \in delivered
  /\ Genesis \in delivered /\ delivered \subseteq Block

PoolsSound == pools = [p \in Pool |-> pools[p]] /\ \A p \in Pool : Sound(p, pools[p])

\* The slots of a pool that are cached.
Cached(P) == {s \in Slot : P.val[s] # Cold}

\* StaleIsOwed, also while the runtime is not trusted; and what a removed pool left in
\* the cache is inherited.
WrongIsOwed ==
  /\ owed = [p \in Pool |-> owed[p]] /\ inherited = [p \in Pool |-> inherited[p]]
  /\ \A p \in Pool : pools[p].active => Stale(p, pools[p].val, point) \subseteq owed[p] \cup inherited[p]
  /\ \A p \in Pool : ~pools[p].active => Cached(pools[p]) \subseteq inherited[p]

Recorded == mode = "live" => Traced(history, point) /\ Quiet(history, pools)

(* The invariant of PoolRepair: every pool's record is sound, every wrong   *)
(* slot of a registered pool is owed or inherited, and so is every word a   *)
(* removed pool left behind, and the proof of event-free replacements speaks of the     *)
(* blocks below the point and of the pools that are active.                 *)
RepairInv == Known /\ PoolsSound /\ WrongIsOwed /\ Recorded

LEMMA Initially == ASSUME Init PROVE RepairInv
  <1>1. Known
    BY PoolAssumption, TreeAssumption DEF Init, Known
  <1> DEFINE v(p) == [s \in Slot |-> IF s \in SlotsOf[p] \ Unread(p) THEN Genesis ELSE Cold]
             C == [s \in Slot |-> Cold]
  <1>2. ASSUME NEW p \in Pool
        PROVE  /\ Sound(p, pools[p])
               /\ pools[p].active => Stale(p, pools[p].val, point) = {}
               /\ ~pools[p].active => Cached(pools[p]) = {}
    <2>1. /\ Absent \in PoolRecords(p) /\ Absent.work = NoWork /\ Absent.shown = None
          /\ Absent.active = FALSE /\ Absent.val = C
      <3>1. C \in [Slot -> Values]
        BY DEF Values
      <3> HIDE DEF C
      <3>2. Absent = [active |-> FALSE, status |-> "Ready", fence |-> FALSE, targets |-> {},
                      val |-> C, intent |-> NoIntent, waiting |-> None,
                      work |-> NoWork, shown |-> None, jobs |-> {}, ids |-> {}]
        BY DEF Absent, C
      <3> QED
        BY <3>1, <3>2, NoWorkIs, NoIntentIs DEF PoolRecords
    <2>2. /\ v(p) \in [Slot -> Values] /\ Uncached(p, v(p)) /\ Uncached(p, C)
          /\ \A s \in Slot : C[s] = Cold
      BY TreeAssumption DEF Values, Uncached
    <2>3. Jobs[p] \in SUBSET Nat
      BY PoolAssumption
    <2>4. Stale(p, v(p), Genesis) = {}
      <3>1. Lineage[Genesis] = {Genesis}
        BY LineageEquation, TreeAssumption
      <3>2. \A s : Writers(Genesis, p, s) = {}
        BY <3>1 DEF Writers
      <3>3. \A s : Truth(Genesis, p, s) = Genesis
        BY <3>2 DEF Truth, Writers
      <3> QED
        BY <3>3 DEF Stale
    <2> HIDE DEF v, C
    <2>5. CASE p \in Installed
      <3>1. pools[p] = [Absent EXCEPT !.active = TRUE, !.ids = Jobs[p], !.val = v(p)]
        BY <2>5 DEF Init, v
      <3>2. /\ pools[p] \in PoolRecords(p) /\ pools[p].work = NoWork /\ pools[p].shown = None
            /\ pools[p].val = v(p) /\ pools[p].active = TRUE
        BY <2>1, <2>2, <2>3, <3>1 DEF PoolRecords
      <3>3. Sound(p, pools[p])
        BY <2>2, <3>2, NoWorkIs DEF Sound, Honest, Attempted, Reads, Uncached, None
      <3>4. point = Genesis
        BY DEF Init
      <3> QED
        BY <2>4, <3>2, <3>3, <3>4
    <2>6. CASE p \notin Installed
      <3>1. pools[p] = [Absent EXCEPT !.ids = Jobs[p]]
        BY <2>6 DEF Init
      <3>2. /\ pools[p] \in PoolRecords(p) /\ pools[p].work = NoWork /\ pools[p].shown = None
            /\ pools[p].val = C /\ pools[p].active = FALSE
        BY <2>1, <2>3, <3>1 DEF PoolRecords
      <3>3. Sound(p, pools[p])
        BY <2>2, <3>2, NoWorkIs DEF Sound, Honest, Attempted, Reads, Uncached, None
      <3>4. Cached(pools[p]) = {}
        BY <2>2, <3>2 DEF Cached
      <3> QED
        BY <3>2, <3>3, <3>4
    <2> QED
      BY <2>5, <2>6
  <1>3. /\ pools = [p \in Pool |-> pools[p]] /\ owed = [p \in Pool |-> owed[p]]
        /\ inherited = [p \in Pool |-> inherited[p]]
    BY DEF Init
  <1>4. history = reset(Genesis) /\ point = Genesis /\ Genesis \in Block
    BY TreeAssumption DEF Init
  <1>5. Recorded
    BY <1>4, ResetTraced DEF Recorded
  <1> QED
    BY <1>1, <1>2, <1>3, <1>5 DEF RepairInv, PoolsSound, WrongIsOwed

\* The three ways a step changes what readers see: not at all, by a commit of
\* one pool, or by a block.
Stutters ==
  /\ point' = point /\ owed' = owed /\ inherited' = inherited
  /\ \A p \in Pool : SameView(pools[p], pools'[p])

\* A step from v at b, with inheritance I, to w at c, with J, makes nothing wrong.
Kept(p, v, b, I, w, c, J) ==
  /\ Stale(p, v, b) = {} => Stale(p, w, c) = {}
  /\ Stale(p, v, b) \subseteq I => Stale(p, w, c) \subseteq J

CommitsAt(p) ==
  /\ point' = point
  /\ \A q \in Pool \ {p} : /\ SameView(pools[q], pools'[q]) /\ owed'[q] = owed[q]
                           /\ inherited'[q] = inherited[q]
  /\ \/ pools[p].active /\ ~pools'[p].active
     \/ /\ pools'[p].active /\ ~pools[p].active /\ pools'[p].status = "Ready"
        /\ Stale(p, pools'[p].val, point) \subseteq inherited'[p]
     \/ /\ pools[p].active /\ pools'[p].active /\ pools'[p].status \in {pools[p].status, "Ready"}
        /\ Kept(p, pools[p].val, point, inherited[p], pools'[p].val, point, inherited'[p])

Advances ==
  /\ point' \in Block \ {point}
  /\ \A p \in Pool :
       /\ pools'[p].active = pools[p].active
       /\ pools[p].active /\ pools[p].status = "Ready" /\ pools'[p].status # "Degraded"
            => Kept(p, pools[p].val, point, inherited[p], pools'[p].val, point', inherited'[p])

Visible == Stutters \/ (\E p \in Pool : CommitsAt(p)) \/ Advances

\* A step of one pool that readers do not see.
LEMMA PoolStep ==
  ASSUME RepairInv, NEW p \in Pool, NEW Q, Sound(p, Q), SameView(pools[p], Q),
         pools' = [pools EXCEPT ![p] = Q], mode' = mode, trusted' = trusted, point' = point,
         history' = history, delivered' = delivered, owed' = owed, inherited' = inherited
  PROVE  RepairInv' /\ Visible
  <1>1. pools = [q \in Pool |-> pools[q]] /\ \A q \in Pool : Sound(q, pools[q])
    BY DEF RepairInv, PoolsSound
  <1>2. pools' = [q \in Pool |-> pools'[q]] /\ pools'[p] = Q /\ \A q \in Pool \ {p} : pools'[q] = pools[q]
    BY <1>1
  <1>3. \A q \in Pool : SameView(pools[q], pools'[q])
    BY <1>2 DEF SameView
  <1>4. PoolsSound'
    BY <1>1, <1>2 DEF PoolsSound
  <1>5. \A q \in Pool : pools'[q].active = pools[q].active /\ pools'[q].val = pools[q].val
    BY <1>3 DEF SameView
  <1>6. WrongIsOwed'
    BY <1>5 DEF RepairInv, WrongIsOwed, Cached
  <1>7. Recorded'
    BY <1>5 DEF RepairInv, Recorded, Quiet
  <1>8. Known'
    BY DEF RepairInv, Known
  <1>9. Stutters
    BY <1>3 DEF Stutters
  <1> QED
    BY <1>4, <1>6, <1>7, <1>8, <1>9 DEF RepairInv, Visible

\* A commit of one pool: what it leaves wrong stays owed or inherited.
LEMMA PublishStep ==
  ASSUME RepairInv, NEW p \in Pool, NEW Q, Sound(p, Q), NEW O, NEW I,
         PublishLifecycle([pools EXCEPT ![p] = Q]), owed' = [owed EXCEPT ![p] = O],
         inherited' = [inherited EXCEPT ![p] = I],
         mode' = mode, trusted' = trusted, point' = point, delivered' = delivered,
         Q.active => Stale(p, Q.val, point) \subseteq O \cup I,
         ~Q.active => Cached(Q) \subseteq I,
         \/ pools[p].active /\ ~Q.active
         \/ /\ Q.active /\ ~pools[p].active /\ Q.status = "Ready"
            /\ Stale(p, Q.val, point) \subseteq I
         \/ /\ pools[p].active /\ Q.active /\ Q.status \in {pools[p].status, "Ready"}
            /\ Kept(p, pools[p].val, point, inherited[p], Q.val, point, I)
  PROVE  RepairInv' /\ Visible
  <1>1. /\ pools = [q \in Pool |-> pools[q]] /\ \A q \in Pool : Sound(q, pools[q])
        /\ owed = [q \in Pool |-> owed[q]] /\ inherited = [q \in Pool |-> inherited[q]]
        /\ point \in Block
    BY DEF RepairInv, PoolsSound, WrongIsOwed, Known
  <1>2. pools' = [pools EXCEPT ![p] = Q] /\ history' = reset(point)
    BY DEF PublishLifecycle
  <1>3. /\ pools' = [q \in Pool |-> pools'[q]] /\ pools'[p] = Q
        /\ \A q \in Pool \ {p} : pools'[q] = pools[q]
        /\ owed' = [q \in Pool |-> owed'[q]] /\ owed'[p] = O
        /\ \A q \in Pool \ {p} : owed'[q] = owed[q]
        /\ inherited' = [q \in Pool |-> inherited'[q]] /\ inherited'[p] = I
        /\ \A q \in Pool \ {p} : inherited'[q] = inherited[q]
    BY <1>1, <1>2
  <1>4. PoolsSound'
    BY <1>1, <1>3 DEF PoolsSound
  <1>5. WrongIsOwed'
    <2>1. ASSUME NEW q \in Pool
          PROVE  /\ pools'[q].active => Stale(q, pools'[q].val, point) \subseteq owed'[q] \cup inherited'[q]
                 /\ ~pools'[q].active => Cached(pools'[q]) \subseteq inherited'[q]
      <3>1. CASE q = p
        BY <1>3, <3>1
      <3>2. CASE q # p
        BY <1>3, <3>2 DEF RepairInv, WrongIsOwed
      <3> QED
        BY <3>1, <3>2
    <2> QED
      BY <1>3, <2>1 DEF WrongIsOwed
  <1>6. Recorded'
    <2>1. Traced(reset(point), point) /\ Quiet(reset(point), pools')
      BY <1>1, ResetTraced
    <2> QED
      BY <1>2, <2>1 DEF Recorded
  <1>7. Known'
    BY DEF RepairInv, Known
  <1>8. CommitsAt(p)
    BY <1>3 DEF CommitsAt, SameView
  <1> QED
    BY <1>4, <1>5, <1>6, <1>7, <1>8 DEF RepairInv, Visible

-----------------------------------------------------------------------------
(* The worker's reports.                                                   *)

\* What every report starts from.
LEMMA AtReport ==
  ASSUME RepairInv, NEW p \in Pool
  PROVE  /\ Sound(p, pools[p]) /\ point \in Block /\ trusted \in BOOLEAN
         /\ pools[p].jobs \subseteq JobSet(p) /\ pools[p].work \in Works(p)
  <1>1. Sound(p, pools[p]) /\ point \in Block /\ trusted \in BOOLEAN
    BY DEF RepairInv, PoolsSound, Known
  <1> QED
    BY <1>1 DEF Sound, PoolRecords

LEMMA ReportStep ==
  ASSUME RepairInv, NEW p \in Pool, NEW Q, Sound(p, Q), SameView(pools[p], Q), Report(p, Q)
  PROVE  RepairInv' /\ Visible
  <1>1. /\ pools' = [pools EXCEPT ![p] = Q] /\ mode' = mode /\ trusted' = trusted /\ point' = point
        /\ history' = history /\ delivered' = delivered /\ owed' = owed /\ inherited' = inherited
    BY DEF Report
  <1> QED
    BY <1>1, PoolStep

LEMMA PhaseChange ==
  ASSUME NEW p, NEW j \in JobSet(p)
  PROVE  /\ \A ph \in {"queued", "running", "between", "done", "failing"} :
              /\ [j EXCEPT !.phase = ph] \in JobSet(p) /\ [j EXCEPT !.phase = ph].id = j.id
              /\ [j EXCEPT !.phase = ph, !.round = @ + 1] \in JobSet(p)
              /\ [j EXCEPT !.phase = ph, !.round = @ + 1].id = j.id
         /\ \A stale \in BOOLEAN : Failing(j, stale) \in JobSet(p) /\ Failing(j, stale).id = j.id
  <1> DEFINE Ph == {"queued", "running", "between", "done", "failing"}
  <1>1. j.round + 1 \in Nat
    BY DEF JobSet
  <1>2. ASSUME NEW ph \in Ph
        PROVE  [j EXCEPT !.phase = ph] \in JobSet(p) /\ [j EXCEPT !.phase = ph].id = j.id
    BY DEF JobSet
  <1>3. ASSUME NEW ph \in Ph, NEW n \in Nat
        PROVE  /\ [j EXCEPT !.phase = ph, !.round = n] \in JobSet(p)
               /\ [j EXCEPT !.phase = ph, !.round = n].id = j.id
    BY DEF JobSet
  <1>4. ASSUME NEW stale \in BOOLEAN
        PROVE  Failing(j, stale) \in JobSet(p) /\ Failing(j, stale).id = j.id
    BY DEF JobSet, Failing
  <1> QED
    BY <1>1, <1>2, <1>3, <1>4

LEMMA JobFails ==
  ASSUME RepairInv, NEW p \in Pool, NEW j \in pools[p].jobs, NEW stale \in BOOLEAN
  PROVE  /\ Sound(p, SetJob(pools[p], j, Failing(j, stale)))
         /\ SameView(pools[p], SetJob(pools[p], j, Failing(j, stale)))
  <1>1. Sound(p, pools[p]) /\ j \in JobSet(p)
    BY AtReport
  <1>2. Failing(j, stale) \in JobSet(p) /\ Failing(j, stale).id = j.id
    BY <1>1, PhaseChange
  <1> QED
    BY <1>1, <1>2, SetJobSound

\* The attempt takes a step that the actor accepts.
LEMMA JobMoves ==
  ASSUME RepairInv, NEW p \in Pool, NEW j \in pools[p].jobs, scheduled(pools[p], j),
         NEW k \in JobSet(p), k.id = j.id, NEW w \in Works(p),
         w.id = pools[p].work.id, w.kind = pools[p].work.kind
  PROVE  /\ Sound(p, [SetJob(pools[p], j, k) EXCEPT !.work = w])
         /\ SameView(pools[p], [SetJob(pools[p], j, k) EXCEPT !.work = w])
  <1> DEFINE S == SetJob(pools[p], j, k)
  <1>1. Sound(p, pools[p]) /\ pools[p].work # NoWork
    BY AtReport DEF scheduled
  <1>2. Sound(p, S) /\ SameView(pools[p], S) /\ S.work = pools[p].work
    BY <1>1, SetJobSound
  <1> HIDE DEF S
  <1>3. Sound(p, [S EXCEPT !.work = w]) /\ SameView(S, [S EXCEPT !.work = w])
    BY <1>1, <1>2, WorkMoves
  <1>4. SameView(pools[p], [S EXCEPT !.work = w])
    BY <1>2, <1>3 DEF SameView
  <1> QED
    BY <1>3, <1>4 DEF S

LEMMA StartStep ==
  ASSUME RepairInv, NEW p \in Pool, NEW j \in pools[p].jobs,
         start_scheduled_work(p, j) \/ begin_scheduled_round(p, j)
  PROVE  RepairInv' /\ Visible
  <1> DEFINE P == pools[p]
             k == [j EXCEPT !.phase = "running"]
             w == [P.work EXCEPT !.queued = FALSE]
             S == SetJob(P, j, k)
             Q == [S EXCEPT !.work.queued = FALSE]
             F == SetJob(P, j, Failing(j, FALSE))
  <1>1. (scheduled(P, j) /\ WorkerStep(p, Q)) \/ WorkerStep(p, F)
    BY DEF start_scheduled_work, begin_scheduled_round
  <1>2. CASE scheduled(P, j) /\ WorkerStep(p, Q)
    <2>1. Sound(p, P) /\ j \in JobSet(p) /\ P.work \in Works(p)
      BY AtReport
    <2>2. k \in JobSet(p) /\ k.id = j.id
      BY <2>1, PhaseChange
    <2>3. w \in Works(p) /\ w.id = P.work.id /\ w.kind = P.work.kind
      BY <2>1 DEF Works
    <2>4. Sound(p, S) /\ S.work = P.work
      BY <2>1, <2>2, SetJobSound
    <2>5. Q = [S EXCEPT !.work = w]
      BY <2>4 DEF Sound, PoolRecords
    <2> HIDE DEF w, k
    <2>6. Sound(p, [S EXCEPT !.work = w]) /\ SameView(P, [S EXCEPT !.work = w])
      BY <1>2, <2>2, <2>3, JobMoves
    <2>7. Report(p, Q)
      BY <1>2 DEF WorkerStep
    <2> HIDE DEF Q
    <2> QED
      BY <2>5, <2>6, <2>7, ReportStep
  <1>3. CASE WorkerStep(p, F)
    BY <1>3, JobFails, ReportStep DEF WorkerStep
  <1> QED
    BY <1>1, <1>2, <1>3

LEMMA RoundStep ==
  ASSUME RepairInv, NEW p \in Pool, NEW j \in pools[p].jobs, NEW next \in BOOLEAN,
         report_scheduled_round(p, j, next)
  PROVE  RepairInv' /\ Visible
  <1> DEFINE P == pools[p]
             k == [j EXCEPT !.phase = IF next THEN "between" ELSE "done", !.round = @ + 1]
             w == [P.work EXCEPT !.queued = next, !.completed = @ + 1]
             S == SetJob(P, j, k)
             Q == [S EXCEPT !.work.queued = next, !.work.completed = @ + 1]
             F == SetJob(P, j, Failing(j, FALSE))
  <1>1. (scheduled(P, j) /\ WorkerStep(p, Q)) \/ WorkerStep(p, F)
    BY DEF report_scheduled_round
  <1>2. CASE scheduled(P, j) /\ WorkerStep(p, Q)
    <2>1. Sound(p, P) /\ j \in JobSet(p) /\ P.work \in Works(p)
      BY AtReport
    <2>2. k \in JobSet(p) /\ k.id = j.id
      BY <2>1, PhaseChange
    <2>3. w \in Works(p) /\ w.id = P.work.id /\ w.kind = P.work.kind
      <3>1. P.work.completed + 1 \in Nat
        BY <2>1 DEF Works
      <3>2. ASSUME NEW x \in Works(p), NEW n \in Nat
            PROVE  LET y == [x EXCEPT !.queued = next, !.completed = n]
                   IN  y \in Works(p) /\ y.id = x.id /\ y.kind = x.kind
        BY DEF Works
      <3> QED
        BY <2>1, <3>1, <3>2
    <2>4. Sound(p, S) /\ S.work = P.work
      BY <2>1, <2>2, SetJobSound
    <2>5. Q = [S EXCEPT !.work = w]
      BY <2>1, <2>4 DEF Sound, PoolRecords, Works
    <2> HIDE DEF w, k
    <2>6. Sound(p, [S EXCEPT !.work = w]) /\ SameView(P, [S EXCEPT !.work = w])
      BY <1>2, <2>2, <2>3, JobMoves
    <2>7. Report(p, Q)
      BY <1>2 DEF WorkerStep
    <2> HIDE DEF Q
    <2> QED
      BY <2>5, <2>6, <2>7, ReportStep
  <1>3. CASE WorkerStep(p, F)
    BY <1>3, JobFails, ReportStep DEF WorkerStep
  <1> QED
    BY <1>1, <1>2, <1>3

LEMMA RefusedStep ==
  ASSUME RepairInv, NEW p \in Pool, NEW j \in pools[p].jobs,
         \/ commit_refused(p, j) \/ commit_mismatched(p, j) \/ commit_distrusted(p, j)
         \/ provider_fails(p, j)
  PROVE  RepairInv' /\ Visible
  <1> DEFINE P == pools[p]
             F(stale) == SetJob(P, j, Failing(j, stale))
  <1>1. \/ Report(p, F(FALSE)) \/ Report(p, resolve_repair_commit(F(TRUE), j.baseline))
        \/ Report(p, resolve_repair_commit(F(FALSE), point))
    BY DEF commit_refused, commit_mismatched, commit_distrusted, provider_fails, WorkerStep
  <1>2. \A stale \in BOOLEAN : Sound(p, F(stale)) /\ SameView(P, F(stale))
    BY JobFails
  <1>3. point \in Block /\ trusted \in BOOLEAN /\ j.baseline \in Block
    BY AtReport DEF JobSet
  <1> HIDE DEF F
  <1>4. ASSUME NEW t \in Block, NEW stale \in BOOLEAN
        PROVE  /\ Sound(p, resolve_repair_commit(F(stale), t))
               /\ SameView(P, resolve_repair_commit(F(stale), t))
    <2>1. /\ Sound(p, resolve_repair_commit(F(stale), t))
          /\ SameView(F(stale), resolve_repair_commit(F(stale), t))
      BY <1>2, <1>3, ResolveSound
    <2> QED
      BY <1>2, <2>1 DEF SameView
  <1>5. CASE Report(p, F(FALSE))
    BY <1>2, <1>5, ReportStep
  <1>6. CASE Report(p, resolve_repair_commit(F(TRUE), j.baseline))
    BY <1>3, <1>4, <1>6, ReportStep
  <1>7. CASE Report(p, resolve_repair_commit(F(FALSE), point))
    BY <1>3, <1>4, <1>7, ReportStep
  <1> QED
    BY <1>1, <1>5, <1>6, <1>7

\* A job that is not the scheduled attempt leaves the worker.
LEMMA JobLeaves ==
  ASSUME NEW p \in Pool, NEW P, Sound(p, P), NEW j \in P.jobs
  PROVE  LET Q == [P EXCEPT !.jobs = @ \ {j}] IN
         /\ Q \in PoolRecords(p) /\ SameView(P, Q) /\ Q.work = P.work /\ Q.shown = P.shown
         /\ ~scheduled(P, j) => Sound(p, Q)
  <1> DEFINE Q == [P EXCEPT !.jobs = @ \ {j}]
  <1>1. P \in PoolRecords(p)
    BY DEF Sound
  <1>2. /\ Q \in PoolRecords(p) /\ Q.work = P.work /\ Q.shown = P.shown /\ Q.jobs = P.jobs \ {j}
        /\ Q.active = P.active /\ Q.val = P.val /\ Q.status = P.status
    BY <1>1 DEF PoolRecords
  <1> HIDE DEF Q
  <1>3. ~scheduled(P, j) => Attempted(Q)
    BY <1>2 DEF Sound, Honest, Attempted, scheduled
  <1>4. ~scheduled(P, j) => Sound(p, Q)
    BY <1>2, <1>3 DEF Sound, Honest, Reads
  <1> QED
    BY <1>2, <1>4 DEF SameView, Q

LEMMA LeaveStep ==
  ASSUME RepairInv, NEW p \in Pool, NEW j \in pools[p].jobs, worker_drops(p, j)
  PROVE  RepairInv' /\ Visible
  <1> DEFINE Q == [pools[p] EXCEPT !.jobs = @ \ {j}]
  <1>1. Sound(p, pools[p]) /\ ~scheduled(pools[p], j) /\ Report(p, Q)
    BY AtReport DEF worker_drops, WorkerStep
  <1>2. Sound(p, Q) /\ SameView(pools[p], Q)
    BY <1>1, JobLeaves
  <1> HIDE DEF Q
  <1> QED
    BY <1>1, <1>2, ReportStep

LEMMA FailStep ==
  ASSUME RepairInv, NEW p \in Pool, NEW j \in pools[p].jobs, fail_scheduled_work(p, j)
  PROVE  RepairInv' /\ Visible
  <1> DEFINE P == [pools[p] EXCEPT !.jobs = @ \ {j}]
             Q == [P EXCEPT !.work = NoWork,
                            !.shown = IF P.work.kind = "repair" THEN "Degraded" ELSE @]
             R == IF j.stale THEN retain_followup_intent(Q, retry_intent(P.work)) ELSE Q
             D == drain_followup_intents(R, point, trusted)
  <1>1. /\ Sound(p, pools[p]) /\ point \in Block /\ trusted \in BOOLEAN
        /\ pools[p].work \in Works(p)
    BY AtReport
  <1>2. /\ P \in PoolRecords(p) /\ SameView(pools[p], P) /\ P.work = pools[p].work
        /\ P.shown = pools[p].shown /\ (~scheduled(pools[p], j) => Sound(p, P))
    BY <1>1, JobLeaves
  <1>3. scheduled(P, j) <=> scheduled(pools[p], j)
    BY <1>2 DEF scheduled
  <1>4. IF scheduled(P, j) THEN Report(p, D) ELSE Report(p, P)
    BY DEF fail_scheduled_work, WorkerStep
  <1> HIDE DEF P
  <1>5. CASE ~scheduled(P, j)
    BY <1>2, <1>3, <1>4, <1>5, ReportStep
  <1>6. CASE scheduled(P, j)
    <2>1. /\ Q \in PoolRecords(p) /\ Q.work = NoWork /\ Q.active = P.active /\ Q.val = P.val
          /\ Q.status = P.status /\ Q.shown = IF P.work.kind = "repair" THEN "Degraded" ELSE P.shown
      BY <1>2, NoWorkIs DEF PoolRecords
    <2> HIDE DEF Q
    <2>2. Q.shown # "CatchingUp"
      BY <1>1, <1>2, <2>1 DEF Sound, Honest
    <2>3. SameView(pools[p], Q)
      BY <1>2, <2>1 DEF SameView
    <2>4. Sound(p, Q)
      BY <1>1, <2>1, <2>2, <2>3, WorkEnds DEF SameView
    <2>5. Sound(p, R) /\ SameView(Q, R)
      <3>1. CASE j.stale
        BY <1>1, <1>2, <2>4, <3>1, RetainSound, IntentsAre
      <3>2. CASE ~j.stale
        BY <2>4, <3>2 DEF SameView
      <3> QED
        BY <3>1, <3>2
    <2> HIDE DEF R
    <2>6. Sound(p, D) /\ SameView(R, D)
      BY <1>1, <2>5, DrainSound
    <2> HIDE DEF D
    <2>7. SameView(pools[p], D)
      BY <2>3, <2>5, <2>6 DEF SameView
    <2> QED
      BY <1>4, <1>6, <2>6, <2>7, ReportStep
  <1> QED
    BY <1>5, <1>6

LEMMA RefreshStep ==
  ASSUME RepairInv, NEW p \in Pool, NEW j \in pools[p].jobs, commit_scheduled_refresh(p, j)
  PROVE  RepairInv' /\ Visible
  <1> DEFINE P == pools[p]
             unread == IF j.task = "lazy" THEN Unread(p) ELSE {}
             put_off == IF j.task = "lazy" THEN Lazy[p] ELSE {}
             f == apply_prepared_storage(P.val, p, j.baseline, unread)
             Q == [commit_pool_refresh(P) EXCEPT !.val = f]
             R == finish_followup(Q, j)
             S == retain_followup_intent(R, Deferred("verify", P.work.slots \cup put_off))
             D == drain_followup_intents(S, point, trusted)
  <1>1. /\ Sound(p, P) /\ point \in Block /\ trusted \in BOOLEAN /\ P.work \in Works(p)
        /\ j.baseline = point /\ P.work # NoWork
    BY AtReport DEF commit_scheduled_refresh, scheduled
  <1>2. /\ PublishLifecycle([pools EXCEPT ![p] = D]) /\ owed' = [owed EXCEPT ![p] = @ \cap unread]
        /\ inherited' = [inherited EXCEPT ![p] = @ \cap unread]
        /\ mode' = mode /\ trusted' = trusted /\ point' = point /\ delivered' = delivered
    BY DEF commit_scheduled_refresh
  <1>11. /\ owed' = [owed EXCEPT ![p] = owed[p] \cap unread]
         /\ inherited' = [inherited EXCEPT ![p] = inherited[p] \cap unread]
    BY <1>2 DEF RepairInv, WrongIsOwed
  <1>12. put_off \in SUBSET SlotsOf[p]
    BY PoolAssumption
  <1> HIDE DEF put_off, unread
  <1>3. /\ f \in [Slot -> Values] /\ Uncached(p, f)
        /\ Stale(p, f, point) \subseteq Stale(p, P.val, point) \cap unread
    <2>1. P.val \in [Slot -> Values] /\ Uncached(p, P.val)
      BY <1>1 DEF Sound, PoolRecords, Reads, Uncached
    <2> QED
      BY <1>1, <2>1, PreparedIs
  <1> HIDE DEF f
  <1>4. P \in PoolRecords(p) /\ Honest(P) /\ P.active /\ P.work.slots \in SUBSET SlotsOf[p]
    BY <1>1 DEF Sound, Honest, Attempted, Works
  <1>5. /\ Q \in PoolRecords(p) /\ Q.val = f /\ Q.active = P.active /\ Q.status = "Ready"
        /\ Q.work = P.work /\ Q.shown = P.shown /\ Q.jobs = P.jobs
    BY <1>3, <1>4 DEF commit_pool_refresh, PoolRecords
  <1> HIDE DEF Q
  <1>6. Sound(p, Q)
    BY <1>3, <1>4, <1>5 DEF Sound, Honest, Attempted, Reads, Uncached
  <1>7. Sound(p, R) /\ SameView(Q, R)
    BY <1>1, <1>6, FinishSound
  <1> HIDE DEF R
  <1>8. Sound(p, S) /\ SameView(R, S)
    <2>1. Deferred("verify", P.work.slots \cup put_off) \in Intents(p)
      BY <1>4, <1>12, IntentsAre
    <2> QED
      BY <1>7, <2>1, RetainSound
  <1> HIDE DEF S
  <1>9. Sound(p, D) /\ SameView(S, D)
    BY <1>1, <1>8, DrainSound
  <1> HIDE DEF D
  <1>10. D.val = f /\ D.active /\ D.status = "Ready"
    BY <1>4, <1>5, <1>7, <1>8, <1>9 DEF SameView
  <1>13. Stale(p, P.val, point) \subseteq owed[p] \cup inherited[p]
    BY <1>4 DEF RepairInv, WrongIsOwed
  <1>14. Stale(p, D.val, point) \subseteq (owed[p] \cap unread) \cup (inherited[p] \cap unread)
    BY <1>3, <1>10, <1>13
  <1>15. Kept(p, P.val, point, inherited[p], D.val, point, inherited[p] \cap unread)
    BY <1>3, <1>10 DEF Kept
  <1> QED
    BY <1>2, <1>4, <1>9, <1>10, <1>11, <1>14, <1>15, PublishStep

LEMMA PatchStep ==
  ASSUME RepairInv, NEW p \in Pool, NEW j \in pools[p].jobs, commit_scheduled_slot_patch(p, j)
  PROVE  RepairInv' /\ Visible
  <1> DEFINE P == pools[p]
             v == [s \in Slot |-> IF s \in j.slots THEN Truth(point, p, s) ELSE P.val[s]]
             Q == [P EXCEPT !.val = v]
             R == IF P.work.kind = "repair" THEN commit_pool_refresh(Q) ELSE Q
             D == finish_followup(R, j)
  <1>1. /\ Sound(p, P) /\ point \in Block /\ trusted \in BOOLEAN /\ P.work # NoWork
        /\ j.slots \subseteq SlotsOf[p] /\ j.baseline = point
    BY AtReport DEF commit_scheduled_slot_patch, scheduled, JobSet
  <1>2. P \in PoolRecords(p) /\ Honest(P) /\ Reads(p, P) /\ P.active /\ P.val \in [Slot -> Values]
    BY <1>1 DEF Sound, Honest, Attempted, PoolRecords
  <1>3. Q = [P EXCEPT !.val = [s \in Slot |-> IF s \in j.slots THEN Truth(j.baseline, p, s)
                                              ELSE @[s]]]
    BY <1>1, <1>2 DEF PoolRecords
  <1>4. /\ PublishLifecycle([pools EXCEPT ![p] = D]) /\ owed' = [owed EXCEPT ![p] = @ \ j.slots]
        /\ inherited' = [inherited EXCEPT ![p] = @ \ j.slots]
        /\ mode' = mode /\ trusted' = trusted /\ point' = point /\ delivered' = delivered
    BY <1>3 DEF commit_scheduled_slot_patch
  <1>5. /\ owed' = [owed EXCEPT ![p] = owed[p] \ j.slots]
        /\ inherited' = [inherited EXCEPT ![p] = inherited[p] \ j.slots]
    BY <1>4 DEF RepairInv, WrongIsOwed
  <1>6. v \in [Slot -> Values] /\ Uncached(p, v)
    <2>1. \A s \in Slot : Truth(point, p, s) \in Values
      BY <1>1, TruthIsBlock DEF Values
    <2> QED
      BY <1>1, <1>2, <2>1 DEF Uncached, Reads
  <1>7. Stale(p, v, point) \subseteq Stale(p, P.val, point) \ j.slots
    BY DEF Stale
  <1>8. Stale(p, P.val, point) \subseteq owed[p] \cup inherited[p]
    BY <1>2 DEF RepairInv, WrongIsOwed
  <1> HIDE DEF v
  <1>9. /\ Q \in PoolRecords(p) /\ Q.val = v /\ Q.active = P.active /\ Q.status = P.status
        /\ Q.work = P.work /\ Q.shown = P.shown /\ Q.jobs = P.jobs
    BY <1>2, <1>6 DEF PoolRecords
  <1> HIDE DEF Q
  <1>10. /\ R \in PoolRecords(p) /\ R.val = v /\ R.active = P.active
         /\ R.status \in {P.status, "Ready"}
         /\ R.work = P.work /\ R.shown = P.shown /\ R.jobs = P.jobs
    <2>1. CASE P.work.kind = "repair"
      BY <1>9, <2>1 DEF commit_pool_refresh, PoolRecords
    <2>2. CASE P.work.kind # "repair"
      BY <1>9, <2>2
    <2> QED
      BY <2>1, <2>2
  <1> HIDE DEF R
  <1>11. Sound(p, R)
    BY <1>2, <1>6, <1>10 DEF Sound, Honest, Attempted, Reads, Uncached
  <1>12. Sound(p, D) /\ SameView(R, D)
    BY <1>1, <1>11, FinishSound
  <1> HIDE DEF D
  <1>13. D.val = v /\ D.active /\ D.status \in {P.status, "Ready"}
    BY <1>2, <1>10, <1>12 DEF SameView
  <1>14. Stale(p, D.val, point) \subseteq (owed[p] \ j.slots) \cup (inherited[p] \ j.slots)
    BY <1>7, <1>8, <1>13
  <1>15. Kept(p, P.val, point, inherited[p], D.val, point, inherited[p] \ j.slots)
    BY <1>7, <1>13 DEF Kept
  <1> QED
    BY <1>2, <1>4, <1>5, <1>12, <1>13, <1>14, <1>15, PublishStep

-----------------------------------------------------------------------------
(* Commands.                                                               *)

LEMMA AbsentSound ==
  ASSUME NEW p \in Pool, NEW J \in SUBSET JobSet(p), NEW v \in [Slot -> Values], Uncached(p, v)
  PROVE  LET A == [Absent EXCEPT !.jobs = J, !.ids = Jobs[p], !.val = v] IN
         /\ Sound(p, A) /\ ~A.active /\ A.work = NoWork /\ A.status = "Ready" /\ A.shown = None
         /\ A.val = v
  <1> DEFINE C == [s \in Slot |-> Cold]
             A == [Absent EXCEPT !.jobs = J, !.ids = Jobs[p], !.val = v]
  <1>1. C \in [Slot -> Values]
    BY DEF Values
  <1> HIDE DEF C
  <1>2. /\ Absent \in PoolRecords(p) /\ Absent.work = NoWork /\ Absent.shown = None
        /\ Absent.active = FALSE /\ Absent.status = "Ready"
    <2>1. Absent = [active |-> FALSE, status |-> "Ready", fence |-> FALSE, targets |-> {},
                    val |-> C, intent |-> NoIntent, waiting |-> None,
                    work |-> NoWork, shown |-> None, jobs |-> {}, ids |-> {}]
      BY DEF Absent, C
    <2> QED
      BY <1>1, <2>1, NoWorkIs, NoIntentIs DEF PoolRecords
  <1>3. Jobs[p] \in SUBSET Nat
    BY PoolAssumption
  <1>4. /\ A \in PoolRecords(p) /\ A.val = v /\ A.work = NoWork /\ A.shown = None
        /\ A.active = FALSE /\ A.status = "Ready"
    BY <1>2, <1>3 DEF PoolRecords
  <1> HIDE DEF A
  <1>5. Sound(p, A)
    BY <1>4, NoWorkIs DEF Sound, Honest, Attempted, Reads, Uncached, None
  <1> QED
    BY <1>4, <1>5 DEF A

LEMMA RemoveStep ==
  ASSUME RepairInv, NEW p \in Pool, NEW kept, remove_pool(p, kept)
  PROVE  RepairInv' /\ Visible
  <1> DEFINE J == WithoutQueued(pools[p])
             v == [s \in Slot |-> IF s \in kept THEN pools[p].val[s] ELSE Cold]
             A == [Absent EXCEPT !.jobs = J, !.ids = Jobs[p], !.val = v]
  <1>1. J \in SUBSET JobSet(p)
    BY AtReport DEF WithoutQueued
  <1>2. /\ PublishLifecycle([pools EXCEPT ![p] = A]) /\ owed' = [owed EXCEPT ![p] = {}]
        /\ inherited' = [inherited EXCEPT ![p] = kept]
        /\ mode' = mode /\ trusted' = trusted /\ point' = point /\ delivered' = delivered
        /\ pools[p].active
    BY DEF remove_pool
  <1>3. v \in [Slot -> Values] /\ Uncached(p, v) /\ \A s \in Slot : v[s] # Cold => s \in kept
    <2>1. pools[p].val \in [Slot -> Values] /\ Uncached(p, pools[p].val)
      BY AtReport DEF Sound, PoolRecords, Reads, Uncached
    <2> QED
      BY <2>1 DEF Uncached, Values
  <1> HIDE DEF v, J
  <1>4. Sound(p, A) /\ ~A.active /\ A.val = v
    BY <1>1, <1>3, AbsentSound
  <1> HIDE DEF A
  <1>5. Cached(A) \subseteq kept
    BY <1>3, <1>4 DEF Cached
  <1> QED
    BY <1>2, <1>4, <1>5, PublishStep

LEMMA InstallStep ==
  ASSUME RepairInv, NEW p \in Pool, install(p)
  PROVE  RepairInv' /\ Visible
  <1> DEFINE f == apply_prepared_storage(pools[p].val, p, point, Unread(p))
             I == inherited[p] \cap Unread(p)
             J == pools[p].jobs
             A == [Absent EXCEPT !.jobs = J, !.ids = Jobs[p], !.val = f]
             Q == [A EXCEPT !.active = TRUE]
             R == retain_followup_intent(Q, Deferred("verify", Lazy[p]))
             D == drain_followup_intents(R, point, TRUE)
  <1>1. J \in SUBSET JobSet(p) /\ point \in Block
    BY AtReport
  <1>2. Q = [Absent EXCEPT !.active = TRUE, !.jobs = pools[p].jobs, !.ids = Jobs[p], !.val = f]
    BY DEF Absent
  <1>3. /\ PublishLifecycle([pools EXCEPT ![p] = D]) /\ owed' = [owed EXCEPT ![p] = {}]
        /\ inherited' = [inherited EXCEPT ![p] = @ \cap Unread(p)]
        /\ mode' = mode /\ trusted' = trusted /\ point' = point /\ delivered' = delivered
        /\ ~pools[p].active
    BY <1>2 DEF install
  <1>12. inherited' = [inherited EXCEPT ![p] = I]
    BY <1>3 DEF RepairInv, WrongIsOwed
  <1>5. f \in [Slot -> Values] /\ Uncached(p, f) /\ Stale(p, f, point) \subseteq I
    <2>1. pools[p].val \in [Slot -> Values] /\ Uncached(p, pools[p].val)
      BY AtReport DEF Sound, PoolRecords, Reads, Uncached
    <2>2. /\ f \in [Slot -> Values] /\ Uncached(p, f)
          /\ Stale(p, f, point) \subseteq Stale(p, pools[p].val, point) \cap Unread(p)
      BY <1>1, <2>1, PreparedIs
    <2>3. Cached(pools[p]) \subseteq inherited[p]
      BY <1>3 DEF RepairInv, WrongIsOwed
    <2>4. Stale(p, pools[p].val, point) \subseteq Cached(pools[p])
      BY DEF Stale, Cached
    <2> QED
      BY <2>2, <2>3, <2>4
  <1> HIDE DEF f, I, J
  <1>4. Sound(p, A) /\ A.work = NoWork /\ A.status = "Ready" /\ A.shown = None /\ A.val = f
    <2>1. /\ Sound(p, A) /\ ~A.active /\ A.work = NoWork /\ A.status = "Ready" /\ A.shown = None
          /\ A.val = f
      BY <1>1, <1>5, AbsentSound, Zenon
    <2> QED
      BY <2>1
  <1> HIDE DEF A
  <1>6. /\ Q \in PoolRecords(p) /\ Q.val = f /\ Q.active = TRUE /\ Q.status = "Ready"
        /\ Q.work = NoWork /\ Q.shown = None
    BY <1>4, <1>5 DEF Sound, PoolRecords
  <1> HIDE DEF Q
  <1>7. Sound(p, Q)
    BY <1>5, <1>6, NoWorkIs DEF Sound, Honest, Attempted, Reads, Uncached, None
  <1>8. Sound(p, R) /\ SameView(Q, R)
    <2>1. Lazy[p] \in SUBSET SlotsOf[p]
      BY PoolAssumption
    <2>2. Deferred("verify", Lazy[p]) \in Intents(p)
      BY <2>1, IntentsAre
    <2> QED
      BY <1>7, <2>2, RetainSound
  <1> HIDE DEF R
  <1>9. Sound(p, D) /\ SameView(R, D)
    BY <1>1, <1>8, DrainSound
  <1> HIDE DEF D
  <1>10. D.active /\ D.status = "Ready" /\ Stale(p, D.val, point) \subseteq I
    BY <1>5, <1>6, <1>8, <1>9 DEF SameView
  <1> QED
    BY <1>3, <1>9, <1>10, <1>12, PublishStep

LEMMA CommandStep ==
  ASSUME RepairInv, NEW p \in Pool,
         cancel_work(p) \/ \E i \in Requests(p) : request_followup(p, i)
  PROVE  RepairInv' /\ Visible
  <1>1. Sound(p, pools[p]) /\ point \in Block
    BY AtReport
  <1>2. CASE cancel_work(p)
    <2>1. /\ pools' = [pools EXCEPT ![p] = cancel_scheduled_work(pools[p])] /\ mode' = mode
          /\ trusted' = trusted /\ point' = point /\ history' = history /\ delivered' = delivered
          /\ owed' = owed /\ inherited' = inherited
      BY <1>2 DEF cancel_work, RepairInv, PoolsSound
    <2> QED
      BY <1>1, <2>1, CancelSound, PoolStep
  <1>3. ASSUME NEW i \in Requests(p), request_followup(p, i) PROVE RepairInv' /\ Visible
    <2>1. i \in Intents(p)
      <3>1. RepairIntent(ColdStartRepair) \in Intents(p)
        BY DEF RepairIntent, ColdStartRepair, Intents, Origins, Acts
      <3>3. RepairIntent(LazyRepair) \in Intents(p)
        BY DEF RepairIntent, LazyRepair, Intents, Origins, Acts
      <3>2. Deferred("cold", SlotsOf[p]) \in Intents(p)
        BY IntentsAre
      <3> QED
        BY <3>1, <3>2, <3>3 DEF Requests
    <2>2. /\ pools' = [pools EXCEPT ![p] = queue_followup(pools[p], i, point, TRUE)[1]]
          /\ mode' = mode /\ trusted' = trusted /\ point' = point /\ history' = history
          /\ delivered' = delivered /\ owed' = owed /\ inherited' = inherited /\ pools[p].active
      BY <1>3 DEF request_followup, RepairInv, PoolsSound
    <2>3. /\ Sound(p, queue_followup(pools[p], i, point, TRUE)[1])
          /\ SameView(pools[p], queue_followup(pools[p], i, point, TRUE)[1])
      BY <1>1, <2>1, <2>2, QueueSound
    <2> QED
      BY <2>2, <2>3, PoolStep
  <1> QED
    BY <1>2, <1>3

-----------------------------------------------------------------------------
(* Blocks.                                                                 *)

LEMMA TreatmentsAre ==
  ASSUME NEW b \in Block, NEW k \in Treatments(b), NEW p \in Pool
  PROVE  /\ k[p] \in Treated
         /\ pools[p].active /\ Touch[b][p] # {} => k[p] # "none"
         /\ ~(pools[p].active /\ Touch[b][p] # {}) => k[p] = "none"
  <1>1. IF pools[p].active /\ Touch[b][p] # {} THEN k[p] \in Kinds[p] ELSE k[p] = "none"
    BY DEF Treatments
  <1>2. Kinds[p] \subseteq {"write", "delta", "verify", "cold", "other", "undecoded"}
    BY PoolAssumption
  <1> QED
    BY <1>1, <1>2 DEF Treated

\* Unless the report is for a full refresh, the values below the block are the
\* values at the point.
LEMMA ValuesBelow ==
  ASSUME RepairInv, NEW b \in Block \ {Genesis}, NEW has_logs \in BOOLEAN, NEW p \in Pool,
         pools[p].active,
         \/ ~jumps(b)
         \/ /\ mode = "live" /\ Touch[b][p] = {}
            /\ verify_event_free_reorg(b, replacement_proof(b, has_logs))
  PROVE  \A s \in Slot : Truth(point, p, s) = Truth(Parent[b], p, s)
  <1>1. CASE ~jumps(b)
    BY <1>1 DEF jumps
  <1>2. CASE /\ mode = "live" /\ Touch[b][p] = {}
             /\ verify_event_free_reorg(b, replacement_proof(b, has_logs))
    <2>1. Traced(history, point) /\ Quiet(history, pools) /\ point \in Block
      BY <1>2 DEF RepairInv, Recorded, Known
    <2> QED
      BY <1>2, <2>1, EventFree
  <1> QED
    BY <1>1, <1>2

LEMMA IngestStep ==
  ASSUME RepairInv, NEW b \in Block, ingest(b)
  PROVE  RepairInv' /\ Visible
  <1>1. mode = "live" /\ b \in Block \ delivered /\ b \in Block \ {Genesis} /\ b # point /\ trusted
    BY DEF ingest, Deliverable, RepairInv, Known
  <1> DEFINE Undo == IF jumps(b) THEN BOOLEAN ELSE {FALSE}
             val(undo) == [p \in Pool |-> rolled_back(pools[p], p, b, undo)]
             logs(k) == \E p \in Pool : k[p] # "none"
             full(k) == jumps(b) /\ ~verify_event_free_reorg(b, replacement_proof(b, logs(k)))
             ingested(k, undo) == [p \in Pool |->
               IF pools[p].active THEN finish_ingest(pools[p], p, b, k[p], val(undo)[p], full(k))
               ELSE [pools[p] EXCEPT !.val = val(undo)[p]]]
             repaired(k, undo) == Drained(ingested(k, undo), b, TRUE)
             hydrated(k, undo) == [p \in Pool |->
               retain_followup_intent(repaired(k, undo)[p],
                                      missing_quote_read_set(repaired(k, undo)[p], p))]
  <1>2. PICK k \in Treatments(b), undo \in Undo :
          /\ point' = b /\ delivered' = delivered \cup {b} /\ history' = record(b, logs(k))
          /\ pools' = Drained(hydrated(k, undo), b, TRUE)
          /\ owed' = [p \in Pool |-> owed[p] \cup NewlyOwed(p, b, k[p], val(undo)[p], full(k))]
          /\ inherited' = [p \in Pool |-> inherited[p] \ Rewritten(p, b, k[p])]
    BY Zenon DEF ingest
  <1>3. mode' = mode /\ trusted' = trusted /\ undo \in BOOLEAN /\ (~jumps(b) => undo = FALSE)
    BY DEF ingest
  <1> DEFINE v(p) == rolled_back(pools[p], p, b, undo)
             I == ingested(k, undo)
             f == full(k)
             D1 == repaired(k, undo)
             H == hydrated(k, undo)
  <1>4. ASSUME NEW p \in Pool
        PROVE  /\ Sound(p, pools'[p]) /\ SameView(I[p], pools'[p]) /\ Sound(p, I[p])
               /\ I[p].active = pools[p].active
               /\ pools[p].active =>
                    /\ I[p].val = apply_updates(v(p), p, b, k[p])
                    /\ I[p].status # "Degraded" => ~f /\ Asks(p, b, v(p), k[p]) = {}
               /\ ~pools[p].active => Cached(I[p]) \subseteq Cached(pools[p])
    <2>1. Sound(p, pools[p])
      BY AtReport
    <2>2. v(p) \in [Slot -> Values] /\ Uncached(p, v(p))
      BY <1>1, <1>3, <2>1, RollbackIs
    <2>15. \A s \in Slot : v(p)[s] # Cold => pools[p].val[s] # Cold
      BY TreeAssumption DEF rolled_back
    <2>3. k[p] \in Treated
      BY TreatmentsAre
    <2>4. I[p] = IF pools[p].active THEN finish_ingest(pools[p], p, b, k[p], v(p), f)
                 ELSE [pools[p] EXCEPT !.val = v(p)]
      OBVIOUS
    <2>5. f \in BOOLEAN
      OBVIOUS
    <2>6. D1[p] = drain_followup_intents(I[p], b, TRUE)
      BY DEF Drained
    <2>7. H[p] = retain_followup_intent(D1[p], missing_quote_read_set(D1[p], p))
      OBVIOUS
    <2>8. pools'[p] = drain_followup_intents(H[p], b, TRUE)
      BY <1>2 DEF Drained
    <2> HIDE DEF I, f, D1, H, v
    <2>9. /\ Sound(p, I[p]) /\ I[p].active = pools[p].active
          /\ pools[p].active =>
               /\ I[p].val = apply_updates(v(p), p, b, k[p])
               /\ I[p].status # "Degraded" => ~f /\ Asks(p, b, v(p), k[p]) = {}
          /\ ~pools[p].active => Cached(I[p]) \subseteq Cached(pools[p])
      <3>1. CASE pools[p].active
        <4> DEFINE F == finish_ingest(pools[p], p, b, k[p], v(p), f)
        <4>1. /\ Sound(p, F) /\ F.active /\ F.val = apply_updates(v(p), p, b, k[p])
              /\ F.status # "Degraded" => ~f /\ Asks(p, b, v(p), k[p]) = {}
          BY <2>1, <2>2, <2>3, <2>5, <3>1, FinishIngest
        <4>2. I[p] = F
          BY <2>4, <3>1
        <4> HIDE DEF F
        <4>3. pools[p].active = TRUE /\ F.active = TRUE
          BY <2>1, <3>1, <4>1 DEF Sound, PoolRecords
        <4> QED
          BY <4>1, <4>2, <4>3
      <3>2. CASE ~pools[p].active
        <4> DEFINE Q == [pools[p] EXCEPT !.val = v(p)]
        <4>1. pools[p] \in PoolRecords(p) /\ Honest(pools[p])
          BY <2>1 DEF Sound
        <4>2. /\ Q \in PoolRecords(p) /\ Q.val = v(p) /\ Q.active = pools[p].active
              /\ Q.shown = pools[p].shown /\ Q.work = pools[p].work /\ Q.jobs = pools[p].jobs
          BY <2>2, <4>1 DEF PoolRecords
        <4>3. I[p] = Q
          BY <2>4, <3>2
        <4> HIDE DEF Q
        <4>4. Sound(p, Q)
          BY <2>2, <4>1, <4>2 DEF Sound, Honest, Attempted, Reads, Uncached
        <4>5. Cached(Q) \subseteq Cached(pools[p])
          BY <2>15, <4>2 DEF Cached
        <4> QED
          BY <3>2, <4>2, <4>3, <4>4, <4>5
      <3> QED
        BY <3>1, <3>2
    <2>10. Sound(p, D1[p]) /\ SameView(I[p], D1[p])
      BY <2>6, <2>9, DrainSound
    <2>11. missing_quote_read_set(D1[p], p) \in Intents(p)
      <3>1. {s \in Learned[p] : D1[p].val[s] = Cold} \in SUBSET SlotsOf[p]
        BY PoolAssumption
      <3> QED
        BY <3>1, IntentsAre, NoIntentIs DEF missing_quote_read_set
    <2>12. Sound(p, H[p]) /\ SameView(D1[p], H[p])
      BY <2>7, <2>10, <2>11, RetainSound
    <2>13. Sound(p, pools'[p]) /\ SameView(H[p], pools'[p])
      BY <2>8, <2>12, DrainSound
    <2>14. SameView(I[p], pools'[p])
      BY <2>10, <2>12, <2>13 DEF SameView
    <2> QED
      BY <2>9, <2>13, <2>14
  <1>5. ASSUME NEW p \in Pool, pools[p].active
        PROVE  /\ ~f => Stale(p, pools'[p].val, b) \subseteq Stale(p, pools[p].val, point)
                                                             \cup Asks(p, b, v(p), k[p])
               /\ Stale(p, pools'[p].val, b) \subseteq SlotsOf[p]
               /\ Stale(p, pools'[p].val, b) \cap Rewritten(p, b, k[p]) = {}
    <2>1. Sound(p, pools[p])
      BY AtReport
    <2>2. v(p) \in [Slot -> Values] /\ Uncached(p, v(p))
      BY <1>1, <1>3, <2>1, RollbackIs
    <2>3. k[p] \in Treated /\ (Touch[b][p] # {} => k[p] # "none")
      BY <1>5, TreatmentsAre
    <2>4. pools'[p].val = apply_updates(v(p), p, b, k[p])
      BY <1>4, <1>5 DEF SameView
    <2>5. Uncached(p, apply_updates(v(p), p, b, k[p]))
      BY <2>2, UpdateIs
    <2>6. Stale(p, pools'[p].val, b) \subseteq SlotsOf[p]
      BY <2>4, <2>5, StaleIsRead
    <2>7. /\ Stale(p, pools'[p].val, b) \subseteq Stale(p, v(p), Parent[b]) \cup Asks(p, b, v(p), k[p])
          /\ Stale(p, pools'[p].val, b) \cap Rewritten(p, b, k[p]) = {}
      BY <1>1, <2>2, <2>3, <2>4, UpdateStale
    <2>8. ASSUME ~f PROVE Stale(p, v(p), Parent[b]) \subseteq Stale(p, pools[p].val, point)
      <3>1. \/ ~jumps(b)
            \/ verify_event_free_reorg(b, replacement_proof(b, logs(k))) /\ ~logs(k)
        <4>1. ASSUME jumps(b), logs(k) PROVE FALSE
          <5>1. replacement_proof(b, TRUE) = <<>>
            BY DEF replacement_proof
          <5>2. ~verify_event_free_reorg(b, replacement_proof(b, TRUE))
            BY <5>1 DEF verify_event_free_reorg
          <5>3. logs(k) = TRUE
            BY <4>1
          <5> HIDE DEF logs
          <5> QED
            BY <2>8, <4>1, <5>2, <5>3
        <4> QED
          BY <2>8, <4>1
      <3>2. ~logs(k) => Touch[b][p] = {}
        BY <2>3
      <3>3. logs(k) \in BOOLEAN
        OBVIOUS
      <3> HIDE DEF logs
      <3>4. \A s \in Slot : Truth(point, p, s) = Truth(Parent[b], p, s)
        BY <1>1, <1>5, <3>1, <3>2, <3>3, ValuesBelow
      <3> QED
        BY <1>1, <1>3, <2>1, <3>4, RollbackStale
    <2> QED
      BY <2>6, <2>7, <2>8
  <1>6. PoolsSound'
    <2>1. pools' = [p \in Pool |-> pools'[p]]
      BY <1>2 DEF Drained
    <2> QED
      BY <1>4, <2>1 DEF PoolsSound
  <1>7. WrongIsOwed'
    <2>1. owed' = [p \in Pool |-> owed'[p]] /\ inherited' = [p \in Pool |-> inherited'[p]]
      BY <1>2
    <2>2. ASSUME NEW p \in Pool, pools'[p].active
          PROVE  Stale(p, pools'[p].val, b) \subseteq owed'[p] \cup inherited'[p]
      <3>1. pools[p].active
        BY <1>4, <2>2 DEF SameView
      <3>2. owed'[p] = owed[p] \cup NewlyOwed(p, b, k[p], v(p), f)
        BY <1>2
      <3>3. NewlyOwed(p, b, k[p], v(p), f)
              = IF f THEN SlotsOf[p] ELSE Asks(p, b, v(p), k[p])
        BY <3>1 DEF NewlyOwed, Asks
      <3>4. Stale(p, pools[p].val, point) \subseteq owed[p] \cup inherited[p]
        BY <3>1 DEF RepairInv, WrongIsOwed
      <3>5. inherited'[p] = inherited[p] \ Rewritten(p, b, k[p])
        BY <1>2
      <3> HIDE DEF f, v
      <3> QED
        BY <1>5, <3>1, <3>2, <3>3, <3>4, <3>5
    <2>3. ASSUME NEW p \in Pool, ~pools'[p].active PROVE Cached(pools'[p]) \subseteq inherited'[p]
      <3>1. ~pools[p].active /\ pools'[p].val = I[p].val
        BY <1>4, <2>3 DEF SameView
      <3>2. k[p] = "none"
        BY <3>1, TreatmentsAre
      <3>3. inherited'[p] = inherited[p]
        BY <1>2, <3>2 DEF Rewritten
      <3>4. Cached(pools[p]) \subseteq inherited[p]
        BY <3>1 DEF RepairInv, WrongIsOwed
      <3>5. Cached(I[p]) \subseteq Cached(pools[p])
        BY <1>4, <3>1
      <3> HIDE DEF I
      <3>6. Cached(pools'[p]) = Cached(I[p])
        BY <3>1 DEF Cached
      <3> QED
        BY <3>3, <3>4, <3>5, <3>6
    <2> QED
      BY <1>2, <2>1, <2>2, <2>3 DEF WrongIsOwed
  <1>8. Recorded'
    <2>1. Traced(history, point) /\ Quiet(history, pools)
      BY <1>1 DEF RepairInv, Recorded
    <2>2. logs(k) \in BOOLEAN /\ (~logs(k) => \A p \in Pool : pools[p].active => Touch[b][p] = {})
      BY TreatmentsAre
    <2> HIDE DEF logs
    <2>3. Traced(record(b, logs(k)), b) /\ Quiet(record(b, logs(k)), pools)
      BY <1>1, <2>1, <2>2, RecordTraced
    <2>4. \A p \in Pool : pools'[p].active = pools[p].active
      BY <1>4 DEF SameView
    <2>5. Quiet(record(b, logs(k)), pools')
      BY <2>3, <2>4 DEF Quiet
    <2> QED
      BY <1>2, <2>3, <2>5 DEF Recorded
  <1>9. Known'
    BY <1>1, <1>2, <1>3 DEF RepairInv, Known
  <1>10. Advances
    <2>1. ASSUME NEW p \in Pool
          PROVE  /\ pools'[p].active = pools[p].active
                 /\ pools[p].active /\ pools'[p].status # "Degraded"
                      => Kept(p, pools[p].val, point, inherited[p], pools'[p].val, b, inherited'[p])
      <3>1. pools'[p].active = pools[p].active /\ pools'[p].status = I[p].status
        BY <1>4 DEF SameView
      <3>2. ASSUME pools[p].active, pools'[p].status # "Degraded"
            PROVE  Kept(p, pools[p].val, point, inherited[p], pools'[p].val, b, inherited'[p])
        <4>1. ~f /\ Asks(p, b, v(p), k[p]) = {}
          BY <1>4, <3>1, <3>2
        <4>2. inherited'[p] = inherited[p] \ Rewritten(p, b, k[p])
          BY <1>2
        <4> HIDE DEF f, v
        <4>3. /\ Stale(p, pools'[p].val, b) \subseteq Stale(p, pools[p].val, point)
              /\ Stale(p, pools'[p].val, b) \cap Rewritten(p, b, k[p]) = {}
          BY <1>5, <3>2, <4>1
        <4> QED
          BY <4>2, <4>3 DEF Kept
      <3> QED
        BY <3>1, <3>2
    <2> QED
      BY <1>1, <1>2, <2>1 DEF Advances
  <1> QED
    BY <1>6, <1>7, <1>8, <1>9, <1>10 DEF RepairInv, Visible

\* ingest_batch repairs as it ingests: what it refreshed is no longer owed,
\* what it could not is, and a jump makes everything owed.
LEMMA IngestBatchStep ==
  ASSUME RepairInv, NEW b \in Block, ingest_batch(b)
  PROVE  RepairInv' /\ Visible
  <1>1. mode = "resync" /\ b \in Block \ delivered /\ b \in Block \ {Genesis} /\ b # point /\ trusted
    BY DEF ingest_batch, Deliverable, RepairInv, Known
  <1> DEFINE Undo == IF jumps(b) THEN BOOLEAN ELSE {FALSE}
             val(undo) == [p \in Pool |-> rolled_back(pools[p], p, b, undo)]
             repair(k, undo, p) == event_repair(val(undo)[p], p, b, k[p])
             kept(k, ok, undo, p) ==
               IF ok[p] /\ repair(k, undo, p).act = "verify" THEN owed[p] \ repair(k, undo, p).slots
               ELSE owed[p] \cup Demand(p, repair(k, undo, p))
  <1>2. PICK k \in Treatments(b), ok \in [Pool -> BOOLEAN], undo \in Undo :
          /\ pools' = [p \in Pool |->
               IF pools[p].active
               THEN finish_resync(pools[p], p, b, k[p], val(undo)[p], jumps(b), ok[p])
               ELSE pools[p]]
          /\ owed' = [p \in Pool |->
               IF pools[p].active /\ (jumps(b) \/ k[p] = "undecoded") THEN SlotsOf[p]
               ELSE IF pools[p].active /\ k[p] # "none" THEN kept(k, ok, undo, p) ELSE owed[p]]
    BY Zenon DEF ingest_batch
  <1>3. /\ mode' = mode /\ trusted' = trusted /\ undo \in BOOLEAN /\ (~jumps(b) => undo = FALSE)
        /\ point' = b /\ delivered' = delivered \cup {b} /\ inherited' = inherited
    BY DEF ingest_batch
  <1> DEFINE v(p) == rolled_back(pools[p], p, b, undo)
             f == jumps(b)
  <1>4. f \in BOOLEAN
    BY DEF jumps
  <1>5. ASSUME NEW p \in Pool, ~pools[p].active
        PROVE  pools'[p] = pools[p]
    BY <1>2, <1>5
  <1>6. ASSUME NEW p \in Pool, pools[p].active
        PROVE  /\ Sound(p, pools'[p]) /\ pools'[p].active
               /\ Stale(p, pools'[p].val, b) \subseteq owed'[p] \cup inherited[p]
               /\ pools[p].status = "Ready" /\ pools'[p].status # "Degraded"
                    => Stale(p, pools'[p].val, b) \subseteq Stale(p, pools[p].val, point)
    <2> DEFINE A == Asks(p, b, v(p), k[p])
               R == Refreshed(p, b, v(p), k[p], ok[p])
               F == finish_resync(pools[p], p, b, k[p], v(p), f, ok[p])
    <2>1. Sound(p, pools[p])
      BY AtReport
    <2>2. v(p) \in [Slot -> Values] /\ Uncached(p, v(p))
      BY <1>1, <1>3, <2>1, RollbackIs
    <2>3. k[p] \in Treated /\ (Touch[b][p] # {} => k[p] # "none") /\ ok[p] \in BOOLEAN
      BY <1>6, TreatmentsAre
    <2>4. pools'[p] = F
      BY <1>2, <1>6
    <2>5. owed'[p] = IF f \/ k[p] = "undecoded" THEN SlotsOf[p]
                     ELSE IF k[p] # "none" THEN kept(k, ok, undo, p) ELSE owed[p]
      BY <1>2, <1>6
    <2>6. kept(k, ok, undo, p)
            = IF ok[p] /\ event_repair(v(p), p, b, k[p]).act = "verify"
              THEN owed[p] \ event_repair(v(p), p, b, k[p]).slots
              ELSE owed[p] \cup Demand(p, event_repair(v(p), p, b, k[p]))
      OBVIOUS
    <2>7. k[p] # "undecoded" =>
            kept(k, ok, undo, p)
              = IF ok[p] /\ event_repair(v(p), p, b, k[p]).act = "verify"
                THEN owed[p] \ R ELSE owed[p] \cup A
      BY <2>6 DEF Asks, Refreshed
    <2> HIDE DEF kept, v, f
    <2>8. /\ Sound(p, F) /\ F.active
          /\ Stale(p, F.val, b) \subseteq (Stale(p, v(p), Parent[b]) \cup A) \ R
          /\ pools[p].status = "Ready" /\ F.status # "Degraded" => ~f /\ A \subseteq R
      BY <1>1, <1>4, <1>6, <2>1, <2>2, <2>3, FinishResync
    <2> HIDE DEF F
    <2>9. Stale(p, F.val, b) \subseteq SlotsOf[p]
      BY <2>8, StaleIsRead DEF Sound, Reads, Uncached
    <2>10. ~f => Stale(p, v(p), Parent[b]) \subseteq Stale(p, pools[p].val, point)
      <3>1. ASSUME ~f PROVE \A s \in Slot : Truth(point, p, s) = Truth(Parent[b], p, s)
        BY <3>1 DEF f, jumps
      <3> QED
        BY <1>1, <1>3, <2>1, <3>1, RollbackStale DEF v
    <2>11. Stale(p, pools[p].val, point) \subseteq owed[p] \cup inherited[p]
      BY <1>6 DEF RepairInv, WrongIsOwed
    <2>12. k[p] = "none" => A = {}
      BY <2>3, RepairIs, AsksNothing
    <2>13. /\ R # {} => ok[p] /\ event_repair(v(p), p, b, k[p]).act = "verify"
           /\ k[p] # "undecoded" /\ ok[p] /\ event_repair(v(p), p, b, k[p]).act = "verify" => A = R
      BY DEF Refreshed, Asks, Demand
    <2> HIDE DEF A, R
    <2>14. Stale(p, F.val, b) \subseteq owed'[p] \cup inherited[p]
      <3>1. CASE f \/ k[p] = "undecoded"
        BY <2>5, <2>9, <3>1
      <3>2. CASE ~f /\ k[p] # "undecoded"
        <4>1. Stale(p, F.val, b) \subseteq (owed[p] \cup inherited[p] \cup A) \ R
          BY <2>8, <2>10, <2>11, <3>2
        <4>2. CASE k[p] = "none"
          BY <2>5, <2>12, <3>2, <4>1, <4>2
        <4>3. CASE k[p] # "none"
          <5>1. owed'[p] = kept(k, ok, undo, p)
            BY <2>5, <3>2, <4>3
          <5> QED
            BY <2>7, <2>13, <3>2, <4>1, <5>1
        <4> QED
          BY <4>2, <4>3
      <3> QED
        BY <3>1, <3>2
    <2>15. ASSUME pools[p].status = "Ready", F.status # "Degraded"
           PROVE  Stale(p, F.val, b) \subseteq Stale(p, pools[p].val, point)
      <3>1. ~f /\ A \subseteq R
        BY <2>8, <2>15
      <3> QED
        BY <2>8, <2>10, <3>1
    <2> QED
      BY <2>4, <2>8, <2>14, <2>15
  <1>7. PoolsSound'
    <2>1. pools' = [p \in Pool |-> pools'[p]]
      BY <1>2
    <2>2. \A p \in Pool : Sound(p, pools'[p])
      BY <1>5, <1>6, AtReport
    <2> QED
      BY <2>1, <2>2 DEF PoolsSound
  <1>8. WrongIsOwed'
    <2>1. owed' = [p \in Pool |-> owed'[p]] /\ inherited' = [p \in Pool |-> inherited'[p]]
      BY <1>2, <1>3 DEF RepairInv, WrongIsOwed
    <2>2. \A p \in Pool : pools'[p].active =>
            Stale(p, pools'[p].val, point') \subseteq owed'[p] \cup inherited'[p]
      BY <1>3, <1>5, <1>6
    <2>3. ASSUME NEW p \in Pool, ~pools'[p].active PROVE Cached(pools'[p]) \subseteq inherited'[p]
      <3>1. ~pools[p].active /\ pools'[p] = pools[p]
        BY <1>5, <1>6, <2>3
      <3> QED
        BY <1>3, <3>1 DEF RepairInv, WrongIsOwed
    <2> QED
      BY <2>1, <2>2, <2>3 DEF WrongIsOwed
  <1>9. Recorded'
    BY <1>1, <1>3 DEF Recorded
  <1>10. Known'
    BY <1>1, <1>3 DEF RepairInv, Known
  <1>11. Advances
    <2>1. ASSUME NEW p \in Pool
          PROVE  /\ pools'[p].active = pools[p].active
                 /\ pools[p].active /\ pools[p].status = "Ready" /\ pools'[p].status # "Degraded"
                      => Kept(p, pools[p].val, point, inherited[p], pools'[p].val, b, inherited'[p])
      <3>1. CASE pools[p].active
        <4>1. pools'[p].active = TRUE /\ pools[p].active = TRUE
          BY <1>6, <3>1, AtReport DEF Sound, PoolRecords
        <4>2. pools[p].status = "Ready" /\ pools'[p].status # "Degraded"
                => Stale(p, pools'[p].val, b) \subseteq Stale(p, pools[p].val, point)
          BY <1>6, <3>1
        <4> QED
          BY <1>3, <4>1, <4>2 DEF Kept
      <3>2. CASE ~pools[p].active
        BY <1>5, <3>2
      <3> QED
        BY <3>1, <3>2
    <2> QED
      BY <1>1, <1>3, <2>1 DEF Advances
  <1> QED
    BY <1>7, <1>8, <1>9, <1>10, <1>11 DEF RepairInv, Visible

LEMMA IngestFailsStep ==
  ASSUME RepairInv, NEW b \in Block, ingest_fails(b)
  PROVE  RepairInv' /\ Visible
  <1>1. /\ mode' = mode /\ point' = point /\ history' = history /\ delivered' = delivered
        /\ pools' = pools /\ owed' = owed /\ inherited' = inherited /\ trusted' = FALSE
    BY DEF ingest_fails, Untrust
  <1>2. RepairInv'
    BY <1>1 DEF RepairInv, Known, PoolsSound, WrongIsOwed, Recorded
  <1>3. Stutters
    BY <1>1 DEF Stutters, SameView
  <1> QED
    BY <1>2, <1>3 DEF Visible

-----------------------------------------------------------------------------
(* Steps and theorems.                                                     *)

LEMMA RepairStep ==
  ASSUME RepairInv, [Next]_vars
  PROVE  RepairInv' /\ Visible
  <1>1. ASSUME UNCHANGED vars PROVE RepairInv' /\ Visible
    <2>1. /\ mode' = mode /\ trusted' = trusted /\ point' = point /\ history' = history
          /\ delivered' = delivered /\ pools' = pools /\ owed' = owed /\ inherited' = inherited
      BY <1>1 DEF vars
    <2>2. RepairInv'
      BY <2>1 DEF RepairInv, Known, PoolsSound, WrongIsOwed, Recorded
    <2>3. Stutters
      BY <2>1 DEF Stutters, SameView
    <2> QED
      BY <2>2, <2>3 DEF Visible
  <1>2. ASSUME NEW b \in Block, ingest(b) \/ ingest_batch(b) \/ ingest_fails(b)
        PROVE  RepairInv' /\ Visible
    BY <1>2, IngestStep, IngestBatchStep, IngestFailsStep
  <1>3. ASSUME NEW p \in Pool, NEW j \in pools[p].jobs, JobStep(p, j)
        PROVE  RepairInv' /\ Visible
    <2>1. CASE start_scheduled_work(p, j) \/ begin_scheduled_round(p, j)
      BY <2>1, StartStep
    <2>2. CASE report_scheduled_round(p, j, TRUE)
      BY <2>2, RoundStep
    <2>3. CASE report_scheduled_round(p, j, FALSE)
      BY <2>3, RoundStep
    <2>4. CASE commit_refused(p, j) \/ commit_mismatched(p, j) \/ commit_distrusted(p, j)
      BY <2>4, RefusedStep
    <2>5. CASE commit_scheduled_refresh(p, j)
      BY <2>5, RefreshStep
    <2>6. CASE commit_scheduled_slot_patch(p, j)
      BY <2>6, PatchStep
    <2>7. CASE fail_scheduled_work(p, j)
      BY <2>7, FailStep
    <2> QED
      BY <1>3, <2>1, <2>2, <2>3, <2>4, <2>5, <2>6, <2>7 DEF JobStep
  <1>4. ASSUME NEW p \in Pool, NEW j \in pools[p].jobs, provider_fails(p, j) \/ worker_drops(p, j)
        PROVE  RepairInv' /\ Visible
    BY <1>4, RefusedStep, LeaveStep
  <1>5. ASSUME NEW p \in Pool,
               \/ install(p) \/ cancel_work(p)
               \/ \E kept \in EvictionPolicies(p) : remove_pool(p, kept)
               \/ \E i \in Requests(p) : request_followup(p, i)
        PROVE  RepairInv' /\ Visible
    BY <1>5, InstallStep, RemoveStep, CommandStep
  <1> QED
    BY <1>1, <1>2, <1>3, <1>4, <1>5 DEF Next

(* Every handler of the actor, step of the worker and block of the sync     *)
(* engine keeps the books of repair: the pools' records are sound, every    *)
(* wrong slot is owed or inherited, and EventFreeReorgHistory speaks of     *)
(* blocks below the point that touch no active pool.  For every tree,       *)
(* adapter, cold-start policy, eviction policy and bound.                   *)
THEOREM RepairInvariance == Spec => []RepairInv
  <1>1. Init => RepairInv
    BY Initially
  <1>2. RepairInv /\ [Next]_vars => RepairInv'
    BY RepairStep
  <1> QED
    BY <1>1, <1>2, PTL DEF Spec

(* The cached state of a registered pool never goes wrong unnoticed: a slot *)
(* that does not hold the chain's value at the point is one whose refresh   *)
(* some report demanded, or one whose word outlived an earlier registration *)
(* (AmmEvictionPolicy::Retain) unread.  This is what the event-free shortcut of live_runtime/reorg.rs *)
(* and the baseline checks of the refresh and slot-patch commits must keep. *)
THEOREM StaleAlwaysOwed == Spec => []StaleIsOwed
  <1>1. RepairInv => StaleIsOwed
    BY DEF RepairInv, WrongIsOwed, StaleIsOwed, Stale, Wrong
  <1> QED
    BY <1>1, RepairInvariance, PTL

(* The lifecycle overrides of live_runtime.rs never outlive their reason:   *)
(* CatchingUp is shown exactly while a repair is scheduled, and scheduled   *)
(* work belongs to an active pool and is held by the worker.                *)
THEOREM LifecycleIsHonest == Spec => []LifecycleHonest
  <1>1. ASSUME RepairInv PROVE LifecycleHonest
    <2>1. ASSUME NEW p \in Pool
          PROVE  /\ (pools[p].shown = "CatchingUp") = (pools[p].work.kind = "repair")
                 /\ pools[p].work # NoWork =>
                      pools[p].active /\ \E j \in pools[p].jobs : j.id = pools[p].work.id
      <3>1. Honest(pools[p])
        BY <1>1, AtReport DEF Sound
      <3> QED
        BY <3>1 DEF Honest, Attempted
    <2> QED
      BY <2>1 DEF LifecycleHonest
  <1> QED
    BY <1>1, RepairInvariance, PTL

\* A pool that readers may quote, from its stale and its inherited slots.
ReadyView(p, v) ==
  /\ Wrong(p) = {} => v = "exact"
  /\ Wrong(p) # {} /\ Wrong(p) \subseteq inherited[p] => v = "inherited"
  /\ ~(Wrong(p) \subseteq inherited[p]) => v = "suspect"

\* The readers' view as the stale slots determine it.
Seen ==
  \A p \in Pool :
    /\ pools[p].active \in BOOLEAN /\ pools[p].status \in {"Ready", "Degraded"}
    /\ ~pools[p].active => ViewOf(p) = "absent"
    /\ pools[p].active /\ pools[p].status = "Degraded" => ViewOf(p) = "fenced"
    /\ pools[p].active /\ pools[p].status = "Ready" => ReadyView(p, ViewOf(p))

LEMMA ViewsSeen == RepairInv => Seen
  <1> SUFFICES ASSUME RepairInv, NEW p \in Pool
               PROVE  /\ pools[p].active \in BOOLEAN /\ pools[p].status \in {"Ready", "Degraded"}
                      /\ ~pools[p].active => ViewOf(p) = "absent"
                      /\ pools[p].active /\ pools[p].status = "Degraded" => ViewOf(p) = "fenced"
                      /\ pools[p].active /\ pools[p].status = "Ready" => ReadyView(p, ViewOf(p))
    BY DEF Seen
  <1>1. pools[p].active \in BOOLEAN /\ pools[p].status \in {"Ready", "Degraded"}
    BY AtReport DEF Sound, PoolRecords
  <1>2. pools[p].active => Wrong(p) \subseteq owed[p] \cup inherited[p]
    BY DEF RepairInv, WrongIsOwed, Stale, Wrong
  <1> DEFINE w == Wrong(p)
             e == w = {}
             i == w \subseteq inherited[p]
             o == w \subseteq owed[p] \cup inherited[p]
  <1>3. ViewOf(p) = CASE ~pools[p].active -> "absent"
                      [] pools[p].active /\ pools[p].status = "Degraded" -> "fenced"
                      [] pools[p].active /\ pools[p].status = "Ready" /\ e -> "exact"
                      [] pools[p].active /\ pools[p].status = "Ready" /\ ~e /\ i -> "inherited"
                      [] OTHER -> IF o THEN "suspect" ELSE "broken"
    BY DEF ViewOf
  <1>4. (pools[p].active => o) /\ (e => i)
    BY <1>2
  <1>5. ReadyView(p, ViewOf(p)) <=> /\ e => ViewOf(p) = "exact"
                                    /\ ~e /\ i => ViewOf(p) = "inherited"
                                    /\ ~i => ViewOf(p) = "suspect"
    BY DEF ReadyView
  <1> HIDE DEF e, i, o
  <1>6. ~pools[p].active => ViewOf(p) = "absent"
    BY <1>1, <1>3
  <1>7. pools[p].active /\ pools[p].status = "Degraded" => ViewOf(p) = "fenced"
    BY <1>1, <1>3
  <1>8. ASSUME pools[p].active, pools[p].status = "Ready" PROVE ReadyView(p, ViewOf(p))
    <2>1. CASE e
      BY <1>1, <1>3, <1>4, <1>5, <1>8, <2>1
    <2>2. CASE ~e /\ i
      BY <1>1, <1>3, <1>4, <1>5, <1>8, <2>2
    <2>3. CASE ~e /\ ~i
      BY <1>1, <1>3, <1>4, <1>5, <1>8, <2>3
    <2> QED
      BY <2>1, <2>2, <2>3
  <1> QED
    BY <1>1, <1>6, <1>7, <1>8

LEMMA ViewUnchanged ==
  ASSUME NEW p \in Pool, SameView(pools[p], pools'[p]), owed'[p] = owed[p],
         inherited'[p] = inherited[p], point' = point
  PROVE  ViewOf(p)' = ViewOf(p)
  <1>1. Wrong(p)' = Wrong(p)
    BY DEF Wrong, SameView, Truth
  <1> QED
    BY <1>1 DEF ViewOf, SameView

\* A step that makes nothing wrong, as readers see it.
LEMMA KeptView ==
  ASSUME Seen, Seen', NEW p \in Pool, pools[p].active, pools'[p].active,
         pools[p].status = "Ready", pools'[p].status = "Ready",
         Kept(p, pools[p].val, point, inherited[p], pools'[p].val, point', inherited'[p])
  PROVE  /\ ViewOf(p) \in {"exact", "inherited", "suspect"}
         /\ ViewOf(p)' \in {"exact", "inherited", "suspect"}
         /\ ViewOf(p) = "exact" => ViewOf(p)' = "exact"
         /\ ViewOf(p) = "inherited" => ViewOf(p)' \in {"exact", "inherited"}
  <1>1. ReadyView(p, ViewOf(p))
    BY DEF Seen
  <1>2. ReadyView(p, ViewOf(p))'
    BY DEF Seen
  <1>3. Wrong(p) = {} => Wrong(p)' = {}
    BY DEF Kept, Wrong, Stale
  <1>4. Wrong(p) \subseteq inherited[p] => Wrong(p)' \subseteq inherited'[p]
    BY DEF Kept, Wrong, Stale
  <1> QED
    BY <1>1, <1>2, <1>3, <1>4 DEF ReadyView

\* A step that keeps the books is a block, a commit or a stutter to readers.
LEMMA ViewStep ==
  ASSUME Seen, Seen', Visible
  PROVE  Abstract!Next \/ (point' = point /\ [p \in Pool |-> ViewOf(p)]' = [p \in Pool |-> ViewOf(p)])
  <1> DEFINE V == [p \in Pool |-> ViewOf(p)]
             W == [p \in Pool |-> ViewOf(p)']
  <1>1. V' = W
    OBVIOUS
  <1>2. \A p \in Pool : ViewOf(p) \in Abstract!View /\ ViewOf(p)' \in Abstract!View
    <2>1. \A p \in Pool : ViewOf(p) \in {"absent", "exact", "fenced", "suspect", "inherited"}
      BY DEF Seen, ReadyView
    <2>2. \A p \in Pool : ViewOf(p)' \in {"absent", "exact", "fenced", "suspect", "inherited"}
      BY DEF Seen, ReadyView
    <2> QED
      BY <2>1, <2>2 DEF Abstract!View
  <1>3. CASE Stutters
    <2>1. \A p \in Pool : ViewOf(p)' = ViewOf(p)
      BY <1>3, ViewUnchanged DEF Stutters
    <2> QED
      BY <1>1, <1>3, <2>1 DEF Stutters
  <1>4. ASSUME NEW p \in Pool, CommitsAt(p)
        PROVE  Abstract!Commit \/ (point' = point /\ V' = V)
    <2>1. \A q \in Pool \ {p} : ViewOf(q)' = ViewOf(q)
      BY <1>4, ViewUnchanged DEF CommitsAt
    <2>2. W = [V EXCEPT ![p] = ViewOf(p)']
      BY <2>1
    <2>3. \/ ViewOf(p)' = ViewOf(p)
          \/ ViewOf(p) = "absent" /\ ViewOf(p)' \in {"exact", "inherited"}
          \/ ViewOf(p) = "exact" /\ ViewOf(p)' = "absent"
          \/ ViewOf(p) = "inherited" /\ ViewOf(p)' \in {"absent", "exact"}
          \/ /\ ViewOf(p) \in {"fenced", "suspect"}
             /\ ViewOf(p)' \in {"absent", "exact", "suspect", "inherited"}
      <3>1. CASE pools[p].active /\ ~pools'[p].active
        BY <3>1 DEF Seen, ReadyView
      <3>2. CASE /\ pools'[p].active /\ ~pools[p].active /\ pools'[p].status = "Ready"
                 /\ Stale(p, pools'[p].val, point) \subseteq inherited'[p]
        <4>1. ViewOf(p) = "absent"
          BY <3>2 DEF Seen
        <4>2. point' = point
          BY <1>4 DEF CommitsAt
        <4>3. Wrong(p)' \subseteq inherited'[p]
          BY <3>2, <4>2 DEF Wrong, Stale
        <4>4. ReadyView(p, ViewOf(p))'
          BY <3>2 DEF Seen
        <4>5. ViewOf(p)' \in {"exact", "inherited"}
          BY <4>3, <4>4 DEF ReadyView
        <4> QED
          BY <4>1, <4>5
      <3>3. CASE /\ pools[p].active /\ pools'[p].active
                 /\ pools'[p].status \in {pools[p].status, "Ready"}
                 /\ Kept(p, pools[p].val, point, inherited[p], pools'[p].val, point, inherited'[p])
        <4>1. point' = point
          BY <1>4 DEF CommitsAt
        <4>2. CASE pools'[p].status = "Degraded"
          BY <3>3, <4>2 DEF Seen
        <4>3. CASE pools[p].status = "Ready" /\ pools'[p].status = "Ready"
          BY <3>3, <4>1, <4>3, KeptView
        <4>4. CASE pools[p].status = "Degraded" /\ pools'[p].status = "Ready"
          BY <3>3, <4>4 DEF Seen, ReadyView
        <4> QED
          BY <3>3, <4>2, <4>3, <4>4 DEF Seen
      <3> QED
        BY <1>4, <3>1, <3>2, <3>3 DEF CommitsAt
    <2>4. ASSUME ViewOf(p)' # ViewOf(p)
          PROVE  ViewOf(p)' \in CASE V[p] = "absent" -> {"exact", "inherited"}
                                  [] V[p] = "exact" -> {"absent"}
                                  [] V[p] = "inherited" -> {"absent", "exact"}
                                  [] OTHER -> {"absent", "exact", "suspect", "inherited"}
      <3>1. V[p] = ViewOf(p)
        OBVIOUS
      <3> HIDE DEF V
      <3> QED
        BY <2>3, <2>4, <3>1
    <2>5. CASE ViewOf(p)' = ViewOf(p)
      <3>1. W = V
        BY <2>1, <2>5
      <3> QED
        BY <1>1, <1>4, <3>1 DEF CommitsAt
    <2>6. CASE ViewOf(p)' # ViewOf(p)
      <3>1. point' = point
        BY <1>4 DEF CommitsAt
      <3>2. V' = [V EXCEPT ![p] = ViewOf(p)']
        BY <1>1, <2>2
      <3> QED
        BY <2>4, <2>6, <3>1, <3>2 DEF Abstract!Commit
    <2> QED
      BY <2>5, <2>6
  <1>5. CASE Advances
    <2>1. W \in [Pool -> Abstract!View]
      BY <1>2
    <2>2. ASSUME NEW p \in Pool
          PROVE  /\ (V[p] = "absent") = (W[p] = "absent")
                 /\ V[p] = "exact" => W[p] \in {"exact", "fenced"}
                 /\ V[p] = "inherited" => W[p] # "suspect"
      <3>1. V[p] = ViewOf(p) /\ W[p] = ViewOf(p)'
        OBVIOUS
      <3> HIDE DEF V, W
      <3>2. pools'[p].active = pools[p].active
        BY <1>5 DEF Advances
      <3>3. (ViewOf(p) = "absent") = (ViewOf(p)' = "absent")
        BY <3>2 DEF Seen, ReadyView
      <3>4. ASSUME ViewOf(p) \in {"exact", "inherited"}
            PROVE  /\ ViewOf(p) = "exact" => ViewOf(p)' \in {"exact", "fenced"}
                   /\ ViewOf(p) = "inherited" => ViewOf(p)' # "suspect"
        <4>1. pools[p].active /\ pools'[p].active /\ pools[p].status = "Ready"
          BY <3>2, <3>4 DEF Seen
        <4>2. CASE pools'[p].status = "Degraded"
          BY <4>1, <4>2 DEF Seen
        <4>3. CASE pools'[p].status = "Ready"
          <5>1. Kept(p, pools[p].val, point, inherited[p], pools'[p].val, point', inherited'[p])
            BY <1>5, <4>1, <4>3 DEF Advances
          <5> QED
            BY <4>1, <4>3, <5>1, KeptView
        <4> QED
          BY <4>2, <4>3 DEF Seen
      <3> QED
        BY <3>1, <3>3, <3>4
    <2>3. Abstract!Advance
      <3>1. /\ point' \in Block \ {point} /\ V' \in [Pool -> Abstract!View]
            /\ \A p \in Pool : /\ (V[p] = "absent") = (V'[p] = "absent")
                               /\ V[p] = "exact" => V'[p] \in {"exact", "fenced"}
                               /\ V[p] = "inherited" => V'[p] # "suspect"
        BY <1>1, <1>5, <2>1, <2>2 DEF Advances
      <3> QED
        BY <3>1 DEF Abstract!Advance
    <2> QED
      BY <2>3 DEF Abstract!Next
  <1> QED
    BY <1>3, <1>4, <1>5 DEF Visible, Abstract!Next

(* The actor, the engine and the worker together keep the promise of        *)
(* QuoteView to the readers of snapshots: a pool that was exact is exact or *)
(* Degraded after any block, reorganisation or gap, only a commit at the    *)
(* point lifts a fence, installs a pool or removes one, and a wrong word    *)
(* comes into a Ready pool only with its installation or past a fence.      *)
THEOREM ViewIsImplemented == Spec => ImplementsQuoteView
  <1> DEFINE V == [p \in Pool |-> ViewOf(p)]
  <1>1. Init => Abstract!Init
    <2> SUFFICES ASSUME Init PROVE Abstract!Init
      OBVIOUS
    <2>1. RepairInv
      BY Initially
    <2>2. Seen
      BY <2>1, ViewsSeen
    <2>3. ASSUME NEW p \in Pool PROVE ViewOf(p) \in {"absent", "exact"}
      <3>1. CASE pools[p].active
        <4>1. pools[p].status = "Ready"
          BY DEF Init, Absent
        <4>2. Stale(p, pools[p].val, point) = {}
          <5>1. Stale(p, pools[p].val, point) \subseteq owed[p] \cup inherited[p]
            BY <2>1, <3>1 DEF RepairInv, WrongIsOwed
          <5>2. owed[p] = {} /\ inherited[p] = {}
            BY DEF Init
          <5> QED
            BY <5>1, <5>2
        <4>3. Wrong(p) = {}
          BY <4>2 DEF Wrong, Stale
        <4> QED
          BY <2>2, <3>1, <4>1, <4>3 DEF Seen, ReadyView
      <3>2. CASE ~pools[p].active
        BY <2>2, <3>2 DEF Seen
      <3> QED
        BY <3>1, <3>2
    <2>4. V \in [Pool -> {"absent", "exact"}]
      BY <2>3
    <2>5. point = Genesis
      BY DEF Init
    <2> QED
      BY <2>4, <2>5 DEF Abstract!Init
  <1>2. RepairInv /\ RepairInv' /\ [Next]_vars => [Abstract!Next]_<<point, V>>
    <2> SUFFICES ASSUME RepairInv, RepairInv', [Next]_vars
                 PROVE  [Abstract!Next]_<<point, V>>
      OBVIOUS
    <2>1. Seen /\ Seen'
      BY ViewsSeen, PTL
    <2>2. Visible
      BY RepairStep
    <2>3. Abstract!Next \/ (point' = point /\ V' = V)
      BY <2>1, <2>2, ViewStep
    <2> QED
      BY <2>3
  <1> QED
    BY <1>1, <1>2, RepairInvariance, PTL DEF Spec, ImplementsQuoteView, Abstract!Spec
===============================================================================
