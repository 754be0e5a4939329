----------------------- MODULE CanonicalAssemblyProofs -----------------------
(***************************************************************************)
(* Theorems about CanonicalAssembly, for every block tree, every           *)
(* assignment of logs and every RETAINED_CANONICAL_LINEAGE:                *)
(*   - the driver's retained lineage is the history of the published       *)
(*     point, and the runtime is handed neither a gap nor a replay;        *)
(*   - every variable keeps its type;                                      *)
(*   - a batch that is reconciled carries every log of its block; a batch  *)
(*     that is sealed lacks none but one a reset discarded, and on a chain *)
(*     without forks and skipped headers there is no reset.                *)
(***************************************************************************)
EXTENDS CanonicalAssembly, FiniteSetTheorems, SequenceTheorems, TLAPS

-----------------------------------------------------------------------------
(* Minima and maxima of sets of naturals. *)

\* A non-empty set of naturals has a least element, and Min finds it.
LEMMA MinNat ==
  ASSUME NEW S, S \subseteq Nat, S # {}
  PROVE  Min(S) \in S /\ \A y \in S : Min(S) <= y
<1>1. PICK x \in S : \A y \in S : ~(<<y, x>> \in OpToRel(<, Nat))
  BY NatLessThanWellFounded, WFMin, Zenon
<1>2. \A y \in S : ~(y < x)
  BY <1>1, Zenon DEF OpToRel
<1>3. \A y \in S : x <= y
  BY <1>2
<1> QED
  BY <1>3 DEF Min

\* A non-empty set of positions of a sequence has a greatest element.
LEMMA MaxBounded ==
  ASSUME NEW n \in Nat, NEW S, S \subseteq 1..n, S # {}
  PROVE  Max(S) \in S
<1> DEFINE D == {n - x : x \in S}
<1>0. \A x \in S : n - x \in Nat
  OBVIOUS
<1>1. D \subseteq Nat /\ D # {}
  BY <1>0
<1>2. Min(D) \in D /\ \A y \in D : Min(D) <= y
  BY <1>1, MinNat, Zenon
<1>3. PICK m \in S : Min(D) = n - m
  BY <1>2
<1>4. \A x \in S : n - m <= n - x
  BY <1>2, <1>3
<1>5. \A x \in S : m >= x
  BY <1>4
<1> QED
  BY <1>5 DEF Max

\* The least element of an interval.
LEMMA MinInterval ==
  ASSUME NEW a \in Nat, NEW b \in Nat, a <= b
  PROVE  Min(a..b) = a
<1>1. Min(a..b) \in a..b /\ \A y \in a..b : Min(a..b) <= y
  BY MinNat, a..b \subseteq Nat, a \in a..b
<1> QED
  BY <1>1

\* A subsequence is a sequence over the same set.
LEMMA SubSeqType ==
  ASSUME NEW S, NEW s \in Seq(S), NEW m \in Nat \ {0}, NEW n \in Nat, n <= Len(s)
  PROVE  SubSeq(s, m, n) \in Seq(S)
<1>1. \A i \in m..n : s[i] \in S
  <2> TAKE i \in m..n
  <2>1. i \in 1..Len(s)
    OBVIOUS
  <2> QED
    BY <2>1, ElementOfSeq
<1> QED
  BY <1>1, SubSeqProperties

-----------------------------------------------------------------------------
(* The inductive invariant. *)

\* The retained numbers are an interval that ends at the published point.
Retention ==
  \E lo \in Nat :
    /\ lo <= Number[point]
    /\ Number[point] - lo < Retained
    /\ DOMAIN canonical_lineage = lo..Number[point]

LineageInv ==
  /\ Retention
  /\ \A n \in DOMAIN canonical_lineage :
       canonical_lineage[n] \in Block /\ Number[canonical_lineage[n]] = n
  /\ canonical_lineage[Number[point]] = point
  /\ \A n \in DOMAIN canonical_lineage :
       n # Number[point] => Parent[canonical_lineage[n + 1]] = canonical_lineage[n]

\* Each block of a sequence is the parent of the next, one height below it.
Linked(bs) ==
  /\ \A i \in 1..(Len(bs) - 1) : Parent[bs[i + 1]] = bs[i]
  /\ \A i \in 1..Len(bs) : Number[bs[i]] = Number[bs[1]] + (i - 1)

\* What the parent walk has found so far, and what it hands to the delivery.
WalkInv ==
  /\ control = "walk" =>
       /\ delivery.lineage # <<>>
       /\ Linked(delivery.lineage)
       /\ \A i \in 2..Len(delivery.lineage) : ~in_lineage(delivery.lineage[i])
  /\ control = "deliver" =>
       /\ Linked(delivery.lineage)
       /\ \A i \in 1..Len(delivery.lineage) : ~in_lineage(delivery.lineage[i])
       /\ delivery.lineage # <<>> => in_lineage(Parent[delivery.lineage[1]])

IInv == DeliveryTypeOK /\ LineageInv /\ WalkInv

\* The driver's lineage and the actor's point are left alone.
SamePath == UNCHANGED <<canonical_lineage, point>>

\* The driver starts with the genesis as its only delivered block.
LEMMA InitIInv == Init => IInv
<1> SUFFICES ASSUME Init PROVE IInv
  OBVIOUS
<1> USE TreeAssumption, ConfigAssumption
<1>1. DeliveryTypeOK
  BY DEF Init, DeliveryTypeOK, NoDelivery
<1>2. LineageInv
  <2>1. DOMAIN canonical_lineage = Number[Genesis]..Number[Genesis]
    BY DEF Init
  <2>2. Retention
    <3> SUFFICES \E lo \in Nat : /\ lo <= Number[Genesis]
                                 /\ Number[Genesis] - lo < Retained
                                 /\ DOMAIN canonical_lineage = lo..Number[Genesis]
      BY DEF Retention, Init
    <3> WITNESS Number[Genesis] \in Nat
    <3> QED
      BY <2>1
  <2> QED
    BY <2>2 DEF LineageInv, Init
<1>3. WalkInv
  BY DEF WalkInv, Init
<1> QED
  BY <1>1, <1>2, <1>3 DEF IInv

\* The blocks that become canonical are blocks of the tree.
LEMMA NewlyCanonicalType ==
  ASSUME NEW a \in Block, NEW b \in Block
  PROVE  NewlyCanonical(a, b) \in Seq(Block)
<1> USE TreeAssumption
<1> DEFINE s == Chain[a]
           common == Range(Chain[a]) \cap Range(Chain[b])
<1>1. s \in Seq(Block) /\ Chain[b] \in Seq(Block)
  OBVIOUS
<1>2. s \in Surjection(1..Len(s), Range(s))
  <2>1. DOMAIN s = 1..Len(s) /\ s = [i \in DOMAIN s |-> s[i]]
    BY <1>1
  <2>2. \A i \in DOMAIN s : s[i] \in Range(s)
    BY DEF Range
  <2>3. s \in [1..Len(s) -> Range(s)]
    BY <2>1, <2>2
  <2>4. \A t \in Range(s) : \E i \in 1..Len(s) : s[i] = t
    BY <2>1 DEF Range
  <2> QED
    BY <2>3, <2>4 DEF Surjection
<1>3. IsFiniteSet(1..Len(s))
  BY <1>1, FS_Interval
<1>4. IsFiniteSet(Range(s))
  BY <1>2, <1>3, FS_Surjection
<1>5. Cardinality(common) \in Nat
  BY <1>4, FS_Intersection, FS_CardinalityType
<1>6. 1 + Cardinality(common) \in Nat \ {0} /\ Len(Chain[b]) \in Nat
  BY <1>1, <1>5
<1>7. Len(Chain[b]) <= Len(Chain[b])
  BY <1>6
<1>8. SubSeq(Chain[b], 1 + Cardinality(common), Len(Chain[b])) \in Seq(Block)
  BY <1>1, <1>6, <1>7, SubSeqType, Zenon
<1> QED
  BY <1>8 DEF NewlyCanonical

-----------------------------------------------------------------------------
(* Steps that leave the lineage and the point alone. *)

\* A step that leaves the published point and the lineage alone keeps LineageInv.
LEMMA SamePathLineage ==
  ASSUME LineageInv, SamePath
  PROVE  LineageInv'
BY DEF LineageInv, Retention, SamePath

\* A step that leaves the delivery path alone keeps WalkInv.
LEMMA SamePathIdle ==
  ASSUME LineageInv, SamePath, DeliveryTypeOK', control' \in {"idle", "drain", "failed"}
  PROVE  IInv'
BY SamePathLineage DEF IInv, WalkInv

\* Neither the lineage, nor the point, nor the delivery under way changes.
LEMMA SameDelivery ==
  ASSUME IInv, SamePath, DeliveryTypeOK', UNCHANGED <<delivery, control>>
  PROVE  IInv'
<1>1. LineageInv'
  BY SamePathLineage DEF IInv
<1>2. WalkInv'
  BY DEF IInv, WalkInv, in_lineage, Linked, SamePath
<1> QED
  BY <1>1, <1>2 DEF IInv

\* The node moving its head touches only what is in flight.
LEMMA SwitchHeadInv ==
  ASSUME IInv, NEW b \in Block, SwitchHead(b)
  PROVE  IInv'
<1> DEFINE new == NewlyCanonical(node_head, b)
<1>1. node_head \in Block /\ headers \in Seq(Block)
  BY DEF IInv, DeliveryTypeOK
<1>2. new \in Seq(Block)
  BY <1>1, NewlyCanonicalType
<1>3. PICK first \in 1..(IF SkipsHeaders THEN Len(new) ELSE 1) :
        headers' = headers \o SubSeq(new, first, Len(new))
  BY DEF SwitchHead
<1>4. first \in Nat \ {0} /\ Len(new) \in Nat /\ Len(new) <= Len(new)
  <2>1. Len(new) \in Nat
    BY <1>2
  <2> HIDE DEF new
  <2> QED
    BY <2>1
<1>5. SubSeq(new, first, Len(new)) \in Seq(Block)
  BY <1>2, <1>4, SubSeqType, Zenon
<1>6. headers' \in Seq(Block)
  BY <1>1, <1>3, <1>5
<1>7. DeliveryTypeOK'
  BY <1>6 DEF SwitchHead, IInv, DeliveryTypeOK, assembly
<1> QED
  BY <1>7, SameDelivery DEF SwitchHead, SamePath

\* Every header that handle_batch leaves pending is a block.
LEMMA InsertPendingType ==
  ASSUME DeliveryTypeOK, NEW hs \in Seq(Block)
  PROVE  /\ DOMAIN insert_pending(hs) \subseteq Nat
         /\ \A n \in DOMAIN insert_pending(hs) : insert_pending(hs)[n] \in Block
<1> USE TreeAssumption
<1> DEFINE numbers == {Number[h] : h \in Range(hs)}
           at(n) == {i \in 1..Len(hs) : Number[hs[i]] = n}
           last(n) == hs[Max(at(n))]
<1>1. Len(hs) \in Nat /\ DOMAIN hs = 1..Len(hs) /\ \A i \in 1..Len(hs) : hs[i] \in Block
  OBVIOUS
<1>2. \A h \in Range(hs) : h \in Block
  BY <1>1 DEF Range
<1>3. numbers \subseteq Nat
  BY <1>2
<1>4. \A n \in numbers : last(n) \in Block
  <2> TAKE n \in numbers
  <2>1. at(n) # {}
    BY <1>1 DEF Range
  <2>2. Max(at(n)) \in at(n)
    BY <1>1, <2>1, MaxBounded, at(n) \subseteq 1..Len(hs), Zenon
  <2> QED
    BY <1>1, <2>2
<1>5. insert_pending(hs) = [n \in DOMAIN pending_headers \cup numbers |->
                              IF n \in numbers THEN last(n) ELSE pending_headers[n]]
  BY Zenon DEF insert_pending
<1> HIDE DEF numbers, last
<1>6. DOMAIN insert_pending(hs) = DOMAIN pending_headers \cup numbers
  BY <1>5
<1>7. \A n \in DOMAIN insert_pending(hs) :
        insert_pending(hs)[n] = IF n \in numbers THEN last(n) ELSE pending_headers[n]
  BY <1>5
<1> QED
  BY <1>3, <1>4, <1>6, <1>7 DEF DeliveryTypeOK

\* handle_batch buffers and queues; nothing is delivered.
LEMMA ReadBatchInv ==
  ASSUME IInv, ReadBatch
  PROVE  IInv'
<1>1. PICK nh \in 0..Min({MaxBatch, Len(headers)}),
             nl \in [Stream -> 0..MaxBatch],
             covered \in {None} \cup {Number[b] : b \in Attestable} :
        handle_batch(nh, nl, covered)
  BY Zenon DEF ReadBatch
<1> DEFINE hs == SubSeq(headers, 1, nh)
<1>2. headers \in Seq(Block) /\ Len(headers) \in Nat
  BY DEF IInv, DeliveryTypeOK
<1>3. nh \in Nat /\ nh <= Len(headers)
  <2>1. {MaxBatch, Len(headers)} \subseteq Nat
    BY <1>2, ConfigAssumption
  <2>2. Min({MaxBatch, Len(headers)}) \in Nat /\ Min({MaxBatch, Len(headers)}) <= Len(headers)
    BY <2>1, MinNat
  <2> QED
    BY <1>2, <2>2
<1>4. hs \in Seq(Block)
  BY <1>2, <1>3, SubSeqType
<1>5. headers' \in Seq(Block)
  <2>1. headers' = SubSeq(headers, nh + 1, Len(headers))
    BY <1>1 DEF handle_batch
  <2>2. nh + 1 \in Nat \ {0} /\ Len(headers) <= Len(headers)
    BY <1>2, <1>3
  <2> QED
    BY <1>2, <2>1, <2>2, SubSeqType
<1>6. \/ UNCHANGED pending_headers /\ batch_headers' = hs
      \/ UNCHANGED batch_headers /\ pending_headers' = insert_pending(hs)
  BY <1>1 DEF handle_batch
<1>7. UNCHANGED <<node_head, canonical_lineage, delivery, point>> /\ control' = "drain"
  BY <1>1 DEF handle_batch
<1>8. /\ DOMAIN insert_pending(hs) \subseteq Nat
      /\ \A n \in DOMAIN insert_pending(hs) : insert_pending(hs)[n] \in Block
  BY <1>4, InsertPendingType DEF IInv
<1>9. DeliveryTypeOK'
  <2> HIDE DEF hs
  <2> QED
    BY <1>4, <1>5, <1>6, <1>7, <1>8 DEF IInv, DeliveryTypeOK
<1> QED
  BY <1>7, <1>9, SamePathIdle DEF SamePath, IInv

\* A straggler window ending only starts a drain.
LEMMA SealDeadlineInv ==
  ASSUME IInv, NEW n, seal_deadline(n)
  PROVE  IInv'
<1>1. DeliveryTypeOK'
  BY DEF seal_deadline, IInv, DeliveryTypeOK, external
<1> QED
  BY <1>1, SamePathIdle DEF seal_deadline, SamePath, IInv

-----------------------------------------------------------------------------
(* Starting a delivery. *)

\* The types of what waits to be delivered.
QueueTypeOK ==
  /\ node_head \in Block
  /\ headers \in Seq(Block)
  /\ DOMAIN pending_headers \subseteq Nat
  /\ \A n \in DOMAIN pending_headers : pending_headers[n] \in Block
  /\ batch_headers \in Seq(Block)

\* Starting the parent walk establishes WalkInv for the one-block walk.
LEMMA DeliverThroughInv ==
  ASSUME IInv, NEW h \in Block, NEW sealable \in BOOLEAN, control = "drain",
         deliver_through_sealed(h, sealable), SamePath, QueueTypeOK'
  PROVE  IInv'
<1>1. CASE h = point
  <2>1. UNCHANGED <<delivery, control>>
    BY <1>1 DEF deliver_through_sealed
  <2>2. DeliveryTypeOK'
    BY <2>1 DEF IInv, DeliveryTypeOK, QueueTypeOK, SamePath
  <2> QED
    BY <2>1, <2>2, SameDelivery
<1>2. CASE h # point
  <2>1. /\ delivery' = [lineage |-> <<h>>, straight_line |-> straight_line(h),
                        sealable |-> sealable]
        /\ control' = "walk"
    BY <1>2 DEF deliver_through_sealed
  <2>2. straight_line(h) \in BOOLEAN
    BY DEF straight_line
  <2>3. <<h>> \in Seq(Block) /\ Len(<<h>>) = 1
    OBVIOUS
  <2>4. DeliveryTypeOK'
    BY <2>1, <2>2, <2>3 DEF IInv, DeliveryTypeOK, QueueTypeOK, SamePath
  <2>5. WalkInv'
    <3>1. Linked(<<h>>)
      BY <2>3, TreeAssumption DEF Linked
    <3> QED
      BY <2>1, <2>3, <3>1 DEF WalkInv, Linked
  <2> QED
    BY <2>4, <2>5, SamePathLineage DEF IInv
<1> QED
  BY <1>1, <1>2

\* An iteration of drain_sealable stops, or starts a walk from the oldest header.
LEMMA DrainSealableInv ==
  ASSUME IInv, drain_sealable
  PROVE  IInv'
<1> DEFINE n == Min(DOMAIN pending_headers)
           h == pending_headers[n]
<1>1. SamePath /\ UNCHANGED <<node_head, headers, batch_headers>>
  BY DEF drain_sealable, SamePath, external
<1>2. CASE control' = "idle" /\ UNCHANGED <<assembly, delivery>>
  <2>1. DeliveryTypeOK'
    BY <1>1, <1>2 DEF IInv, DeliveryTypeOK, assembly, SamePath
  <2> QED
    BY <1>1, <1>2, <2>1, SamePathIdle DEF IInv
<1>3. CASE /\ DOMAIN pending_headers # {}
           /\ pending_headers' = Restrict(pending_headers, DOMAIN pending_headers \ {n})
           /\ deliver_through_sealed(h, subscription_seal_reason(h))
  <2>1. n \in DOMAIN pending_headers
    BY <1>3, MinNat DEF IInv, DeliveryTypeOK
  <2>2. h \in Block
    BY <2>1 DEF IInv, DeliveryTypeOK
  <2>3. subscription_seal_reason(h) \in BOOLEAN
    BY DEF subscription_seal_reason
  <2>4. QueueTypeOK'
    BY <1>1, <1>3 DEF IInv, DeliveryTypeOK, QueueTypeOK, Restrict
  <2>5. control = "drain"
    BY DEF drain_sealable
  <2> QED
    BY <1>1, <1>3, <2>2, <2>3, <2>4, <2>5, DeliverThroughInv
<1> QED
  BY <1>2, <1>3, Zenon DEF drain_sealable

\* The header the stable sort puts first is a header of the batch.
LEMMA LowestHeaderType ==
  ASSUME batch_headers \in Seq(Block), batch_headers # <<>>
  PROVE  lowest_header \in 1..Len(batch_headers)
<1> USE TreeAssumption
<1> DEFINE I == 1..Len(batch_headers)
           heights == {Number[batch_headers[i]] : i \in I}
           lowest == {i \in I : Number[batch_headers[i]] = Min(heights)}
<1>1. Len(batch_headers) \in Nat /\ 1 \in I /\ \A i \in I : batch_headers[i] \in Block
  OBVIOUS
<1>2. heights \subseteq Nat /\ heights # {}
  <2>1. \A i \in I : Number[batch_headers[i]] \in Nat
    BY <1>1
  <2>2. Number[batch_headers[1]] \in heights
    BY <1>1, Zenon
  <2> QED
    BY <2>1, <2>2, Zenon
<1>3. Min(heights) \in heights
  BY <1>2, MinNat, Zenon
<1>4. lowest \subseteq Nat /\ lowest # {}
  <2>1. I \subseteq Nat
    BY <1>1
  <2>2. PICK i \in I : Min(heights) = Number[batch_headers[i]]
    BY <1>3, Zenon
  <2>3. i \in lowest
    BY <2>2, Zenon
  <2> QED
    BY <2>1, <2>3, Zenon
<1>5. Min(lowest) \in lowest
  BY <1>4, MinNat, Zenon
<1> QED
  BY <1>5, Zenon DEF lowest_header

\* Reconcile mode starts a walk from the lowest header of the batch.
LEMMA NextBatchHeaderInv ==
  ASSUME IInv, next_batch_header
  PROVE  IInv'
<1>1. /\ SamePath /\ UNCHANGED <<node_head, headers, pending_headers>>
      /\ control = "drain"
  BY DEF next_batch_header, SamePath, external, assembly
<1>2. CASE batch_headers = <<>>
  <2>1. control' = "idle" /\ UNCHANGED <<delivery, batch_headers>>
    BY <1>2 DEF next_batch_header
  <2>2. DeliveryTypeOK'
    BY <1>1, <2>1 DEF IInv, DeliveryTypeOK, SamePath
  <2> QED
    BY <1>1, <2>1, <2>2, SamePathIdle DEF IInv
<1>3. CASE batch_headers # <<>>
  <2> DEFINE i == lowest_header
  <2>1. /\ batch_headers' = RemoveAt(batch_headers, i)
        /\ deliver_through_sealed(batch_headers[i], FALSE)
    BY <1>3 DEF next_batch_header
  <2>2. batch_headers \in Seq(Block) /\ i \in 1..Len(batch_headers)
    BY <1>3, LowestHeaderType DEF IInv, DeliveryTypeOK
  <2> HIDE DEF i
  <2>3. batch_headers[i] \in Block
    BY <2>2
  <2>4. SubSeq(batch_headers, 1, i - 1) \in Seq(Block)
    BY <2>2, SubSeqType, i - 1 \in Nat, i - 1 <= Len(batch_headers), 1 \in Nat \ {0}
  <2>5. SubSeq(batch_headers, i + 1, Len(batch_headers)) \in Seq(Block)
    BY <2>2, SubSeqType, i + 1 \in Nat \ {0}, Len(batch_headers) <= Len(batch_headers)
  <2>6. batch_headers' \in Seq(Block)
    BY <2>1, <2>4, <2>5 DEF RemoveAt
  <2>7. QueueTypeOK'
    BY <1>1, <2>6 DEF IInv, DeliveryTypeOK, QueueTypeOK
  <2> QED
    BY <1>1, <2>1, <2>3, <2>7, DeliverThroughInv
<1> QED
  BY <1>2, <1>3

-----------------------------------------------------------------------------
(* The parent walk. *)

\* While the genesis is not below the retained interval, it is retained.
LEMMA GenesisRetained ==
  ASSUME LineageInv, point \in Block, ~in_lineage(Genesis)
  PROVE  Number[Genesis] < oldest_retained
<1> USE TreeAssumption
<1>1. PICK lo \in Nat : lo <= Number[point] /\ DOMAIN canonical_lineage = lo..Number[point]
  BY DEF LineageInv, Retention
<1>2. oldest_retained = lo
  BY <1>1, MinInterval DEF oldest_retained
<1>3. Number[Genesis] <= Number[point]
  OBVIOUS
<1>4. ASSUME Number[Genesis] >= lo PROVE FALSE
  <2>1. Number[Genesis] \in DOMAIN canonical_lineage
    BY <1>1, <1>3, <1>4
  <2>2. /\ canonical_lineage[Number[Genesis]] \in Block
        /\ Number[canonical_lineage[Number[Genesis]]] = Number[Genesis]
    BY <2>1 DEF LineageInv
  <2>3. canonical_lineage[Number[Genesis]] = Genesis
    BY <2>2
  <2> QED
    BY <2>1, <2>3 DEF in_lineage
<1> QED
  BY <1>2, <1>4

\* The rest of a linked sequence is linked and continues its first block.
LEMMA LinkedTail ==
  ASSUME NEW s \in Seq(Block), s # <<>>, Linked(s)
  PROVE  /\ Tail(s) \in Seq(Block) /\ Len(Tail(s)) = Len(s) - 1
         /\ \A i \in 1..Len(Tail(s)) : i + 1 \in 2..Len(s) /\ Tail(s)[i] = s[i + 1]
         /\ Linked(Tail(s))
         /\ Tail(s) # <<>> => Parent[Tail(s)[1]] = s[1]
         /\ \A i \in 1..Len(Tail(s)) : Number[Tail(s)[i]] > Number[s[1]]
<1> DEFINE t == Tail(s)
<1>1. t \in Seq(Block) /\ Len(t) = Len(s) - 1 /\ Len(s) \in Nat
  OBVIOUS
<1>2. \A i \in 1..Len(t) : t[i] = s[i + 1]
  OBVIOUS
<1> HIDE DEF t
<1>3. \A i \in 1..Len(t) : i + 1 \in 2..Len(s)
  BY <1>1
<1>4. \A i \in 1..(Len(t) - 1) : Parent[t[i + 1]] = t[i]
  <2> SUFFICES ASSUME NEW i \in 1..(Len(t) - 1) PROVE Parent[t[i + 1]] = t[i]
    OBVIOUS
  <2>1. i \in 1..Len(t) /\ i + 1 \in 1..Len(t) /\ i + 1 \in 1..(Len(s) - 1)
    BY <1>1
  <2>2. t[i] = s[i + 1] /\ t[i + 1] = s[(i + 1) + 1]
    BY <1>2, <2>1
  <2> QED
    BY <2>1, <2>2 DEF Linked
<1>5. Number[s[1]] \in Nat
  BY TreeAssumption
<1>6. \A i \in 1..Len(t) : Number[t[i]] = Number[s[1]] + i
  <2> SUFFICES ASSUME NEW i \in 1..Len(t) PROVE Number[t[i]] = Number[s[1]] + i
    OBVIOUS
  <2>1. i + 1 \in 1..Len(s) /\ (i + 1) - 1 = i /\ t[i] = s[i + 1]
    BY <1>1, <1>2
  <2>2. Number[s[i + 1]] = Number[s[1]] + ((i + 1) - 1)
    BY <2>1 DEF Linked
  <2> QED
    BY <2>1, <2>2
<1>7. \A i \in 1..Len(t) : Number[t[i]] = Number[t[1]] + (i - 1)
  <2> SUFFICES ASSUME NEW i \in 1..Len(t) PROVE Number[t[i]] = Number[t[1]] + (i - 1)
    OBVIOUS
  <2>1. 1 \in 1..Len(t)
    BY <1>1
  <2>2. Number[t[1]] = Number[s[1]] + 1 /\ Number[t[i]] = Number[s[1]] + i
    BY <1>6, <2>1
  <2> QED
    BY <1>5, <2>2
<1>8. \A i \in 1..Len(t) : Number[t[i]] > Number[s[1]]
  BY <1>5, <1>6
<1>9. t # <<>> => Parent[t[1]] = s[1]
  <2> SUFFICES ASSUME t # <<>> PROVE Parent[t[1]] = s[1]
    OBVIOUS
  <2>1. 1 \in 1..Len(t) /\ 1 \in 1..(Len(s) - 1)
    BY <1>1
  <2>2. t[1] = s[1 + 1]
    BY <1>2, <2>1
  <2> QED
    BY <2>1, <2>2 DEF Linked
<1> QED
  BY <1>1, <1>2, <1>3, <1>4, <1>7, <1>8, <1>9 DEF t, Linked

\* Prepending the parent of the first block keeps a sequence linked.
LEMMA LinkedCons ==
  ASSUME NEW s \in Seq(Block), s # <<>>, Linked(s), NEW p \in Block,
         p = Parent[s[1]], Number[s[1]] = Number[p] + 1
  PROVE  /\ <<p>> \o s \in Seq(Block) /\ <<p>> \o s # <<>>
         /\ (<<p>> \o s)[1] = p
         /\ \A i \in 2..Len(<<p>> \o s) : i - 1 \in 1..Len(s) /\ (<<p>> \o s)[i] = s[i - 1]
         /\ Linked(<<p>> \o s)
<1> DEFINE t == <<p>> \o s
<1>1. /\ t \in Seq(Block) /\ t # <<>> /\ Len(t) = Len(s) + 1 /\ Len(s) \in Nat
      /\ t[1] = p
  OBVIOUS
<1>2. \A i \in 2..Len(t) : t[i] = s[i - 1]
  OBVIOUS
<1> HIDE DEF t
<1>3. \A i \in 2..Len(t) : i - 1 \in 1..Len(s)
  BY <1>1
<1>4. Number[p] \in Nat
  BY TreeAssumption
<1>5. \A i \in 1..(Len(t) - 1) : Parent[t[i + 1]] = t[i]
  <2> SUFFICES ASSUME NEW i \in 1..(Len(t) - 1) PROVE Parent[t[i + 1]] = t[i]
    OBVIOUS
  <2>1. i + 1 \in 2..Len(t) /\ (i + 1) - 1 = i
    BY <1>1
  <2>2. t[i + 1] = s[i]
    BY <1>2, <2>1
  <2>3. CASE i = 1
    BY <1>1, <2>2, <2>3
  <2>4. CASE i # 1
    <3>1. i \in 2..Len(t) /\ i - 1 \in 1..(Len(s) - 1) /\ (i - 1) + 1 = i
      BY <1>1, <2>4
    <3>2. t[i] = s[i - 1]
      BY <1>2, <3>1
    <3>3. Parent[s[(i - 1) + 1]] = s[i - 1]
      BY <3>1 DEF Linked
    <3> QED
      BY <2>2, <3>1, <3>2, <3>3
  <2> QED
    BY <2>3, <2>4
<1>6. \A i \in 1..Len(t) : Number[t[i]] = Number[t[1]] + (i - 1)
  <2> SUFFICES ASSUME NEW i \in 1..Len(t) PROVE Number[t[i]] = Number[t[1]] + (i - 1)
    OBVIOUS
  <2>1. CASE i = 1
    BY <1>1, <1>4, <2>1
  <2>2. CASE i # 1
    <3>1. i \in 2..Len(t) /\ i - 1 \in 1..Len(s)
      BY <1>1, <2>2
    <3>2. t[i] = s[i - 1] /\ Number[s[i - 1]] = Number[s[1]] + ((i - 1) - 1)
      BY <1>2, <3>1 DEF Linked
    <3> QED
      BY <1>1, <1>4, <3>1, <3>2
  <2> QED
    BY <2>1, <2>2
<1> QED
  BY <1>1, <1>2, <1>3, <1>5, <1>6 DEF t, Linked

\* One iteration of the parent walk keeps the walked blocks parent-linked.
LEMMA DeliveryLineageInv ==
  ASSUME IInv, delivery_lineage
  PROVE  IInv'
<1> USE TreeAssumption
<1> DEFINE lin == delivery.lineage
           current == Head(lin)
           parent == Parent[current]
<1>1. /\ control = "walk" /\ SamePath
      /\ UNCHANGED <<node_head, headers, batch_headers>>
  BY DEF delivery_lineage, SamePath, external
<1>2. /\ lin \in Seq(Block) /\ lin # <<>> /\ Linked(lin)
      /\ \A i \in 2..Len(lin) : ~in_lineage(lin[i])
  BY <1>1 DEF IInv, DeliveryTypeOK, WalkInv
<1>3. current = lin[1] /\ current \in Block /\ parent \in Block
  BY <1>2
<1>4. /\ DOMAIN pending_headers' \subseteq Nat
      /\ \A n \in DOMAIN pending_headers' : pending_headers'[n] \in Block
  <2>1. UNCHANGED pending_headers \/ pending_headers' = << >>
    BY DEF delivery_lineage, assembly, reset_subscription_assembly
  <2> QED
    BY <2>1 DEF IInv, DeliveryTypeOK
<1>5. ASSUME NEW s \in Seq(Block), delivery' = [delivery EXCEPT !.lineage = s],
             control' \in {"walk", "deliver"}
      PROVE  DeliveryTypeOK' /\ delivery'.lineage = s
  BY <1>1, <1>4, <1>5 DEF IInv, DeliveryTypeOK, SamePath
<1>6. LineageInv'
  BY <1>1, SamePathLineage DEF IInv
<1>7. CASE /\ in_lineage(current) /\ control' = "deliver"
           /\ delivery' = [delivery EXCEPT !.lineage = Tail(lin)]
  <2>1. Tail(lin) \in Seq(Block) /\ Linked(Tail(lin))
    BY <1>2, LinkedTail, Zenon
  <2>2. \A i \in 1..Len(Tail(lin)) : i + 1 \in 2..Len(lin) /\ Tail(lin)[i] = lin[i + 1]
    BY <1>2, LinkedTail, Zenon
  <2>4. \A i \in 1..Len(Tail(lin)) : ~in_lineage(Tail(lin)[i])
    BY <1>2, <2>2, Zenon
  <2>5. Tail(lin) # <<>> => Parent[Tail(lin)[1]] = current
    BY <1>2, <1>3, LinkedTail, Zenon
  <2>6. DeliveryTypeOK' /\ delivery'.lineage = Tail(lin)
    BY <1>5, <1>7, <2>1
  <2>8. WalkInv'
    BY <1>1, <1>7, <2>1, <2>4, <2>5, <2>6 DEF WalkInv, in_lineage, SamePath, Linked
  <2> QED
    BY <1>6, <2>6, <2>8 DEF IInv
<1>8. CASE /\ ~in_lineage(current) /\ in_lineage(parent) /\ control' = "deliver"
           /\ delivery' = [delivery EXCEPT !.lineage = lin]
  <2>1. DeliveryTypeOK' /\ delivery'.lineage = lin
    BY <1>2, <1>5, <1>8
  <2>2. \A i \in 1..Len(lin) : ~in_lineage(lin[i])
    <3>1. \A i \in 1..Len(lin) : i = 1 \/ i \in 2..Len(lin)
      BY <1>2
    <3> QED
      BY <1>2, <1>3, <1>8, <3>1, Zenon
  <2>3. WalkInv'
    BY <1>1, <1>2, <1>3, <1>8, <2>1, <2>2 DEF WalkInv, in_lineage, SamePath, Linked
  <2> QED
    BY <1>6, <2>1, <2>3 DEF IInv
<1>9. CASE /\ ~in_lineage(current) /\ ~(Number[parent] < oldest_retained)
           /\ ~in_lineage(parent) /\ UNCHANGED control
           /\ delivery' = [delivery EXCEPT !.lineage = <<parent>> \o lin]
  <2> DEFINE s == <<parent>> \o lin
  <2>1. current # Genesis
    BY <1>3, <1>9, GenesisRetained DEF IInv, DeliveryTypeOK
  <2>2. Number[current] = Number[parent] + 1
    BY <1>3, <2>1
  <2>3. /\ s \in Seq(Block) /\ s # <<>>
        /\ \A i \in 2..Len(s) : i - 1 \in 1..Len(lin) /\ s[i] = lin[i - 1]
        /\ Linked(s)
    BY <1>2, <1>3, <2>2, LinkedCons, Zenon
  <2>4. \A j \in 1..Len(lin) : ~in_lineage(lin[j])
    <3>1. \A j \in 1..Len(lin) : j = 1 \/ j \in 2..Len(lin)
      BY <1>2
    <3> QED
      BY <1>2, <1>3, <1>9, <3>1, Zenon
  <2>5. \A i \in 2..Len(s) : ~in_lineage(s[i])
    BY <2>3, <2>4, Zenon
  <2>6. DeliveryTypeOK' /\ delivery'.lineage = s
    BY <1>1, <1>5, <1>9, <2>3
  <2>7. WalkInv'
    BY <1>1, <1>9, <2>3, <2>5, <2>6 DEF WalkInv, in_lineage, SamePath, Linked
  <2> QED
    BY <1>6, <2>6, <2>7 DEF IInv
<1>10. CASE control' = "failed" /\ UNCHANGED delivery
  <2>1. DeliveryTypeOK'
    BY <1>1, <1>4, <1>10 DEF IInv, DeliveryTypeOK, SamePath
  <2> QED
    BY <1>1, <1>10, <2>1, SamePathIdle DEF IInv
<1> QED
  BY <1>7, <1>8, <1>9, <1>10, Zenon DEF delivery_lineage

-----------------------------------------------------------------------------
(* The delivery of one block. *)

\* Cutting an interval below a new end and dropping its least element when it
\* is too long leaves an interval short enough.
LEMMA ExtendInterval ==
  ASSUME NEW lo \in Nat, NEW bn \in Nat, NEW R \in Nat \ {0},
         lo < bn, bn - lo <= R
  PROVE  \E lw \in Nat :
           /\ lo <= lw /\ lw <= bn /\ bn - lw < R
           /\ (IF Cardinality(lo..bn) > R THEN (lo..bn) \ {Min(lo..bn)} ELSE lo..bn) = lw..bn
<1>2. Cardinality(lo..bn) = bn - lo + 1
  BY FS_Interval
<1>3. Min(lo..bn) = lo
  BY MinInterval
<1>4. CASE bn - lo + 1 > R
  <2>1. (lo..bn) \ {lo} = (lo + 1)..bn
    OBVIOUS
  <2>2. lo + 1 \in Nat /\ lo <= lo + 1 /\ lo + 1 <= bn /\ bn - (lo + 1) < R
    OBVIOUS
  <2> QED
    BY <1>2, <1>3, <1>4, <2>1, <2>2
<1>5. CASE ~(bn - lo + 1 > R)
  <2>1. bn - lo < R /\ lo <= lo /\ lo <= bn
    BY <1>5
  <2>2. (IF Cardinality(lo..bn) > R THEN (lo..bn) \ {Min(lo..bn)} ELSE lo..bn) = lo..bn
    BY <1>2, <1>5
  <2> QED
    BY <2>1, <2>2
<1> QED
  BY <1>4, <1>5

\* A child of a retained block becomes the end of the retained interval.
LEMMA RecordInv ==
  ASSUME LineageInv, point \in Block, NEW b \in Block, ~in_lineage(b),
         in_lineage(Parent[b]), point' = b, canonical_lineage' = record_canonical_block(b)
  PROVE  /\ LineageInv'
         /\ in_lineage(b)'
         /\ \A c \in Block : Number[c] > Number[b] => ~in_lineage(c)'
<1>1. b # Genesis
  BY TreeAssumption
<1>2. PICK bn \in Nat, np \in Nat, pn \in Nat :
        Number[b] = bn /\ Number[point] = np /\ Number[Parent[b]] = pn /\ bn = pn + 1
  BY <1>1, TreeAssumption
<1>3. PICK lo \in Nat : lo <= np /\ np - lo < Retained /\ DOMAIN canonical_lineage = lo..np
  BY <1>2 DEF LineageInv, Retention
<1>4. pn \in lo..np /\ canonical_lineage[pn] = Parent[b]
  BY <1>2, <1>3 DEF in_lineage
<1>5. lo < bn /\ bn <= np + 1
  BY <1>2, <1>4
<1> DEFINE kept == {n \in DOMAIN canonical_lineage : n < bn} \cup {bn}
           retained == IF Cardinality(kept) > Retained THEN kept \ {Min(kept)} ELSE kept
<1>6. canonical_lineage' = [n \in retained |-> IF n = bn THEN b ELSE canonical_lineage[n]]
  BY <1>2, Zenon DEF record_canonical_block
<1>7. PICK lw \in Nat : lo <= lw /\ lw <= bn /\ bn - lw < Retained /\ retained = lw..bn
  <2>1. kept = lo..bn
    BY <1>3, <1>5
  <2>2. Retained \in Nat \ {0}
    BY ConfigAssumption
  <2>3. bn - lo <= Retained
    BY <1>3, <1>5, <2>2
  <2>4. \E lw \in Nat :
          /\ lo <= lw /\ lw <= bn /\ bn - lw < Retained
          /\ (IF Cardinality(lo..bn) > Retained THEN (lo..bn) \ {Min(lo..bn)} ELSE lo..bn)
               = lw..bn
    BY <1>5, <2>2, <2>3, ExtendInterval, Zenon
  <2>5. retained = IF Cardinality(lo..bn) > Retained THEN (lo..bn) \ {Min(lo..bn)} ELSE lo..bn
    BY <2>1, Zenon
  <2> QED
    BY <2>4, <2>5, Zenon
<1> HIDE DEF retained
<1>8. DOMAIN canonical_lineage' = lw..bn
  BY <1>6, <1>7
<1>9. bn \in lw..bn /\ canonical_lineage'[bn] = b
  BY <1>6, <1>7
<1>10. \A n \in lw..bn : n # bn => canonical_lineage'[n] = canonical_lineage[n]
  BY <1>6, <1>7
<1>11. \A n \in lw..bn : n # bn => n \in lo..np
  BY <1>5, <1>7
<1>12. Number[point'] = bn
  BY <1>2
<1>13. Retention'
  BY <1>7, <1>8, <1>12 DEF Retention
<1>14. \A n \in DOMAIN canonical_lineage' :
         canonical_lineage'[n] \in Block /\ Number[canonical_lineage'[n]] = n
  <2> SUFFICES ASSUME NEW n \in lw..bn
               PROVE  canonical_lineage'[n] \in Block /\ Number[canonical_lineage'[n]] = n
    BY <1>8
  <2>1. CASE n = bn
    BY <1>2, <1>9, <2>1
  <2>2. CASE n # bn
    BY <1>3, <1>10, <1>11, <2>2 DEF LineageInv
  <2> QED
    BY <2>1, <2>2
<1>15. \A n \in DOMAIN canonical_lineage' :
         n # bn => Parent[canonical_lineage'[n + 1]] = canonical_lineage'[n]
  <2> SUFFICES ASSUME NEW n \in lw..bn, n # bn
               PROVE  Parent[canonical_lineage'[n + 1]] = canonical_lineage'[n]
    BY <1>8
  <2>1. n + 1 \in lw..bn /\ n \in lo..np
    BY <1>7, <1>11
  <2>2. canonical_lineage'[n] = canonical_lineage[n]
    BY <1>10
  <2>3. CASE n + 1 = bn
    <3>1. n = pn
      BY <1>2, <2>1, <2>3
    <3> QED
      BY <1>4, <1>9, <2>2, <2>3, <3>1
  <2>4. CASE n + 1 # bn
    <3>1. canonical_lineage'[n + 1] = canonical_lineage[n + 1]
      BY <1>10, <2>1, <2>4
    <3>2. n # np
      BY <1>5, <2>1, <2>4
    <3> QED
      BY <1>2, <1>3, <2>1, <2>2, <3>1, <3>2 DEF LineageInv
  <2> QED
    BY <2>3, <2>4
<1>16. LineageInv'
  BY <1>9, <1>12, <1>13, <1>14, <1>15 DEF LineageInv
<1>17. in_lineage(b)'
  BY <1>2, <1>8, <1>9 DEF in_lineage
<1>18. \A c \in Block : Number[c] > Number[b] => ~in_lineage(c)'
  <2> SUFFICES ASSUME NEW c \in Block, Number[c] > bn PROVE Number[c] \notin lw..bn
    BY <1>2, <1>8 DEF in_lineage
  <2>1. Number[c] \in Nat
    BY TreeAssumption
  <2> QED
    BY <2>1
<1> QED
  BY <1>16, <1>17, <1>18

\* A delivered block extends the lineage it was walked back to.
LEMMA DeliverBlockInv ==
  ASSUME IInv, deliver_block
  PROVE  /\ IInv'
         /\ Parent[point'] \in Range(canonical_lineage)
         /\ point' \notin Range(canonical_lineage)
<1>1. PICK lin \in Seq(Block) :
        /\ lin = delivery.lineage /\ lin # <<>> /\ Linked(lin)
        /\ \A i \in 1..Len(lin) : ~in_lineage(lin[i])
        /\ in_lineage(Parent[lin[1]])
  BY DEF deliver_block, IInv, DeliveryTypeOK, WalkInv
<1>2. PICK b \in Block : b = Head(lin) /\ b = lin[1] /\ ~in_lineage(b) /\ in_lineage(Parent[b])
  <2>1. 1 \in 1..Len(lin) /\ Head(lin) = lin[1] /\ lin[1] \in Block
    BY <1>1
  <2> QED
    BY <1>1, <2>1
<1>3. PICK t \in Seq(Block) :
        /\ t = Tail(lin) /\ Linked(t)
        /\ t # <<>> => Parent[t[1]] = b
        /\ \A i \in 1..Len(t) : Number[t[i]] > Number[b]
  <2>1. /\ Tail(lin) \in Seq(Block) /\ Linked(Tail(lin))
        /\ Tail(lin) # <<>> => Parent[Tail(lin)[1]] = lin[1]
        /\ \A i \in 1..Len(Tail(lin)) : Number[Tail(lin)[i]] > Number[lin[1]]
    BY <1>1, LinkedTail, Zenon
  <2> QED
    BY <1>2, <2>1, Zenon
<1>4. /\ point' = b
      /\ canonical_lineage' = record_canonical_block(b)
      /\ delivery' = [delivery EXCEPT !.lineage = t]
      /\ UNCHANGED <<node_head, headers, batch_headers, control>> /\ control = "deliver"
  BY <1>1, <1>2, <1>3, Zenon DEF deliver_block, external
<1>5. /\ LineageInv' /\ in_lineage(b)'
      /\ \A c \in Block : Number[c] > Number[b] => ~in_lineage(c)'
  BY <1>2, <1>4, RecordInv DEF IInv, DeliveryTypeOK
<1>6. /\ DOMAIN pending_headers' \subseteq Nat
      /\ \A n \in DOMAIN pending_headers' : pending_headers'[n] \in Block
  <2>1. pending_headers' = Restrict(pending_headers,
                                    {n \in DOMAIN pending_headers : n > Number[b]})
    BY <1>1, <1>2 DEF deliver_block, retire_buffered_logs_through
  <2> QED
    BY <2>1 DEF Restrict, IInv, DeliveryTypeOK
<1>7. DeliveryTypeOK' /\ delivery'.lineage = t
  BY <1>4, <1>6 DEF IInv, DeliveryTypeOK
<1>8. WalkInv'
  <2>1. \A i \in 1..Len(t) : t[i] \in Block
    OBVIOUS
  <2>2. \A i \in 1..Len(t) : ~(/\ Number[t[i]] \in DOMAIN canonical_lineage'
                               /\ canonical_lineage'[Number[t[i]]] = t[i])
    BY <1>3, <1>5, <2>1 DEF in_lineage
  <2>3. t # <<>> => /\ Number[Parent[t[1]]] \in DOMAIN canonical_lineage'
                    /\ canonical_lineage'[Number[Parent[t[1]]]] = Parent[t[1]]
    BY <1>3, <1>5 DEF in_lineage
  <2> QED
    BY <1>3, <1>4, <1>7, <2>2, <2>3 DEF WalkInv, in_lineage, Linked
<1>9. Parent[b] \in Range(canonical_lineage)
  BY <1>2 DEF in_lineage, Range
<1>10. b \notin Range(canonical_lineage)
  <2> SUFFICES ASSUME NEW n \in DOMAIN canonical_lineage, canonical_lineage[n] = b
               PROVE  FALSE
    BY DEF Range
  <2>1. Number[b] = n
    BY DEF IInv, LineageInv
  <2> QED
    BY <1>2, <2>1 DEF in_lineage
<1> QED
  BY <1>4, <1>5, <1>7, <1>8, <1>9, <1>10 DEF IInv

-----------------------------------------------------------------------------
(* The other steps, and the theorems. *)

\* The end of a delivery forgets the walk.
LEMMA FinishDeliveryInv ==
  ASSUME IInv, finish_delivery
  PROVE  IInv'
<1>1. DeliveryTypeOK'
  BY DEF finish_delivery, IInv, DeliveryTypeOK, NoDelivery, external, assembly
<1> QED
  BY <1>1, SamePathIdle DEF finish_delivery, SamePath, IInv

\* A failed driver keeps its lineage.
LEMMA DriverErrorInv ==
  ASSUME IInv, driver_error
  PROVE  IInv'
<1>1. DeliveryTypeOK'
  BY DEF driver_error, IInv, DeliveryTypeOK, external, assembly
<1> QED
  BY <1>1, SamePathIdle DEF driver_error, SamePath, IInv

\* A topology commit changes interests and streams only.
LEMMA TopologyInv ==
  ASSUME IInv, NEW s \in Stream, commit_add(s) \/ commit_remove(s)
  PROVE  IInv'
<1>1. /\ UNCHANGED <<node_head, headers, pending_headers, batch_headers>>
      /\ UNCHANGED <<delivery, control, canonical_lineage, point>>
  BY DEF commit_add, commit_remove, assembly
<1>2. DeliveryTypeOK'
  BY <1>1 DEF IInv, DeliveryTypeOK
<1> QED
  BY <1>1, <1>2, SameDelivery DEF SamePath

\* A stuttering step changes nothing.
LEMMA StutterInv ==
  ASSUME IInv, UNCHANGED vars
  PROVE  IInv'
<1>1. /\ UNCHANGED <<node_head, headers, pending_headers, batch_headers>>
      /\ UNCHANGED <<delivery, control, canonical_lineage, point>>
  BY DEF vars, external, assembly
<1>2. DeliveryTypeOK'
  BY <1>1 DEF IInv, DeliveryTypeOK
<1> QED
  BY <1>1, <1>2, SameDelivery DEF SamePath

\* Every step of the driver, the node and the actor keeps the invariant.
LEMMA NextIInv == IInv /\ [Next]_vars => IInv'
<1> SUFFICES ASSUME IInv, [Next]_vars PROVE IInv'
  OBVIOUS
<1>1. CASE \E b \in Block : SwitchHead(b)
  BY <1>1, SwitchHeadInv
<1>2. CASE ReadBatch
  BY <1>2, ReadBatchInv
<1>3. CASE \E b \in Block : seal_deadline(Number[b])
  BY <1>3, SealDeadlineInv
<1>4. CASE drain_sealable
  BY <1>4, DrainSealableInv
<1>5. CASE next_batch_header
  BY <1>5, NextBatchHeaderInv
<1>6. CASE delivery_lineage
  BY <1>6, DeliveryLineageInv
<1>7. CASE deliver_block
  BY <1>7, DeliverBlockInv
<1>8. CASE finish_delivery
  BY <1>8, FinishDeliveryInv
<1>9. CASE driver_error
  BY <1>9, DriverErrorInv
<1>10. CASE \E s \in Stream : commit_add(s) \/ commit_remove(s)
  BY <1>10, TopologyInv
<1>11. CASE UNCHANGED vars
  BY <1>11, StutterInv
<1> QED
  BY <1>1, <1>2, <1>3, <1>4, <1>5, <1>6, <1>7, <1>8, <1>9, <1>10, <1>11, Zenon DEF Next

\* Only the delivery of a block moves the published point.
LEMMA PointMoves ==
  ASSUME IInv, Next, point' # point
  PROVE  deliver_block
<1>1. deliver_block \/ UNCHANGED point
  BY Zenon DEF Next, SwitchHead, ReadBatch, handle_batch, seal_deadline, drain_sealable,
     next_batch_header, delivery_lineage, finish_delivery, driver_error, commit_add,
     commit_remove
<1> QED
  BY <1>1

\* The strengthened invariant holds in every behaviour.
THEOREM Invariance == Spec => []IInv
<1>1. IInv /\ UNCHANGED vars => IInv'
  BY StutterInv
<1> QED
  BY InitIInv, NextIInv, PTL DEF Spec

\* Every header, parent and batch block the driver handles is a block of the
\* tree, in every state of delivery_lineage and drain_sealable.
THEOREM DeliveryTypes == Spec => []DeliveryTypeOK
<1>1. IInv => DeliveryTypeOK
  BY DEF IInv
<1> QED
  BY <1>1, Invariance, PTL

\* canonical_lineage is always the parent-linked history of the published
\* snapshot and never exceeds RETAINED_CANONICAL_LINEAGE (record_canonical_block).
THEOREM LineageFollows == Spec => []LineageFollowsPoint
<1>1. ASSUME IInv PROVE LineageFollowsPoint
  <2>1. PICK np \in Nat : np = Number[point]
    BY <1>1, TreeAssumption DEF IInv, DeliveryTypeOK
  <2>2. PICK lo \in Nat : lo <= np /\ np - lo < Retained /\ DOMAIN canonical_lineage = lo..np
    BY <1>1, <2>1 DEF IInv, LineageInv, Retention
  <2>3. Retained \in Nat
    BY ConfigAssumption
  <2>4. in_lineage(point)
    BY <1>1, <2>1, <2>2 DEF IInv, LineageInv, in_lineage
  <2>5. \A n \in lo..np : np - Retained < n /\ n <= np /\ (n # np => n + 1 \in lo..np)
    BY <2>2, <2>3
  <2> QED
    BY <1>1, <2>1, <2>2, <2>4, <2>5 DEF IInv, LineageInv, LineageFollowsPoint
<1> QED
  BY <1>1, Invariance, PTL

\* deliver_through_sealed hands the runtime a child of a retained block, never a
\* block that is already on the runtime's branch.
THEOREM NoGap == Spec => NoGapNoReplay
<1>1. ASSUME IInv, [Next]_vars
      PROVE  [point' # point => /\ Parent[point'] \in Range(canonical_lineage)
                                /\ point' \notin Range(canonical_lineage)]_vars
  <2>1. CASE Next /\ point' # point
    BY <1>1, <2>1, PointMoves, DeliverBlockInv
  <2>2. CASE ~(point' # point)
    BY <2>2
  <2>3. CASE UNCHANGED vars
    BY <2>3
  <2> QED
    BY <1>1, <2>1, <2>2, <2>3
<1> QED
  BY <1>1, Invariance, PTL DEF Spec, NoGapNoReplay

-----------------------------------------------------------------------------
(* Chains of the block tree. *)

\* What Chain[b] looks like: one block per height from the genesis to b, and the
\* chain of each of its blocks is the part of it up to that block.
ChainShape(b) ==
  /\ Len(Chain[b]) = Number[b] - Number[Genesis] + 1
  /\ Chain[b][Len(Chain[b])] = b
  /\ \A i \in 1..Len(Chain[b]) :
       /\ Chain[b][i] \in Block
       /\ Number[Chain[b][i]] = Number[Genesis] + i - 1
       /\ Len(Chain[Chain[b][i]]) = i
       /\ \A j \in 1..i : Chain[Chain[b][i]][j] = Chain[b][j]

\* Every chain has that shape, by the least height at which one would not.
LEMMA ChainShapes == \A b \in Block : ChainShape(b)
<1> USE TreeAssumption
<1> DEFINE T == {b \in Block : ~ChainShape(b)}
<1>1. ASSUME T # {} PROVE FALSE
  <2> DEFINE N == {Number[b] : b \in T}
  <2>1. N \subseteq Nat /\ N # {}
    BY <1>1
  <2>2. Min(N) \in N /\ \A y \in N : Min(N) <= y
    BY <2>1, MinNat
  <2>3. PICK b \in T : Min(N) = Number[b]
    BY <2>2
  <2>4. b \in Block /\ ~ChainShape(b) /\ \A c \in T : Number[b] <= Number[c]
    BY <2>2, <2>3
  <2>5. b # Genesis
    <3>1. /\ Len(Chain[Genesis]) = 1 /\ Chain[Genesis][1] = Genesis
          /\ \A i \in 1..1 : i = 1
      OBVIOUS
    <3>2. 1 = Number[Genesis] - Number[Genesis] + 1 /\ Number[Genesis] = Number[Genesis] + 1 - 1
      BY Number[Genesis] \in Nat
    <3>3. ASSUME NEW i \in 1..1
          PROVE  /\ Chain[Genesis][i] \in Block
                 /\ Number[Chain[Genesis][i]] = Number[Genesis] + i - 1
                 /\ Len(Chain[Chain[Genesis][i]]) = i
                 /\ \A j \in 1..i : Chain[Chain[Genesis][i]][j] = Chain[Genesis][j]
      <4>1. i = 1 /\ Chain[Genesis][i] = Genesis
        BY <3>1
      <4> QED
        BY <3>1, <3>2, <4>1
    <3>4. ChainShape(Genesis)
      BY <3>1, <3>2, <3>3 DEF ChainShape
    <3> QED
      BY <2>4, <3>4
  <2> DEFINE p == Parent[b]
  <2>6. /\ p \in Block /\ Number[b] = Number[p] + 1
        /\ Chain[b] = Append(Chain[p], b) /\ Chain[p] \in Seq(Block)
    BY <2>4, <2>5
  <2>7. p \notin T
    <3>1. Number[p] \in Nat /\ Number[b] \in Nat
      BY <2>4, <2>6
    <3> QED
      BY <2>4, <2>6, <3>1
  <2>8. ChainShape(p)
    BY <2>6, <2>7
  <2>9. PICK n \in Nat : n = Len(Chain[p])
    BY <2>6
  <2>10. /\ Len(Chain[b]) = n + 1 /\ Chain[b][n + 1] = b
         /\ \A i \in 1..n : Chain[b][i] = Chain[p][i]
    BY <2>4, <2>6, <2>9
  <2>11. n = Number[p] - Number[Genesis] + 1
    BY <2>8, <2>9 DEF ChainShape
  <2>12. n + 1 = Number[b] - Number[Genesis] + 1 /\ Number[b] = Number[Genesis] + (n + 1) - 1
    <3>1. Number[p] \in Nat /\ Number[b] \in Nat /\ Number[Genesis] \in Nat
      BY <2>4, <2>6
    <3> QED
      BY <2>6, <2>11, <3>1
  <2>13. ASSUME NEW i \in 1..(n + 1)
         PROVE  /\ Chain[b][i] \in Block
                /\ Number[Chain[b][i]] = Number[Genesis] + i - 1
                /\ Len(Chain[Chain[b][i]]) = i
                /\ \A j \in 1..i : Chain[Chain[b][i]][j] = Chain[b][j]
    <3>1. CASE i = n + 1
      BY <2>4, <2>10, <2>12, <3>1
    <3>2. CASE i # n + 1
      <4>1. i \in 1..n
        BY <3>2
      <4>2. /\ Chain[p][i] \in Block
            /\ Number[Chain[p][i]] = Number[Genesis] + i - 1
            /\ Len(Chain[Chain[p][i]]) = i
            /\ \A j \in 1..i : Chain[Chain[p][i]][j] = Chain[p][j]
        BY <2>8, <2>9, <4>1 DEF ChainShape
      <4>3. \A j \in 1..i : j \in 1..n
        BY <4>1
      <4> QED
        BY <2>10, <4>1, <4>2, <4>3
    <3> QED
      BY <3>1, <3>2
  <2>14. ChainShape(b)
    BY <2>10, <2>12, <2>13 DEF ChainShape
  <2> QED
    BY <2>4, <2>14
<1> QED
  BY <1>1

\* A block is on a chain exactly when it is the block of its height there.
LEMMA OnChainIndex ==
  ASSUME NEW a, NEW b \in Block, OnChain(a, b)
  PROVE  /\ a \in Block
         /\ Number[Genesis] <= Number[a] /\ Number[a] <= Number[b]
         /\ Number[a] - Number[Genesis] + 1 \in 1..Len(Chain[b])
         /\ Chain[b][Number[a] - Number[Genesis] + 1] = a
<1> USE TreeAssumption
<1>1. ChainShape(b) /\ Chain[b] \in Seq(Block)
  BY ChainShapes
<1>2. DOMAIN Chain[b] = 1..Len(Chain[b])
  BY <1>1
<1>3. PICK i \in 1..Len(Chain[b]) : Chain[b][i] = a
  BY <1>2 DEF OnChain, Range
<1>4. a \in Block /\ Number[a] = Number[Genesis] + i - 1
  BY <1>1, <1>3 DEF ChainShape
<1>5. Len(Chain[b]) = Number[b] - Number[Genesis] + 1
  BY <1>1 DEF ChainShape
<1>6. Number[a] \in Nat /\ Number[b] \in Nat /\ Number[Genesis] \in Nat
  BY <1>4
<1>7. i = Number[a] - Number[Genesis] + 1
  BY <1>4, <1>6
<1> QED
  BY <1>3, <1>4, <1>5, <1>6, <1>7

\* Every position of a chain holds a block of the chain.
LEMMA AtIndex ==
  ASSUME NEW b \in Block, NEW i \in 1..Len(Chain[b])
  PROVE  OnChain(Chain[b][i], b)
<1>1. Chain[b] \in Seq(Block)
  BY TreeAssumption
<1>2. DOMAIN Chain[b] = 1..Len(Chain[b])
  BY <1>1
<1> QED
  BY <1>2 DEF OnChain, Range

\* Every block is on its own chain, and so is its parent.
LEMMA OwnChain ==
  ASSUME NEW b \in Block
  PROVE  OnChain(b, b) /\ OnChain(Parent[b], b)
<1> USE TreeAssumption
<1>1. ChainShape(b) /\ Chain[b] \in Seq(Block)
  BY ChainShapes
<1>2. OnChain(b, b)
  <2>1. Len(Chain[b]) \in 1..Len(Chain[b])
    <3>1. Number[b] \in Nat /\ Number[Genesis] \in Nat /\ Number[Genesis] <= Number[b]
      OBVIOUS
    <3> QED
      BY <1>1, <3>1 DEF ChainShape
  <2> QED
    BY <1>1, <2>1, AtIndex DEF ChainShape
<1>3. CASE b = Genesis
  BY <1>2, <1>3
<1>4. CASE b # Genesis
  <2> DEFINE p == Parent[b]
  <2>1. p \in Block /\ Chain[b] = Append(Chain[p], b) /\ Chain[p] \in Seq(Block) /\ ChainShape(p)
    BY <1>4, ChainShapes
  <2>2. Len(Chain[p]) \in 1..Len(Chain[p])
    <3>1. Number[p] \in Nat /\ Number[Genesis] \in Nat
      BY <2>1
    <3>2. p = Genesis \/ Number[p] > Number[Genesis]
      BY <2>1
    <3>3. Number[Genesis] <= Number[p]
      BY <3>1, <3>2
    <3> QED
      BY <2>1, <3>1, <3>3 DEF ChainShape
  <2>3. Len(Chain[p]) \in 1..Len(Chain[b]) /\ Chain[b][Len(Chain[p])] = Chain[p][Len(Chain[p])]
    BY <2>1, <2>2
  <2>4. Chain[b][Len(Chain[p])] = p
    BY <2>1, <2>3 DEF ChainShape
  <2> QED
    BY <1>2, <2>3, <2>4, AtIndex
<1> QED
  BY <1>3, <1>4

\* Of two blocks of one chain the lower is on the chain of the higher.
LEMMA ChainOrder ==
  ASSUME NEW b \in Block, NEW a, NEW c, OnChain(a, b), OnChain(c, b), Number[a] <= Number[c]
  PROVE  OnChain(a, c)
<1> USE TreeAssumption
<1> DEFINE i == Number[a] - Number[Genesis] + 1
           k == Number[c] - Number[Genesis] + 1
<1>1. /\ a \in Block /\ i \in 1..Len(Chain[b]) /\ Chain[b][i] = a
      /\ c \in Block /\ k \in 1..Len(Chain[b]) /\ Chain[b][k] = c
  BY OnChainIndex
<1>2. i \in 1..k
  <2>1. Number[a] \in Nat /\ Number[c] \in Nat /\ Number[Genesis] \in Nat
    BY <1>1
  <2> QED
    BY <1>1, <2>1
<1>3. Len(Chain[c]) = k /\ Chain[c][i] = a
  <2>1. ChainShape(b)
    BY ChainShapes
  <2> HIDE DEF i, k
  <2> QED
    BY <1>1, <1>2, <2>1 DEF ChainShape
<1> QED
  BY <1>1, <1>2, <1>3, AtIndex

\* A chain contains the chains of its blocks.
LEMMA ChainWithin ==
  ASSUME NEW b \in Block, NEW c, OnChain(c, b), NEW a, OnChain(a, c)
  PROVE  OnChain(a, b)
<1> USE TreeAssumption
<1> DEFINE k == Number[c] - Number[Genesis] + 1
           i == Number[a] - Number[Genesis] + 1
<1>1. c \in Block /\ k \in 1..Len(Chain[b]) /\ Chain[b][k] = c
  BY OnChainIndex
<1>2. i \in 1..Len(Chain[c]) /\ Chain[c][i] = a
  BY <1>1, OnChainIndex
<1>3. Len(Chain[c]) = k /\ Chain[c][i] = Chain[b][i]
  <2>1. ChainShape(b)
    BY ChainShapes
  <2> HIDE DEF i, k
  <2> QED
    BY <1>1, <1>2, <2>1 DEF ChainShape
<1>4. Len(Chain[b]) \in Nat
  <2>1. Chain[b] \in Seq(Block)
    BY TreeAssumption
  <2> QED
    BY <2>1
<1>5. i \in 1..Len(Chain[b])
  <2> HIDE DEF i, k
  <2> QED
    BY <1>1, <1>2, <1>3, <1>4
<1> QED
  BY <1>2, <1>3, <1>5, AtIndex

\* One block per height on a chain.
LEMMA ChainUnique ==
  ASSUME NEW b \in Block, NEW a, NEW c, OnChain(a, b), OnChain(c, b), Number[a] = Number[c]
  PROVE  a = c
BY OnChainIndex


\* What is left of a sequence after its first k elements.
LEMMA SuffixShape ==
  ASSUME NEW c \in Seq(Block), NEW k \in Nat, k <= Len(c)
  PROVE  /\ Len(SubSeq(c, 1 + k, Len(c))) = Len(c) - k
         /\ \A i \in 1..(Len(c) - k) : SubSeq(c, 1 + k, Len(c))[i] = c[k + i]
OBVIOUS

\* NewlyCanonical(a, b) is what is left of the chain of b above the part it
\* shares with the chain of a.
LEMMA NewlyCanonicalShape ==
  ASSUME NEW a \in Block, NEW b \in Block
  PROVE  \E k \in Nat :
           /\ k <= Len(Chain[b])
           /\ Len(NewlyCanonical(a, b)) = Len(Chain[b]) - k
           /\ \A i \in 1..(Len(Chain[b]) - k) : NewlyCanonical(a, b)[i] = Chain[b][k + i]
           /\ \A i \in 1..Len(Chain[b]) : i <= k <=> OnChain(Chain[b][i], a)
<1> USE TreeAssumption
<1>1. PICK c \in Seq(Block) : c = Chain[b]
  OBVIOUS
<1>2. PICK n \in Nat : n = Len(c) /\ DOMAIN c = 1..n
  OBVIOUS
<1>3. /\ \A i \in 1..n : c[i] \in Block /\ Number[c[i]] = Number[Genesis] + i - 1
      /\ \A i \in 1..n : OnChain(c[i], b)
  <2>1. ChainShape(b)
    BY ChainShapes
  <2> QED
    BY <1>1, <1>2, <2>1, AtIndex DEF ChainShape
<1> DEFINE J == {i \in 1..(n + 1) : ~(i <= n /\ OnChain(c[i], a))}
<1>4. J \subseteq Nat /\ n + 1 \in J
  OBVIOUS
<1>5. PICK m \in 1..(n + 1) : m \in J /\ \A i \in J : m <= i
  <2>1. Min(J) \in J /\ \A i \in J : Min(J) <= i
    BY <1>4, MinNat
  <2> QED
    BY <2>1
<1>6. PICK k \in Nat : k = m - 1 /\ k <= n
  BY <1>5
<1>7. ASSUME NEW i \in 1..n PROVE i <= k <=> OnChain(c[i], a)
  <2>1. ASSUME i <= k PROVE OnChain(c[i], a)
    <3>1. i \in 1..(n + 1) /\ ~(m <= i)
      BY <1>6, <2>1
    <3> QED
      BY <1>5, <3>1
  <2>2. ASSUME ~(i <= k), OnChain(c[i], a) PROVE FALSE
    <3>1. m \in 1..n /\ m <= i
      BY <1>6, <2>2
    <3>2. Number[c[m]] <= Number[c[i]]
      BY <1>3, <3>1, Number[Genesis] \in Nat
    <3>3. OnChain(c[m], c[i])
      BY <1>3, <3>1, <3>2, ChainOrder
    <3>4. OnChain(c[m], a)
      BY <2>2, <3>3, ChainWithin
    <3> QED
      BY <1>5, <3>1, <3>4
  <2> QED
    BY <2>1, <2>2
<1> DEFINE common == Range(Chain[a]) \cap Range(Chain[b])
           f == [i \in 1..k |-> c[i]]
<1>8. Cardinality(common) = k
  <2>1. \A i \in 1..k : i \in 1..n
    BY <1>6
  <2>2. f \in [1..k -> common]
    <3>1. \A i \in 1..k : c[i] \in common
      <4> TAKE i \in 1..k
      <4>1. i \in 1..n /\ i <= k
        BY <1>6, <2>1
      <4>2. OnChain(c[i], a) /\ OnChain(c[i], b)
        BY <1>3, <1>7, <4>1
      <4> QED
        BY <4>2 DEF OnChain
    <3> QED
      BY <3>1
  <2>3. \A i, j \in 1..k : f[i] = f[j] => i = j
    <3> TAKE i, j \in 1..k
    <3>1. Number[c[i]] = Number[Genesis] + i - 1 /\ Number[c[j]] = Number[Genesis] + j - 1
      BY <1>3, <2>1
    <3>2. Number[c[i]] = Number[c[j]] => i = j
      BY <3>1, Number[Genesis] \in Nat
    <3> QED
      BY <3>2
  <2>4. \A t \in common : \E i \in 1..k : f[i] = t
    <3> TAKE t \in common
    <3>1. PICK i \in 1..n : c[i] = t
      BY <1>1, <1>2 DEF Range
    <3>2. i <= k
      BY <1>7, <3>1 DEF OnChain
    <3>3. i \in 1..k
      BY <3>2
    <3> QED
      BY <3>1, <3>3
  <2>5. f \in Bijection(1..k, common)
    BY <2>2, <2>3, <2>4 DEF Bijection, Injection, Surjection, IsInjective
  <2>6. ExistsBijection(1..k, common)
    BY <2>5 DEF ExistsBijection
  <2>7. IsFiniteSet(1..k) /\ Cardinality(1..k) = k
    <3>1. IsFiniteSet(1..k) /\ Cardinality(1..k) = IF 1 > k THEN 0 ELSE k - 1 + 1
      BY <1>6, FS_Interval, 1 \in Int, k \in Int
    <3> QED
      BY <3>1
  <2> QED
    BY <2>6, <2>7, FS_Bijection
<1>9. NewlyCanonical(a, b) = SubSeq(c, 1 + k, n)
  BY <1>1, <1>2, <1>8 DEF NewlyCanonical
<1>10. /\ Len(SubSeq(c, 1 + k, n)) = n - k
       /\ \A i \in 1..(n - k) : SubSeq(c, 1 + k, n)[i] = c[k + i]
  BY <1>2, <1>6, SuffixShape
<1> HIDE DEF J, common, f
<1>11. /\ k <= Len(Chain[b])
       /\ Len(NewlyCanonical(a, b)) = Len(Chain[b]) - k
       /\ \A i \in 1..(Len(Chain[b]) - k) : NewlyCanonical(a, b)[i] = Chain[b][k + i]
       /\ \A i \in 1..Len(Chain[b]) : i <= k <=> OnChain(Chain[b][i], a)
  BY <1>1, <1>2, <1>6, <1>7, <1>9, <1>10
<1> QED
  BY <1>11

-----------------------------------------------------------------------------
(* Log notifications in block order. *)

Height(l) == Number[LogBlock[l]]

\* The logs of a stream never go back to a lower block.
Ordered(q) == \A i \in 1..Len(q) : \A j \in 1..i : Height(q[j]) <= Height(q[i])

\* The range of a sequence over S is a part of S.
LEMMA InRange ==
  ASSUME NEW S, NEW q \in Seq(S), NEW x
  PROVE  x \in Range(q) <=> \E i \in 1..Len(q) : q[i] = x
<1>1. DOMAIN q = 1..Len(q)
  OBVIOUS
<1> QED
  BY <1>1 DEF Range

\* Notifications in block order followed by higher ones are in block order.
LEMMA OrderedConcat ==
  ASSUME NEW p \in Seq(Log), NEW q \in Seq(Log)
  PROVE  /\ p \o q \in Seq(Log)
         /\ Range(p \o q) = Range(p) \cup Range(q)
         /\ /\ Ordered(p) /\ Ordered(q)
            /\ \A x \in Range(p) : \A y \in Range(q) : Height(x) <= Height(y)
            => Ordered(p \o q)
<1>1. PICK m \in Nat, n \in Nat : m = Len(p) /\ n = Len(q)
  OBVIOUS
<1>2. PICK r \in Seq(Log) : r = p \o q
  BY ConcatProperties
<1>3. /\ Len(r) = m + n
      /\ \A i \in 1..m : r[i] = p[i]
      /\ \A i \in 1..n : r[m + i] = q[i]
  <2>1. Len(r) = m + n /\ \A i \in 1..(m + n) : r[i] = IF i <= m THEN p[i] ELSE q[i - m]
    BY <1>1, <1>2, ConcatProperties
  <2>2. \A i \in 1..m : i \in 1..(m + n) /\ i <= m
    BY <1>1
  <2>3. \A i \in 1..n : m + i \in 1..(m + n) /\ ~(m + i <= m) /\ (m + i) - m = i
    BY <1>1
  <2> QED
    BY <2>1, <2>2, <2>3
<1>4. \A i \in 1..(m + n) : i \in 1..m \/ (i - m \in 1..n /\ r[i] = q[i - m] /\ ~(i <= m))
  <2> TAKE i \in 1..(m + n)
  <2>1. i \in 1..m \/ (i - m \in 1..n /\ m + (i - m) = i /\ ~(i <= m))
    BY <1>1
  <2> QED
    BY <1>3, <2>1
<1>5. Range(r) = Range(p) \cup Range(q)
  <2>1. ASSUME NEW x \in Range(r) PROVE x \in Range(p) \cup Range(q)
    <3>1. PICK i \in 1..(m + n) : r[i] = x
      BY <1>3, InRange
    <3> QED
      BY <1>1, <1>3, <1>4, <3>1, InRange
  <2>2. ASSUME NEW x \in Range(p) \cup Range(q) PROVE x \in Range(r)
    <3>1. CASE x \in Range(p)
      <4>1. PICK i \in 1..m : p[i] = x
        BY <1>1, <3>1, InRange
      <4>2. i \in 1..(m + n)
        BY <1>1
      <4> QED
        BY <1>3, <4>1, <4>2, InRange
    <3>2. CASE x \in Range(q)
      <4>1. PICK i \in 1..n : q[i] = x
        BY <1>1, <3>2, InRange
      <4>2. m + i \in 1..(m + n)
        BY <1>1
      <4> QED
        BY <1>3, <4>1, <4>2, InRange
    <3> QED
      BY <2>2, <3>1, <3>2
  <2> QED
    BY <2>1, <2>2
<1>6. ASSUME Ordered(p), Ordered(q),
             \A x \in Range(p) : \A y \in Range(q) : Height(x) <= Height(y),
             NEW i \in 1..(m + n), NEW j \in 1..i
      PROVE  Height(r[j]) <= Height(r[i])
  <2>1. j \in 1..(m + n) /\ j <= i
    BY <1>1
  <2>2. CASE i \in 1..m
    <3>1. j \in 1..m /\ j \in 1..i
      BY <1>1, <2>1, <2>2
    <3> QED
      BY <1>1, <1>3, <1>6, <2>2, <3>1 DEF Ordered
  <2>3. CASE j \in 1..m /\ ~(i \in 1..m)
    <3>1. i - m \in 1..n /\ r[i] = q[i - m]
      BY <1>4, <2>3
    <3>2. r[i] \in Range(q) /\ r[j] \in Range(p)
      BY <1>1, <1>3, <2>3, <3>1, InRange
    <3> QED
      BY <1>6, <3>2
  <2>4. CASE ~(j \in 1..m) /\ ~(i \in 1..m)
    <3>1. i - m \in 1..n /\ r[i] = q[i - m] /\ j - m \in 1..n /\ r[j] = q[j - m]
      BY <1>4, <2>1, <2>4
    <3>2. j - m \in 1..(i - m)
      BY <1>1, <2>1, <3>1
    <3> QED
      BY <1>1, <1>6, <3>1, <3>2 DEF Ordered
  <2>5. i \in 1..m => j \in 1..m
    BY <1>1, <2>1
  <2> QED
    BY <2>2, <2>3, <2>4
<1> QED
  BY <1>2, <1>3, <1>5, <1>6 DEF Ordered

\* What is read of a stream and what stays: nothing is lost, and what stays is
\* not below what is read.
LEMMA OrderedSplit ==
  ASSUME NEW q \in Seq(Log), NEW n \in Nat, n <= Len(q)
  PROVE  /\ SubSeq(q, 1, n) \in Seq(Log)
         /\ SubSeq(q, n + 1, Len(q)) \in Seq(Log)
         /\ Range(q) = Range(SubSeq(q, 1, n)) \cup Range(SubSeq(q, n + 1, Len(q)))
         /\ Ordered(q) =>
              /\ Ordered(SubSeq(q, n + 1, Len(q)))
              /\ \A x \in Range(SubSeq(q, 1, n)) :
                   \A y \in Range(SubSeq(q, n + 1, Len(q))) : Height(x) <= Height(y)
<1>1. PICK m \in Nat : m = Len(q)
  OBVIOUS
<1>2. PICK a : a = SubSeq(q, 1, n)
  OBVIOUS
<1>3. PICK b : b = SubSeq(q, n + 1, m)
  OBVIOUS
<1>4. a \in Seq(Log) /\ Len(a) = n /\ \A i \in 1..n : a[i] = q[i] /\ i \in 1..m
  <2>1. \A i \in 1..n : q[i] \in Log /\ i \in 1..m
    BY <1>1
  <2>2. /\ a \in Seq(Log) /\ Len(a) = IF 1 <= n THEN n - 1 + 1 ELSE 0
        /\ \A i \in 1..(n - 1 + 1) : a[i] = q[1 + i - 1]
    BY <1>2, <2>1, SubSeqProperties
  <2>3. \A i \in 1..n : i \in 1..(n - 1 + 1) /\ 1 + i - 1 = i
    OBVIOUS
  <2> QED
    BY <2>1, <2>2, <2>3
<1>5. b \in Seq(Log) /\ Len(b) = m - n /\ \A i \in 1..(m - n) : b[i] = q[n + i] /\ n + i \in 1..m
  <2>1. \A i \in (n + 1)..m : q[i] \in Log
    BY <1>1
  <2>2. /\ b \in Seq(Log) /\ Len(b) = IF n + 1 <= m THEN m - (n + 1) + 1 ELSE 0
        /\ \A i \in 1..(m - (n + 1) + 1) : b[i] = q[(n + 1) + i - 1]
    BY <1>1, <1>3, <2>1, SubSeqProperties
  <2>3. \A i \in 1..(m - n) : /\ i \in 1..(m - (n + 1) + 1) /\ (n + 1) + i - 1 = n + i
                              /\ n + i \in 1..m
    BY <1>1
  <2> QED
    BY <1>1, <2>2, <2>3
<1>6. \A i \in 1..m : i \in 1..n \/ (i - n \in 1..(m - n) /\ n + (i - n) = i)
  BY <1>1
<1>7. Range(q) = Range(a) \cup Range(b)
  <2>1. ASSUME NEW x \in Range(q) PROVE x \in Range(a) \cup Range(b)
    <3>1. PICK i \in 1..m : q[i] = x
      BY <1>1, InRange
    <3>2. CASE i \in 1..n
      BY <1>4, <3>1, <3>2, InRange
    <3>3. CASE i - n \in 1..(m - n) /\ n + (i - n) = i
      <4>1. b[i - n] = x
        BY <1>5, <3>1, <3>3
      <4> QED
        BY <1>5, <3>3, <4>1, InRange
    <3> QED
      BY <1>6, <3>2, <3>3
  <2>2. ASSUME NEW x \in Range(a) \cup Range(b) PROVE x \in Range(q)
    <3>1. CASE x \in Range(a)
      BY <1>1, <1>4, <3>1, InRange
    <3>2. CASE x \in Range(b)
      BY <1>1, <1>5, <3>2, InRange
    <3> QED
      BY <2>2, <3>1, <3>2
  <2> QED
    BY <2>1, <2>2
<1>8. ASSUME Ordered(q), NEW i \in 1..(m - n), NEW j \in 1..i
      PROVE  Height(b[j]) <= Height(b[i])
  <2>1. j \in 1..(m - n) /\ n + j \in 1..(n + i) /\ n + i \in 1..m
    BY <1>1
  <2> QED
    BY <1>1, <1>5, <1>8, <2>1 DEF Ordered
<1>9. ASSUME Ordered(q), NEW x \in Range(a), NEW y \in Range(b)
      PROVE  Height(x) <= Height(y)
  <2>1. PICK i \in 1..n : a[i] = x
    BY <1>4, InRange
  <2>2. PICK j \in 1..(m - n) : b[j] = y
    BY <1>5, InRange
  <2>3. i \in 1..(n + j) /\ n + j \in 1..m
    BY <1>1
  <2> QED
    BY <1>1, <1>4, <1>5, <1>9, <2>1, <2>2, <2>3 DEF Ordered
<1>10. Ordered(q) => Ordered(b)
  BY <1>5, <1>8 DEF Ordered
<1> QED
  BY <1>1, <1>2, <1>3, <1>4, <1>5, <1>7, <1>9, <1>10

\* SetToSeq lists a finite set.
LEMMA SetToSeqShape ==
  ASSUME NEW S, IsFiniteSet(S)
  PROVE  SetToSeq(S) \in Seq(S) /\ Range(SetToSeq(S)) = S
<1> DEFINE n == Cardinality(S)
           q == SetToSeq(S)
<1>1. n \in Nat /\ ExistsBijection(1..n, S)
  BY FS_CardinalityType
<1>2. PICK f : f \in Bijection(1..n, S)
  BY <1>1 DEF ExistsBijection
<1>3. f \in [1..n -> S] /\ IsInjective(f)
  BY <1>2 DEF Bijection, Injection
<1>4. q \in [1..n -> S] /\ IsInjective(q)
  BY <1>3, Zenon DEF SetToSeq
<1> HIDE DEF q
<1>5. q \in Injection(1..n, S)
  BY <1>4 DEF Injection
<1>6. Cardinality(1..n) = n
  <2>1. Cardinality(1..n) = IF 1 > n THEN 0 ELSE n - 1 + 1
    BY <1>1, FS_Interval, 1 \in Int, n \in Int
  <2> HIDE DEF n
  <2> QED
    BY <1>1, <2>1
<1>7. q \in Surjection(1..n, S)
  BY <1>5, <1>6, FS_Injection
<1>8. q \in Seq(S)
  BY <1>1, <1>4
<1>9. Range(q) = S
  BY <1>4, <1>7 DEF Range, Surjection
<1> QED
  BY <1>8, <1>9 DEF q

Flattened(g, q, k) == g = [i \in 1..k |-> IF i = 1 THEN q[i] ELSE g[i-1] \o q[i]]

\* Every finite list of sequences can be flattened from the left.
LEMMA FlattenedExists ==
  ASSUME NEW q, NEW n \in Nat
  PROVE  \E g : Flattened(g, q, n)
<1> DEFINE Step(g, i) == IF i = 1 THEN q[i] ELSE g[i-1] \o q[i]
           Upto(k) == \E g : g = [i \in 1..k |-> Step(g, i)]
           T == {k \in Nat : ~Upto(k)}
<1>1. ASSUME T # {} PROVE FALSE
  <2>1. PICK k \in T : \A m \in T : k <= m
    BY <1>1, MinNat, T \subseteq Nat
  <2>2. k \in Nat /\ ~Upto(k)
    BY <2>1
  <2>3. k # 0
    <3>1. ASSUME k = 0 PROVE Upto(0)
      <4> DEFINE g == [i \in 1..0 |-> q]
      <4>1. g = [i \in 1..0 |-> Step(g, i)]
        OBVIOUS
      <4> QED
        BY <4>1
    <3> QED
      BY <2>2, <3>1
  <2>4. k - 1 \in Nat /\ k - 1 \notin T
    <3>1. k - 1 \in Nat /\ ~(k <= k - 1)
      BY <2>2, <2>3
    <3> QED
      BY <2>1, <3>1
  <2>5. Upto(k - 1)
    BY <2>4
  <2>6. PICK g : g = [i \in 1..(k - 1) |-> Step(g, i)]
    BY <2>5
  <2> DEFINE h == [i \in 1..k |-> IF i = k THEN Step(g, k) ELSE g[i]]
  <2>7. \A i \in 1..k : h[i] = Step(h, i)
    <3> SUFFICES ASSUME NEW i \in 1..k PROVE h[i] = Step(h, i)
      OBVIOUS
    <3>1. i # 1 => i - 1 \in 1..k /\ i - 1 # k /\ h[i - 1] = g[i - 1]
      BY <2>2
    <3>2. Step(h, i) = Step(g, i)
      BY <3>1
    <3>3. i # k => i \in 1..(k - 1)
      BY <2>2
    <3>4. i # k => g[i] = Step(g, i)
      BY <2>6, <3>3, Zenon
    <3>5. h[i] = IF i = k THEN Step(g, k) ELSE g[i]
      OBVIOUS
    <3> QED
      BY <3>2, <3>4, <3>5, Zenon
  <2>8. h = [i \in 1..k |-> h[i]]
    OBVIOUS
  <2> HIDE DEF h
  <2>9. h = [i \in 1..k |-> Step(h, i)]
    BY <2>7, <2>8, Zenon
  <2> QED
    BY <2>2, <2>9, Zenon
<1>2. Upto(n)
  BY <1>1
<1> QED
  BY <1>2, Zenon DEF Flattened

\* Notifications of an interest for the first n blocks of a sequence.
Announced(q, bs, n, s, dropped) ==
  /\ q \in Seq(Log)
  /\ Ordered(q)
  /\ Range(q) = {l \in Log : /\ \E k \in 1..n : LogBlock[l] = bs[k]
                             /\ LogStream[l] = s /\ l \notin dropped}

\* Notifications announces exactly the logs of the blocks, in block order.
LEMMA NotificationsShape ==
  ASSUME NEW bs \in Seq(Block), NEW s, NEW dropped,
         \A j \in 1..Len(bs) : \A i \in 1..j : Number[bs[i]] <= Number[bs[j]]
  PROVE  Announced(Notifications(bs, s, dropped), bs, Len(bs), s, dropped)
<1> USE TreeAssumption, LogAssumption
<1> DEFINE mine(i) == {l \in logs_of(bs[i], {s}) : l \notin dropped}
           q == [i \in 1..Len(bs) |-> SetToSeq(mine(i))]
<1>1. PICK n \in Nat : n = Len(bs)
  OBVIOUS
<1>2. \A i \in 1..n : bs[i] \in Block
  BY <1>1
<1>3. \A i \in 1..n : mine(i) = {l \in Log : LogBlock[l] = bs[i] /\ LogStream[l] = s /\ l \notin dropped}
  BY DEF logs_of
<1>4. ASSUME NEW i \in 1..n
      PROVE  q[i] \in Seq(Log) /\ Range(q[i]) = mine(i) /\ Ordered(q[i])
  <2>1. mine(i) \in SUBSET {l \in Log : LogBlock[l] = bs[i]}
    BY <1>3
  <2>2. IsFiniteSet({l \in Log : LogBlock[l] = bs[i]})
    BY <1>2
  <2>3. IsFiniteSet(mine(i))
    BY <2>1, <2>2, FS_Subset
  <2>4. q[i] = SetToSeq(mine(i))
    BY <1>1
  <2>5. q[i] \in Seq(mine(i)) /\ Range(q[i]) = mine(i)
    BY <2>3, <2>4, SetToSeqShape
  <2>6. q[i] \in Seq(Log)
    <3> HIDE DEF q, mine
    <3>1. mine(i) \subseteq Log
      BY <2>1
    <3>2. q[i] \in Seq(mine(i))
      BY <2>5
    <3> QED
      BY <3>1, <3>2
  <2>7. \A x \in Range(q[i]) : Height(x) = Number[bs[i]] /\ Height(x) \in Nat
    BY <1>2, <1>3, <2>5 DEF Height
  <2>8. Ordered(q[i])
    <3> SUFFICES ASSUME NEW k \in 1..Len(q[i]), NEW j \in 1..k
                 PROVE  Height(q[i][j]) <= Height(q[i][k])
      BY DEF Ordered
    <3> HIDE DEF q, mine
    <3>1. Len(q[i]) \in Nat
      BY <2>6
    <3>2. j \in 1..Len(q[i])
      BY <3>1
    <3>3. q[i][j] \in Range(q[i]) /\ q[i][k] \in Range(q[i])
      BY <2>6, <3>2, InRange
    <3>4. /\ Height(q[i][j]) = Number[bs[i]] /\ Height(q[i][k]) = Number[bs[i]]
          /\ Number[bs[i]] \in Nat
      BY <1>2, <2>7, <3>3
    <3> QED
      BY <3>4
  <2> QED
    BY <2>5, <2>6, <2>8
<1>5. Len(q) = n /\ Notifications(bs, s, dropped) = FlattenSeq(q)
  <2>1. q = [i \in 1..Len(bs) |-> SetToSeq({l \in logs_of(bs[i], {s}) : l \notin dropped})]
    OBVIOUS
  <2>2. Notifications(bs, s, dropped) = FlattenSeq(q)
    BY <2>1, Zenon DEF Notifications
  <2> HIDE DEF mine
  <2>3. Len(q) = n
    BY <1>1
  <2> QED
    BY <2>2, <2>3
<1> HIDE DEF q, mine
<1>6. CASE n = 0
  <2>1. q = <<>>
    <3>1. q = [i \in 1..0 |-> SetToSeq(mine(i))]
      BY <1>1, <1>6 DEF q
    <3> QED
      BY <3>1
  <2>2. Notifications(bs, s, dropped) = <<>>
    BY <1>5, <1>6, <2>1 DEF FlattenSeq
  <2>3. Range(<<>>) = {} /\ <<>> \in Seq(Log) /\ Ordered(<<>>)
    BY DEF Range, Ordered
  <2>4. \A k \in 1..n : FALSE
    BY <1>6
  <2> QED
    BY <1>1, <2>2, <2>3, <2>4 DEF Announced
<1>7. CASE n # 0
  <2> DEFINE f == CHOOSE g : g = [i \in 1..Len(q) |-> IF i = 1 THEN q[i] ELSE g[i-1] \o q[i]]
  <2>1. Notifications(bs, s, dropped) = f[n]
    BY <1>5, <1>7 DEF FlattenSeq
  <2>2. f = [i \in 1..n |-> IF i = 1 THEN q[i] ELSE f[i-1] \o q[i]]
    <3>1. \E g : Flattened(g, q, n)
      BY <1>1, FlattenedExists
    <3> QED
      BY <1>5, <3>1, Zenon DEF Flattened
  <2> HIDE DEF f
  <2> DEFINE T == {k \in 1..n : ~Announced(f[k], bs, k, s, dropped)}
  <2>3. ASSUME T # {} PROVE FALSE
    <3>1. T \subseteq Nat
      OBVIOUS
    <3>2. PICK k \in T : \A m \in T : k <= m
      BY <2>3, <3>1, MinNat
    <3>3. k \in 1..n /\ ~Announced(f[k], bs, k, s, dropped)
      BY <3>2
    <3>4. f[k] = IF k = 1 THEN q[k] ELSE f[k-1] \o q[k]
      BY <2>2, <3>3, Zenon
    <3>5. q[k] \in Seq(Log) /\ Range(q[k]) = mine(k) /\ Ordered(q[k])
      BY <1>4, <3>3
    <3>6. mine(k) = {l \in Log : LogBlock[l] = bs[k] /\ LogStream[l] = s /\ l \notin dropped}
      BY <1>3, <3>3
    <3>7. k # 1
      <4>1. ASSUME k = 1 PROVE FALSE
        <5>1. f[k] = q[k] /\ \A i \in 1..k : i = k
          BY <3>4, <4>1
        <5>2. 1 \in 1..k
          BY <4>1
        <5> QED
          BY <3>3, <3>5, <3>6, <4>1, <5>1, <5>2 DEF Announced
      <4> QED
        BY <4>1
    <3>8. k - 1 \in 1..n /\ ~(k <= k - 1)
      BY <1>1, <3>3, <3>7
    <3>9. Announced(f[k - 1], bs, k - 1, s, dropped)
      BY <3>2, <3>8
    <3>10. \A x \in Range(f[k - 1]) : \A y \in Range(q[k]) : Height(x) <= Height(y)
      <4> SUFFICES ASSUME NEW x \in Range(f[k - 1]), NEW y \in Range(q[k])
                   PROVE  Height(x) <= Height(y)
        OBVIOUS
      <4>1. PICK i \in 1..(k - 1) : LogBlock[x] = bs[i]
        BY <3>9 DEF Announced
      <4>2. LogBlock[y] = bs[k]
        BY <3>5, <3>6
      <4>3. i \in 1..k
        BY <3>3
      <4>4. Number[bs[i]] <= Number[bs[k]]
        BY <1>1, <3>3, <4>3
      <4> QED
        BY <4>1, <4>2, <4>4 DEF Height
    <3>11. /\ f[k] \in Seq(Log) /\ Ordered(f[k])
           /\ Range(f[k]) = Range(f[k - 1]) \cup Range(q[k])
      <4>1. f[k] = f[k - 1] \o q[k]
        BY <3>4, <3>7
      <4>2. f[k - 1] \in Seq(Log) /\ Ordered(f[k - 1])
        BY <3>9 DEF Announced
      <4> QED
        BY <3>5, <3>10, <4>1, <4>2, OrderedConcat, Zenon
    <3>12. \A i \in 1..k : i = k \/ i \in 1..(k - 1)
      BY <3>3
    <3>13. k \in 1..k /\ \A i \in 1..(k - 1) : i \in 1..k
      BY <3>3
    <3>14. Range(f[k]) = {l \in Log : /\ \E i \in 1..k : LogBlock[l] = bs[i]
                                      /\ LogStream[l] = s /\ l \notin dropped}
      <4>1. \A l : l \in Range(f[k - 1]) <=> /\ l \in Log
                                             /\ \E i \in 1..(k - 1) : LogBlock[l] = bs[i]
                                             /\ LogStream[l] = s /\ l \notin dropped
        BY <3>9, Zenon DEF Announced
      <4>2. \A l : l \in Range(q[k]) <=> /\ l \in Log /\ LogBlock[l] = bs[k]
                                         /\ LogStream[l] = s /\ l \notin dropped
        BY <3>5, <3>6, Zenon
      <4>3. \A l : (\E i \in 1..k : LogBlock[l] = bs[i]) <=>
                     \/ \E i \in 1..(k - 1) : LogBlock[l] = bs[i]
                     \/ LogBlock[l] = bs[k]
        BY <3>12, <3>13, Zenon
      <4> QED
        BY <3>11, <4>1, <4>2, <4>3, Zenon
    <3> QED
      BY <3>3, <3>11, <3>14 DEF Announced
  <2>4. n \in 1..n
    BY <1>1, <1>7
  <2>5. Announced(f[n], bs, n, s, dropped)
    BY <2>3, <2>4
  <2> QED
    BY <1>1, <2>1, <2>5
<1> QED
  BY <1>6, <1>7

\* The notifications of the blocks that become canonical when a head moves from
\* a to b.
LEMMA NewNotifications ==
  ASSUME NEW a \in Block, NEW b \in Block, NEW s, NEW dropped
  PROVE  /\ Range(NewlyCanonical(a, b)) = {x \in Block : OnChain(x, b) /\ ~OnChain(x, a)}
         /\ Notifications(NewlyCanonical(a, b), s, dropped) \in Seq(Log)
         /\ Ordered(Notifications(NewlyCanonical(a, b), s, dropped))
         /\ Range(Notifications(NewlyCanonical(a, b), s, dropped)) =
              {l \in Log : /\ OnChain(LogBlock[l], b) /\ ~OnChain(LogBlock[l], a)
                           /\ LogStream[l] = s /\ l \notin dropped}
<1> USE TreeAssumption
<1>1. PICK c \in Seq(Block) : c = Chain[b]
  OBVIOUS
<1>2. PICK n \in Nat : n = Len(c)
  OBVIOUS
<1>3. PICK new \in Seq(Block) : new = NewlyCanonical(a, b)
  BY NewlyCanonicalType
<1>4. PICK k \in Nat :
        /\ k <= n /\ Len(new) = n - k
        /\ \A i \in 1..(n - k) : new[i] = c[k + i]
        /\ \A i \in 1..n : i <= k <=> OnChain(c[i], a)
  BY <1>1, <1>2, <1>3, NewlyCanonicalShape
<1>5. \A i \in 1..n : c[i] \in Block /\ Number[c[i]] = Number[Genesis] + i - 1 /\ OnChain(c[i], b)
  <2>1. ChainShape(b)
    BY ChainShapes
  <2> QED
    BY <1>1, <1>2, <2>1, AtIndex DEF ChainShape
<1>6. \A i \in 1..(n - k) : k + i \in 1..n /\ ~(k + i <= k)
  BY <1>4
<1>7. \A x : (\E i \in 1..(n - k) : new[i] = x) <=> x \in Block /\ OnChain(x, b) /\ ~OnChain(x, a)
  <2>1. ASSUME NEW x, NEW i \in 1..(n - k), new[i] = x
        PROVE  x \in Block /\ OnChain(x, b) /\ ~OnChain(x, a)
    BY <1>4, <1>5, <1>6, <2>1
  <2>2. ASSUME NEW x, x \in Block, OnChain(x, b), ~OnChain(x, a)
        PROVE  \E i \in 1..(n - k) : new[i] = x
    <3>1. PICK j \in 1..n : c[j] = x
      BY <1>1, <1>2, <2>2, OnChainIndex
    <3>2. ~(j <= k)
      BY <1>4, <2>2, <3>1
    <3>3. j - k \in 1..(n - k) /\ k + (j - k) = j
      BY <1>4, <3>2
    <3> QED
      BY <1>4, <3>1, <3>3
  <2> QED
    BY <2>1, <2>2
<1>8. Range(new) = {x \in Block : OnChain(x, b) /\ ~OnChain(x, a)}
  <2>1. \A x : x \in Range(new) <=> \E i \in 1..Len(new) : new[i] = x
    BY InRange
  <2>2. \A x : x \in Range(new) <=> x \in Block /\ OnChain(x, b) /\ ~OnChain(x, a)
    BY <1>4, <1>7, <2>1
  <2> QED
    BY <2>2
<1>9. \A j \in 1..Len(new) : \A i \in 1..j : Number[new[i]] <= Number[new[j]]
  <2> TAKE j \in 1..Len(new)
  <2> TAKE i \in 1..j
  <2>1. i \in 1..(n - k) /\ j \in 1..(n - k) /\ i <= j
    BY <1>4
  <2>2. Number[new[i]] = Number[Genesis] + (k + i) - 1 /\ Number[new[j]] = Number[Genesis] + (k + j) - 1
    BY <1>4, <1>5, <1>6, <2>1
  <2> QED
    BY <1>4, <2>1, <2>2, Number[Genesis] \in Nat
<1>10. Announced(Notifications(new, s, dropped), new, n - k, s, dropped)
  BY <1>4, <1>9, NotificationsShape
<1>11. \A l \in Log : (\E i \in 1..(n - k) : LogBlock[l] = new[i]) <=>
                        OnChain(LogBlock[l], b) /\ ~OnChain(LogBlock[l], a)
  <2>1. \A l \in Log : LogBlock[l] \in Block
    BY LogAssumption
  <2> QED
    BY <1>7, <2>1
<1>12. Range(Notifications(new, s, dropped)) =
              {l \in Log : /\ OnChain(LogBlock[l], b) /\ ~OnChain(LogBlock[l], a)
                           /\ LogStream[l] = s /\ l \notin dropped}
  BY <1>10, <1>11, Zenon DEF Announced
<1> QED
  BY <1>3, <1>8, <1>10, <1>12, Zenon DEF Announced

-----------------------------------------------------------------------------
(* Finite sets. *)

\* The image of a finite set is finite.
LEMMA FiniteImage ==
  ASSUME NEW S, IsFiniteSet(S), NEW f, DOMAIN f = S, f = [x \in S |-> f[x]]
  PROVE  IsFiniteSet({f[x] : x \in S})
<1> DEFINE T == {f[x] : x \in S}
<1>1. f \in Surjection(S, T)
  <2>1. f \in [S -> T]
    OBVIOUS
  <2> QED
    BY <2>1 DEF Surjection
<1> QED
  BY <1>1, FS_Surjection

\* A finite set of integers has a greatest element, and Max finds it.
LEMMA FiniteMax ==
  ASSUME NEW S, IsFiniteSet(S), S \subseteq Int, S # {}
  PROVE  Max(S) \in S /\ \A y \in S : y <= Max(S)
<1> DEFINE Bad(n) == \E U \in SUBSET Int :
                       /\ IsFiniteSet(U) /\ U # {} /\ Cardinality(U) = n
                       /\ ~(\E x \in U : \A y \in U : x >= y)
           T == {n \in Nat : Bad(n)}
<1>1. ASSUME T # {} PROVE FALSE
  <2>1. PICK n \in T : \A m \in T : n <= m
    BY <1>1, MinNat, T \subseteq Nat
  <2>2. n \in Nat /\ Bad(n)
    BY <2>1
  <2>3. PICK U \in SUBSET Int :
          /\ IsFiniteSet(U) /\ U # {} /\ Cardinality(U) = n
          /\ ~(\E x \in U : \A y \in U : x >= y)
    BY <2>2
  <2>4. PICK x \in U : x \in Int
    BY <2>3
  <2> DEFINE V == U \ {x}
  <2>5. IsFiniteSet(V) /\ Cardinality(V) = n - 1 /\ V \in SUBSET Int
    BY <2>3, <2>4, FS_RemoveElement
  <2>6. V # {}
    <3>1. V = {} => \A y \in U : x >= y
      BY <2>4
    <3> QED
      BY <2>3, <2>4, <3>1
  <2>7. n - 1 \in Nat /\ ~(n <= n - 1)
    BY <2>2, <2>5, FS_CardinalityType
  <2>8. ~Bad(n - 1)
    BY <2>1, <2>7
  <2>9. PICK m \in V : \A y \in V : m >= y
    BY <2>5, <2>6, <2>8
  <2>10. m \in Int /\ m \in U
    BY <2>3, <2>9
  <2>11. CASE m >= x
    <3>1. \A y \in U : m >= y
      BY <2>9, <2>11
    <3> QED
      BY <2>3, <2>10, <3>1
  <2>12. CASE ~(m >= x)
    <3>1. \A y \in U : x >= y
      BY <2>3, <2>4, <2>9, <2>10, <2>12
    <3> QED
      BY <2>3, <2>4, <3>1
  <2> QED
    BY <2>11, <2>12
<1>2. Cardinality(S) \in Nat /\ ~Bad(Cardinality(S))
  BY <1>1, FS_CardinalityType
<1>3. PICK x \in S : \A y \in S : x >= y
  BY <1>2
<1>4. Max(S) \in S /\ \A y \in S : Max(S) >= y
  BY <1>3, Zenon DEF Max
<1> QED
  BY <1>4

-----------------------------------------------------------------------------
(* The types of the assembly. *)

AssemblyTypeOK ==
  /\ log_stream \in [Stream -> Seq(Log)]
  /\ lost \subseteq Log
  /\ interests \subseteq Stream
  /\ attested_log_coverage \in Nat \cup {None}
  /\ highest_observed_block \in Nat \cup {None}
  /\ buffered_logs \subseteq Log /\ discarded \subseteq Log
  /\ \A n \in DOMAIN pending_headers : Number[pending_headers[n]] = n
  /\ grace_elapsed \subseteq DOMAIN pending_headers

CounterTypeOK == switches \in 0..MaxSwitches /\ topology \in 0..MaxTopology

\* The logs a batch holds, and what they do to highest_observed_block.
ReadLogs(nl) == UNION {Range(SubSeq(log_stream[s], 1, nl[s])) : s \in Stream}

\* One batch reads finitely many logs.
LEMMA ReadLogsFinite ==
  ASSUME AssemblyTypeOK, NEW nl \in [Stream -> Nat],
         \A s \in Stream : nl[s] <= Len(log_stream[s])
  PROVE  ReadLogs(nl) \subseteq Log /\ IsFiniteSet(ReadLogs(nl))
<1> DEFINE part(s) == SubSeq(log_stream[s], 1, nl[s])
           f == [s \in Stream |-> Range(part(s))]
<1>1. ASSUME NEW s \in Stream
      PROVE  part(s) \in Seq(Log) /\ Range(part(s)) \subseteq Log /\ IsFiniteSet(Range(part(s)))
  <2>1. part(s) \in Seq(Log)
    <3>1. log_stream[s] \in Seq(Log) /\ nl[s] \in Nat
      BY DEF AssemblyTypeOK
    <3> QED
      BY <3>1, OrderedSplit
  <2> HIDE DEF part
  <2>2. PICK q \in Seq(Log) : q = part(s)
    BY <2>1
  <2>3. DOMAIN q = 1..Len(q) /\ q = [i \in 1..Len(q) |-> q[i]] /\ Len(q) \in Nat
    OBVIOUS
  <2>4. IsFiniteSet(1..Len(q))
    BY <2>3, FS_Interval, 1 \in Int, Len(q) \in Int
  <2>5. IsFiniteSet({q[i] : i \in 1..Len(q)})
    BY <2>3, <2>4, FiniteImage
  <2>6. Range(q) = {q[i] : i \in 1..Len(q)}
    BY <2>3 DEF Range
  <2>7. Range(q) \subseteq Log
    BY <2>3 DEF Range
  <2> QED
    BY <2>1, <2>2, <2>5, <2>6, <2>7
<1>2. IsFiniteSet(Stream)
  BY ConfigAssumption
<1>3. DOMAIN f = Stream /\ f = [s \in Stream |-> f[s]]
  OBVIOUS
<1>4. IsFiniteSet({f[s] : s \in Stream})
  <2> HIDE DEF f
  <2> QED
    BY <1>2, <1>3, FiniteImage
<1>5. \A T \in {f[s] : s \in Stream} : IsFiniteSet(T) /\ T \subseteq Log
  BY <1>1
<1>6. ReadLogs(nl) = UNION {f[s] : s \in Stream}
  BY DEF ReadLogs
<1>7. IsFiniteSet(UNION {f[s] : s \in Stream})
  <2> HIDE DEF f
  <2> QED
    BY <1>4, <1>5, FS_UNION
<1> HIDE DEF f
<1> QED
  BY <1>5, <1>6, <1>7

\* The heights of finitely many logs are finitely many numbers.
LEMMA HeightsFinite ==
  ASSUME NEW logs, IsFiniteSet(logs)
  PROVE  IsFiniteSet({Height(l) : l \in logs})
<1>1. PICK g : g = [l \in logs |-> Height(l)]
  OBVIOUS
<1>2. DOMAIN g = logs /\ g = [l \in logs |-> g[l]]
  BY <1>1
<1>3. IsFiniteSet({g[l] : l \in logs})
  BY <1>2, FiniteImage
<1>4. {g[l] : l \in logs} = {Height(l) : l \in logs}
  BY <1>1
<1> QED
  BY <1>3, <1>4

\* note_observed_block never lowers the watermark, and reaches every log it saw.
LEMMA NoteObserved ==
  ASSUME AssemblyTypeOK, NEW logs \in SUBSET Log, IsFiniteSet(logs)
  PROVE  /\ note_observed_block(logs) \in Nat \cup {None}
         /\ \/ note_observed_block(logs) = highest_observed_block
            \/ \E l \in logs : note_observed_block(logs) = Height(l)
<1> USE TreeAssumption, LogAssumption
<1> DEFINE H == {Height(l) : l \in logs}
           S == {highest_observed_block} \cup H
<1>2. IsFiniteSet(H)
  BY HeightsFinite
<1>3. IsFiniteSet(S)
  <2>1. IsFiniteSet(H \cup {highest_observed_block})
    BY <1>2, FS_AddElement
  <2>2. S = H \cup {highest_observed_block}
    OBVIOUS
  <2> QED
    BY <2>1, <2>2
<1>4. H \subseteq Nat
  BY DEF Height
<1>5. S \subseteq Int /\ S \subseteq Nat \cup {None} /\ S # {}
  <2>1. highest_observed_block \in Nat \cup {None} /\ None \in Int
    BY DEF AssemblyTypeOK, None
  <2> HIDE DEF H
  <2> QED
    BY <1>4, <2>1
<1>6. Max(S) \in S
  <2> HIDE DEF S
  <2> QED
    BY <1>3, <1>5, FiniteMax
<1>7. note_observed_block(logs) = Max(S)
  BY DEF note_observed_block, Height
<1> QED
  BY <1>5, <1>6, <1>7

\* The pending headers keep their numbers through insert_pending.
LEMMA InsertPendingNumbers ==
  ASSUME AssemblyTypeOK, NEW hs \in Seq(Block)
  PROVE  /\ DOMAIN insert_pending(hs) = DOMAIN pending_headers \cup {Number[h] : h \in Range(hs)}
         /\ \A n \in DOMAIN insert_pending(hs) :
              /\ Number[insert_pending(hs)[n]] = n
              /\ \/ insert_pending(hs)[n] \in Range(hs)
                 \/ n \in DOMAIN pending_headers /\ insert_pending(hs)[n] = pending_headers[n]
<1> DEFINE numbers == {Number[h] : h \in Range(hs)}
           at(n) == {i \in 1..Len(hs) : Number[hs[i]] = n}
           last(n) == hs[Max(at(n))]
<1>1. Len(hs) \in Nat /\ DOMAIN hs = 1..Len(hs)
  OBVIOUS
<1>2. \A n \in numbers : last(n) \in Range(hs) /\ Number[last(n)] = n
  <2> TAKE n \in numbers
  <2>1. at(n) # {}
    BY <1>1 DEF Range
  <2>2. Max(at(n)) \in at(n)
    BY <1>1, <2>1, MaxBounded, at(n) \subseteq 1..Len(hs), Zenon
  <2> QED
    BY <1>1, <2>2 DEF Range
<1>3. insert_pending(hs) = [n \in DOMAIN pending_headers \cup numbers |->
                              IF n \in numbers THEN last(n) ELSE pending_headers[n]]
  BY Zenon DEF insert_pending
<1> HIDE DEF last
<1>4. DOMAIN insert_pending(hs) = DOMAIN pending_headers \cup numbers
  BY <1>3
<1>5. \A n \in DOMAIN insert_pending(hs) :
        insert_pending(hs)[n] = IF n \in numbers THEN last(n) ELSE pending_headers[n]
  BY <1>3
<1>6. \A n \in DOMAIN pending_headers : Number[pending_headers[n]] = n
  BY DEF AssemblyTypeOK
<1> QED
  BY <1>2, <1>4, <1>5, <1>6

\* What a batch of the subscriber holds.
LEMMA BatchShape ==
  ASSUME IInv, AssemblyTypeOK, ReadBatch
  PROVE  \E nh \in Nat, nl \in [Stream -> Nat], covered \in {None} \cup {Number[b] : b \in Attestable} :
           /\ nh <= Len(headers)
           /\ \A s \in Stream : nl[s] <= Len(log_stream[s])
           /\ SubSeq(headers, 1, nh) \in Seq(Block)
           /\ handle_batch(nh, nl, covered)
<1>1. PICK nh \in 0..Min({MaxBatch, Len(headers)}),
             nl \in [Stream -> 0..MaxBatch],
             covered \in {None} \cup {Number[b] : b \in Attestable} :
        /\ \A s \in Stream : nl[s] <= Len(log_stream[s])
        /\ handle_batch(nh, nl, covered)
  BY Zenon DEF ReadBatch
<1>2. headers \in Seq(Block) /\ Len(headers) \in Nat
  BY DEF IInv, DeliveryTypeOK
<1>3. nh \in Nat /\ nh <= Len(headers)
  <2>1. {MaxBatch, Len(headers)} \subseteq Nat
    BY <1>2, ConfigAssumption
  <2>2. Min({MaxBatch, Len(headers)}) \in Nat /\ Min({MaxBatch, Len(headers)}) <= Len(headers)
    BY <2>1, MinNat
  <2> QED
    BY <1>2, <2>2
<1>4. SubSeq(headers, 1, nh) \in Seq(Block)
  BY <1>2, <1>3, SubSeqType
<1>5. nl \in [Stream -> Nat]
  <2>1. MaxBatch \in Nat
    BY ConfigAssumption
  <2>2. 0..MaxBatch \subseteq Nat
    BY <2>1
  <2> QED
    BY <2>2
<1> QED
  BY <1>1, <1>3, <1>4, <1>5

\* What reading a batch does to the state.
LEMMA ReadBatchEffect ==
  ASSUME NEW nh, NEW nl, NEW covered, handle_batch(nh, nl, covered), Source = "Subscription"
  PROVE  /\ control = "idle" /\ control' = "drain"
         /\ headers' = SubSeq(headers, nh + 1, Len(headers))
         /\ log_stream' = [s \in Stream |->
                             SubSeq(log_stream[s], nl[s] + 1, Len(log_stream[s]))]
         /\ attested_log_coverage' = note_log_coverage(covered)
         /\ buffered_logs' = buffered_logs \cup ReadLogs(nl)
         /\ highest_observed_block' = note_observed_block(ReadLogs(nl))
         /\ pending_headers' = insert_pending(SubSeq(headers, 1, nh))
         /\ grace_elapsed' = grace_elapsed \ {Number[h] : h \in Range(SubSeq(headers, 1, nh))}
         /\ UNCHANGED <<node_head, switches, lost, topology, interests,
                        canonical_lineage, delivery, point, batches, discarded>>
BY Zenon DEF handle_batch, ReadLogs

\* An attestation names a block of the node's chain at or below which nothing was lost.
LEMMA AttestedBlock ==
  ASSUME NEW covered \in {None} \cup {Number[b] : b \in Attestable}, node_head \in Block
  PROVE  \/ covered = None
         \/ \E b \in Block : /\ OnChain(b, node_head) /\ covered = Number[b] /\ covered \in Nat
                             /\ \A l \in lost : ~OnChain(LogBlock[l], b)
<1>1. ASSUME NEW b \in Attestable, covered = Number[b]
      PROVE  \E c \in Block : /\ OnChain(c, node_head) /\ covered = Number[c] /\ covered \in Nat
                              /\ \A l \in lost : ~OnChain(LogBlock[l], c)
  <2>1. OnChain(b, node_head) /\ \A l \in lost : ~OnChain(LogBlock[l], b)
    BY DEF Attestable, OnChain
  <2>2. b \in Block
    BY <2>1, OnChainIndex
  <2> QED
    BY <1>1, <2>1, <2>2, TreeAssumption
<1> QED
  BY <1>1

\* The logs that the node announces to interest s when its head moves to b, less
\* the ones the transport drops.
NewLogs(b, s, dropped) ==
  {l \in Log : /\ s \in interests /\ OnChain(LogBlock[l], b) /\ ~OnChain(LogBlock[l], node_head)
               /\ LogStream[l] = s /\ l \notin dropped}

\* What a movement of the head does to the streams and the headers in flight.
LEMMA SwitchHeadEffect ==
  ASSUME IInv, AssemblyTypeOK, NEW b \in Block, SwitchHead(b)
  PROVE  \E dropped \in SUBSET Log :
           /\ \A l \in dropped : OnChain(LogBlock[l], b) /\ ~OnChain(LogBlock[l], node_head)
           /\ lost' = lost \cup dropped
           /\ log_stream' \in [Stream -> Seq(Log)]
           /\ \A s \in Stream :
                /\ Range(log_stream'[s]) = Range(log_stream[s]) \cup NewLogs(b, s, dropped)
                /\ /\ Ordered(log_stream[s])
                   /\ \A x \in Range(log_stream[s]) : \A y \in NewLogs(b, s, dropped) :
                        Height(x) <= Height(y)
                   => Ordered(log_stream'[s])
           /\ \A h \in Range(headers') : h \in Range(headers) \/ OnChain(h, b)
<1> DEFINE new == NewlyCanonical(node_head, b)
           sent == {l \in Log : LogBlock[l] \in Range(new) /\ LogStream[l] \in interests}
<1>1. PICK dropped \in SUBSET sent, first \in 1..(IF SkipsHeaders THEN Len(new) ELSE 1) :
        /\ lost' = lost \cup dropped
        /\ headers' = headers \o SubSeq(new, first, Len(new))
        /\ log_stream' = [s \in Stream |->
             IF s \in interests
             THEN log_stream[s] \o Notifications(new, s, dropped)
             ELSE log_stream[s]]
  BY Zenon DEF SwitchHead
<1>2. node_head \in Block /\ headers \in Seq(Block) /\ new \in Seq(Block)
  BY NewlyCanonicalType DEF IInv, DeliveryTypeOK
<1>3. Range(new) = {x \in Block : OnChain(x, b) /\ ~OnChain(x, node_head)}
  BY <1>2, NewNotifications
<1>4. dropped \in SUBSET Log /\ \A l \in dropped : OnChain(LogBlock[l], b) /\ ~OnChain(LogBlock[l], node_head)
  BY <1>1, <1>3
<1>5. ASSUME NEW s \in Stream
      PROVE  /\ log_stream'[s] \in Seq(Log)
             /\ Range(log_stream'[s]) = Range(log_stream[s]) \cup NewLogs(b, s, dropped)
             /\ /\ Ordered(log_stream[s])
                /\ \A x \in Range(log_stream[s]) : \A y \in NewLogs(b, s, dropped) :
                     Height(x) <= Height(y)
                => Ordered(log_stream'[s])
  <2>1. log_stream[s] \in Seq(Log)
    BY DEF AssemblyTypeOK
  <2>2. CASE s \in interests
    <3>1. PICK q : q = Notifications(new, s, dropped)
      OBVIOUS
    <3>2. q \in Seq(Log) /\ Ordered(q) /\ Range(q) = NewLogs(b, s, dropped)
      <4>1. /\ q \in Seq(Log) /\ Ordered(q)
            /\ Range(q) = {l \in Log : /\ OnChain(LogBlock[l], b) /\ ~OnChain(LogBlock[l], node_head)
                                       /\ LogStream[l] = s /\ l \notin dropped}
        BY <1>2, <3>1, NewNotifications
      <4> QED
        BY <2>2, <4>1 DEF NewLogs
    <3>3. log_stream'[s] = log_stream[s] \o q
      BY <1>1, <2>2, <3>1, Zenon
    <3> QED
      BY <2>1, <3>2, <3>3, OrderedConcat, Zenon
  <2>3. CASE s \notin interests
    <3>1. log_stream'[s] = log_stream[s]
      BY <1>1, <2>3, Zenon
    <3>2. NewLogs(b, s, dropped) = {}
      BY <2>3 DEF NewLogs
    <3> QED
      BY <2>1, <3>1, <3>2
  <2> QED
    BY <2>2, <2>3
<1>6. log_stream' \in [Stream -> Seq(Log)]
  <2>1. DOMAIN log_stream' = Stream /\ log_stream' = [s \in Stream |-> log_stream'[s]]
    BY <1>1
  <2> QED
    BY <1>5, <2>1
<1>7. \A h \in Range(headers') : h \in Range(headers) \/ OnChain(h, b)
  <2>1. PICK n \in Nat : n = Len(new)
    BY <1>2
  <2>2. first \in Nat \ {0}
    BY <1>1, <2>1
  <2>3. PICK t \in Seq(Block) : t = SubSeq(new, first, n) /\ headers' = headers \o t
    <3>1. SubSeq(new, first, n) \in Seq(Block)
      <4> HIDE DEF new
      <4>1. n <= Len(new)
        BY <2>1
      <4> QED
        BY <1>2, <2>1, <2>2, <4>1, SubSeqType, Zenon
    <3> QED
      BY <1>1, <2>1, <3>1
  <2>4. \A i \in 1..Len(t) : t[i] \in Range(new)
    <3> HIDE DEF new
    <3> TAKE i \in 1..Len(t)
    <3>0. \A j \in first..n : new[j] \in Block
      <4> TAKE j \in first..n
      <4>1. j \in 1..n
        BY <2>2
      <4> QED
        BY <1>2, <2>1, <4>1
    <3>1. /\ Len(t) = IF first <= n THEN n - first + 1 ELSE 0
          /\ \A j \in 1..(n - first + 1) : t[j] = new[first + j - 1]
      BY <2>1, <2>2, <2>3, <3>0, SubSeqProperties
    <3>2. i \in 1..(n - first + 1) /\ first + i - 1 \in 1..n
      BY <2>1, <2>2, <3>1
    <3>3. t[i] = new[first + i - 1]
      BY <3>1, <3>2
    <3> QED
      BY <1>2, <2>1, <3>2, <3>3, InRange
  <2>5. \A h \in Range(t) : OnChain(h, b)
    BY <1>3, <2>4, InRange
  <2>6. \A h \in Range(headers \o t) : h \in Range(headers) \/ h \in Range(t)
    <3>1. PICK m \in Nat, k \in Nat : m = Len(headers) /\ k = Len(t)
      BY <1>2
    <3>2. /\ headers \o t \in Seq(Block) /\ Len(headers \o t) = m + k
          /\ \A i \in 1..(m + k) : (headers \o t)[i] = IF i <= m THEN headers[i] ELSE t[i - m]
      BY <1>2, <3>1, ConcatProperties
    <3>3. \A i \in 1..(m + k) : i \in 1..m \/ (~(i <= m) /\ i - m \in 1..k)
      BY <3>1
    <3> TAKE h \in Range(headers \o t)
    <3>4. PICK i \in 1..(m + k) : (headers \o t)[i] = h
      BY <3>2, InRange
    <3>5. CASE i \in 1..m
      <4>1. headers[i] = h
        BY <3>1, <3>2, <3>4, <3>5
      <4> QED
        BY <1>2, <3>1, <3>5, <4>1, InRange
    <3>6. CASE ~(i <= m) /\ i - m \in 1..k
      <4>1. t[i - m] = h
        BY <3>2, <3>4, <3>6
      <4> QED
        BY <2>3, <3>1, <3>6, <4>1, InRange
    <3> QED
      BY <3>3, <3>5, <3>6
  <2> QED
    BY <2>3, <2>5, <2>6
<1> QED
  BY <1>1, <1>4, <1>5, <1>6, <1>7

\* A step that leaves the streams, the interests and the assembly alone.
SameAssembly ==
  UNCHANGED <<log_stream, lost, interests, attested_log_coverage, highest_observed_block,
              buffered_logs, discarded, pending_headers, grace_elapsed>>

\* Steps that leave the assembly alone keep its types.
LEMMA SameAssemblyTypes ==
  ASSUME AssemblyTypeOK, SameAssembly
  PROVE  AssemblyTypeOK'
BY DEF AssemblyTypeOK, SameAssembly

\* Taking numbers out of the pending headers.
LEMMA FewerPending ==
  ASSUME AssemblyTypeOK, NEW D \in SUBSET DOMAIN pending_headers,
         pending_headers' = Restrict(pending_headers, D)
  PROVE  /\ DOMAIN pending_headers' = D
         /\ \A n \in D : pending_headers'[n] = pending_headers[n]
         /\ \A n \in DOMAIN pending_headers' : Number[pending_headers'[n]] = n
<1>1. pending_headers' = [n \in D |-> pending_headers[n]]
  BY DEF Restrict
<1> QED
  BY <1>1 DEF AssemblyTypeOK

\* handle_batch keeps the types of the assembly.
LEMMA ReadBatchTypes ==
  ASSUME IInv, AssemblyTypeOK, ReadBatch
  PROVE  AssemblyTypeOK'
<1>1. PICK nh \in Nat, nl \in [Stream -> Nat], covered \in {None} \cup {Number[b] : b \in Attestable} :
        /\ nh <= Len(headers)
        /\ \A s \in Stream : nl[s] <= Len(log_stream[s])
        /\ SubSeq(headers, 1, nh) \in Seq(Block)
        /\ handle_batch(nh, nl, covered)
  BY BatchShape
<1>2. /\ log_stream' = [s \in Stream |-> SubSeq(log_stream[s], nl[s] + 1, Len(log_stream[s]))]
      /\ attested_log_coverage' = note_log_coverage(covered)
      /\ UNCHANGED <<lost, interests, discarded>>
  BY <1>1 DEF handle_batch
<1>3. log_stream' \in [Stream -> Seq(Log)]
  <2>1. \A s \in Stream : SubSeq(log_stream[s], nl[s] + 1, Len(log_stream[s])) \in Seq(Log)
    <3> TAKE s \in Stream
    <3>1. log_stream[s] \in Seq(Log) /\ nl[s] \in Nat /\ nl[s] <= Len(log_stream[s])
      BY <1>1 DEF AssemblyTypeOK
    <3> QED
      BY <3>1, OrderedSplit
  <2> QED
    BY <1>2, <2>1
<1>4. attested_log_coverage' \in Nat \cup {None}
  <2>1. covered \in Nat \cup {None}
    <3>1. node_head \in Block
      BY DEF IInv, DeliveryTypeOK
    <3> QED
      BY <3>1, AttestedBlock
  <2> QED
    BY <1>2, <2>1 DEF note_log_coverage, AssemblyTypeOK
<1>5. CASE Source = "Subscription"
  <2> DEFINE hs == SubSeq(headers, 1, nh)
  <2>1. /\ buffered_logs' = buffered_logs \cup ReadLogs(nl)
        /\ highest_observed_block' = note_observed_block(ReadLogs(nl))
        /\ pending_headers' = insert_pending(hs)
        /\ grace_elapsed' = grace_elapsed \ {Number[h] : h \in Range(hs)}
    BY <1>1, <1>5, ReadBatchEffect
  <2>2. ReadLogs(nl) \in SUBSET Log /\ IsFiniteSet(ReadLogs(nl))
    BY <1>1, ReadLogsFinite
  <2>3. highest_observed_block' \in Nat \cup {None}
    BY <2>1, <2>2, NoteObserved
  <2>4. /\ DOMAIN pending_headers' = DOMAIN pending_headers \cup {Number[h] : h \in Range(hs)}
        /\ \A n \in DOMAIN pending_headers' : Number[pending_headers'[n]] = n
    BY <1>1, <2>1, InsertPendingNumbers
  <2>5. grace_elapsed' \subseteq DOMAIN pending_headers'
    BY <2>1, <2>4 DEF AssemblyTypeOK
  <2> QED
    BY <1>2, <1>3, <1>4, <2>1, <2>2, <2>3, <2>4, <2>5 DEF AssemblyTypeOK
<1>6. CASE Source # "Subscription"
  <2>1. UNCHANGED <<buffered_logs, highest_observed_block, pending_headers, grace_elapsed>>
    BY <1>1, <1>6 DEF handle_batch
  <2> QED
    BY <1>2, <1>3, <1>4, <2>1 DEF AssemblyTypeOK
<1> QED
  BY <1>5, <1>6

\* A movement of the head keeps the types of the assembly.
LEMMA SwitchHeadTypes ==
  ASSUME IInv, AssemblyTypeOK, NEW b \in Block, SwitchHead(b)
  PROVE  AssemblyTypeOK'
<1>1. PICK dropped \in SUBSET Log : lost' = lost \cup dropped /\ log_stream' \in [Stream -> Seq(Log)]
  BY SwitchHeadEffect
<1>2. UNCHANGED <<interests, attested_log_coverage, highest_observed_block, buffered_logs,
                  discarded, pending_headers, grace_elapsed>>
  BY DEF SwitchHead, assembly
<1> QED
  BY <1>1, <1>2 DEF AssemblyTypeOK

\* An iteration of drain_sealable keeps them.
LEMMA DrainTypes ==
  ASSUME IInv, AssemblyTypeOK, drain_sealable
  PROVE  AssemblyTypeOK'
<1>1. UNCHANGED <<log_stream, lost, interests>>
  BY DEF drain_sealable, external
<1>2. CASE UNCHANGED assembly
  BY <1>1, <1>2, SameAssemblyTypes DEF SameAssembly, assembly
<1>3. ASSUME NEW n,
             pending_headers' = Restrict(pending_headers, DOMAIN pending_headers \ {n}),
             grace_elapsed' = grace_elapsed \ {n},
             UNCHANGED <<attested_log_coverage, highest_observed_block, buffered_logs, discarded>>
      PROVE  AssemblyTypeOK'
  <2>1. /\ DOMAIN pending_headers' = DOMAIN pending_headers \ {n}
        /\ \A k \in DOMAIN pending_headers' : Number[pending_headers'[k]] = k
    BY <1>3, FewerPending, DOMAIN pending_headers \ {n} \in SUBSET DOMAIN pending_headers
  <2> QED
    BY <1>1, <1>3, <2>1 DEF AssemblyTypeOK
<1> QED
  BY <1>2, <1>3, Zenon DEF drain_sealable

\* The delivery of a block keeps them.
LEMMA DeliverBlockTypes ==
  ASSUME IInv, AssemblyTypeOK, deliver_block
  PROVE  AssemblyTypeOK'
<1>1. PICK number, logs : logs \subseteq buffered_logs /\ retire_buffered_logs_through(number, logs)
  BY DEF deliver_block
<1>2. UNCHANGED <<log_stream, lost, interests, attested_log_coverage, highest_observed_block, discarded>>
  BY DEF deliver_block, external
<1>3. DOMAIN pending_headers \subseteq Nat
  BY DEF IInv, DeliveryTypeOK
<1>4. /\ pending_headers' = Restrict(pending_headers, {n \in DOMAIN pending_headers : n > number})
      /\ buffered_logs' = {l \in logs : Number[LogBlock[l]] > number}
      /\ grace_elapsed' = {n \in grace_elapsed : n > number}
  BY <1>1 DEF retire_buffered_logs_through
<1>5. /\ DOMAIN pending_headers' = {n \in DOMAIN pending_headers : n > number}
      /\ \A k \in DOMAIN pending_headers' : Number[pending_headers'[k]] = k
  BY <1>4, FewerPending, {n \in DOMAIN pending_headers : n > number} \in SUBSET DOMAIN pending_headers
<1> QED
  BY <1>1, <1>2, <1>4, <1>5 DEF AssemblyTypeOK

\* The walk keeps them, whether or not it resets the assembly.
LEMMA DeliveryLineageTypes ==
  ASSUME IInv, AssemblyTypeOK, delivery_lineage
  PROVE  AssemblyTypeOK'
<1>1. UNCHANGED <<log_stream, lost, interests>>
  BY DEF delivery_lineage, external
<1>2. CASE UNCHANGED assembly
  BY <1>1, <1>2, SameAssemblyTypes DEF SameAssembly, assembly
<1>3. CASE reset_subscription_assembly
  BY <1>1, <1>3 DEF reset_subscription_assembly, AssemblyTypeOK
<1> QED
  BY <1>2, <1>3, Zenon DEF delivery_lineage

\* A topology commit keeps them.
LEMMA TopologyTypes ==
  ASSUME IInv, AssemblyTypeOK, NEW s \in Stream, commit_add(s) \/ commit_remove(s)
  PROVE  AssemblyTypeOK'
<1>1. PICK q \in Seq(Log) : log_stream' = [log_stream EXCEPT ![s] = q]
  <2>1. point \in Block /\ node_head \in Block
    BY DEF IInv, DeliveryTypeOK
  <2>2. Notifications(NewlyCanonical(point, node_head), s, {}) \in Seq(Log)
    BY <2>1, NewNotifications
  <2>3. <<>> \in Seq(Log)
    OBVIOUS
  <2> QED
    BY <2>2, <2>3 DEF commit_add, commit_remove
<1>2. interests' \subseteq Stream
  BY DEF commit_add, commit_remove, AssemblyTypeOK
<1>3. UNCHANGED <<lost, attested_log_coverage, highest_observed_block, buffered_logs,
                  discarded, pending_headers, grace_elapsed>>
  BY DEF commit_add, commit_remove, assembly
<1>4. log_stream' \in [Stream -> Seq(Log)]
  BY <1>1 DEF AssemblyTypeOK
<1> QED
  BY <1>2, <1>3, <1>4 DEF AssemblyTypeOK

\* Every step keeps the types of the assembly.
LEMMA NextAssemblyTypes == IInv /\ AssemblyTypeOK /\ [Next]_vars => AssemblyTypeOK'
<1> SUFFICES ASSUME IInv, AssemblyTypeOK, [Next]_vars PROVE AssemblyTypeOK'
  OBVIOUS
<1>1. CASE \E b \in Block : SwitchHead(b)
  BY <1>1, SwitchHeadTypes
<1>2. CASE ReadBatch
  BY <1>2, ReadBatchTypes
<1>3. CASE \E b \in Block : seal_deadline(Number[b])
  BY <1>3 DEF seal_deadline, external, AssemblyTypeOK
<1>4. CASE drain_sealable
  BY <1>4, DrainTypes
<1>5. CASE next_batch_header \/ finish_delivery \/ driver_error
  <2>1. SameAssembly
    BY <1>5 DEF next_batch_header, finish_delivery, driver_error, external, assembly, SameAssembly
  <2> QED
    BY <2>1, SameAssemblyTypes
<1>6. CASE delivery_lineage
  BY <1>6, DeliveryLineageTypes
<1>7. CASE deliver_block
  BY <1>7, DeliverBlockTypes
<1>8. CASE \E s \in Stream : commit_add(s) \/ commit_remove(s)
  BY <1>8, TopologyTypes
<1>9. CASE UNCHANGED vars
  <2>1. SameAssembly
    BY <1>9 DEF vars, external, assembly, SameAssembly
  <2> QED
    BY <2>1, SameAssemblyTypes
<1> QED
  BY <1>1, <1>2, <1>3, <1>4, <1>5, <1>6, <1>7, <1>8, <1>9, Zenon DEF Next

\* They hold of the driver that starts.
LEMMA InitAssemblyTypes == Init => AssemblyTypeOK
<1> SUFFICES ASSUME Init PROVE AssemblyTypeOK
  OBVIOUS
<1>1. \A s \in Stream : <<>> \in Seq(Log)
  OBVIOUS
<1>2. interests \subseteq Stream
  BY ConfigAssumption DEF Init
<1> QED
  BY <1>1, <1>2 DEF Init, AssemblyTypeOK

\* The two bounded counters stay within their bounds.
LEMMA NextCounters == CounterTypeOK /\ [Next]_vars => CounterTypeOK'
<1> SUFFICES ASSUME CounterTypeOK, [Next]_vars PROVE CounterTypeOK'
  OBVIOUS
<1>1. MaxSwitches \in Nat /\ MaxTopology \in Nat
  BY ConfigAssumption
<1>2. CASE \E b \in Block : SwitchHead(b)
  BY <1>1, <1>2 DEF SwitchHead, CounterTypeOK
<1>3. CASE \E s \in Stream : commit_add(s) \/ commit_remove(s)
  BY <1>1, <1>3 DEF commit_add, commit_remove, CounterTypeOK
<1>4. CASE UNCHANGED <<switches, topology>>
  BY <1>4 DEF CounterTypeOK
<1>5. \/ \E b \in Block : SwitchHead(b)
      \/ \E s \in Stream : commit_add(s) \/ commit_remove(s)
      \/ UNCHANGED <<switches, topology>>
  BY Zenon DEF Next, ReadBatch, handle_batch, seal_deadline, drain_sealable, next_batch_header,
     delivery_lineage, deliver_block, finish_delivery, driver_error, vars, external
<1> QED
  BY <1>2, <1>3, <1>4, <1>5

\* They start at zero.
LEMMA InitCounters == Init => CounterTypeOK
BY ConfigAssumption DEF Init, CounterTypeOK

\* The lineage invariant and the types of the assembly hold together.
LEMMA AssemblyInvariance == Spec => [](IInv /\ AssemblyTypeOK)
<1>1. AssemblyTypeOK /\ UNCHANGED vars /\ IInv => AssemblyTypeOK'
  BY NextAssemblyTypes
<1> QED
  BY Invariance, InitAssemblyTypes, NextAssemblyTypes, PTL DEF Spec

\* Every variable of the assembly stays in its range, every pending header is
\* filed under its own number and grace_elapsed only names pending headers, for
\* every tree, transport and topology (handle_batch, drain_sealable,
\* retire_buffered_logs_through, reset_subscription_assembly).
THEOREM AssemblyTypes == Spec => []TypeOK
<1>1. IInv /\ AssemblyTypeOK /\ CounterTypeOK => TypeOK
  <2> SUFFICES ASSUME IInv, AssemblyTypeOK, CounterTypeOK PROVE TypeOK
    OBVIOUS
  <2>1. DOMAIN canonical_lineage \subseteq Nat
    BY DEF IInv, LineageInv, Retention
  <2> QED
    BY <2>1 DEF IInv, LineageInv, AssemblyTypeOK, CounterTypeOK, TypeOK
<1> QED
  BY <1>1, AssemblyInvariance, InitCounters, NextCounters, PTL DEF Spec

-----------------------------------------------------------------------------
(* Why a seal is complete.  The node replaces blocks only when everything it   *)
(* announced was delivered, so what is in flight is on one chain; between such *)
(* a replacement and the reset it leads to the watermarks mean nothing.        *)

OnNode(b) == OnChain(b, node_head)

\* The watermarks speak of the node's chain.
Aligned == OnNode(point) \/ (control = "deliver" /\ ~delivery.straight_line)

\* No header that waits or is walked is off the node's chain.
HeadersOnNode ==
  /\ Number[point] <= Number[node_head]
  /\ \A h \in Range(headers) : OnNode(h)
  /\ \A n \in DOMAIN pending_headers : OnNode(pending_headers[n])
  /\ control \in {"walk", "deliver"} => \A h \in Range(delivery.lineage) : OnNode(h)

\* The unread notifications of an interest are of its logs, on the node's chain
\* and in block order.
StreamsInOrder ==
  \A s \in Stream :
    /\ Ordered(log_stream[s])
    /\ \A l \in Range(log_stream[s]) : s \in interests /\ LogStream[l] = s /\ OnNode(LogBlock[l])

\* Every log of a registered interest in a block that is still to be delivered
\* is somewhere.
Accounted ==
  \A l \in Log :
    LogStream[l] \in interests /\ OnNode(LogBlock[l]) /\ ~OnChain(LogBlock[l], point)
    => l \in lost \cup Range(log_stream[LogStream[l]]) \cup buffered_logs \cup discarded

\* The attested watermark stays below every lost notification of the chain.
CoverageInv ==
  /\ attested_log_coverage <= Number[node_head]
  /\ Aligned => \A l \in lost : OnNode(LogBlock[l]) => attested_log_coverage < Height(l)

\* With one interest nothing unread is below the highest block observed.
ObservedInv ==
  /\ highest_observed_block <= Number[node_head]
  /\ interests = {} => highest_observed_block = None
  /\ Aligned /\ single_log_interest =>
       \A s \in interests : \A l \in Range(log_stream[s]) : highest_observed_block <= Height(l)

\* A proof found for a header is still one when its block is sealed.
ClosedInv ==
  control \in {"walk", "deliver"} /\ delivery.straight_line /\ delivery.lineage # <<>> =>
    /\ Len(delivery.lineage) = 1
    /\ straight_line(delivery.lineage[1])
    /\ delivery.sealable => subscription_seal_reason(delivery.lineage[1])

SealInv ==
  /\ HeadersOnNode /\ StreamsInOrder /\ Accounted
  /\ CoverageInv /\ ObservedInv /\ ClosedInv

\* What the steps may rely on.
Context == IInv /\ AssemblyTypeOK /\ SealInv

\* The height of a log is the number of a block.
LEMMA HeightNat == \A l \in Log : LogBlock[l] \in Block /\ Height(l) \in Nat
BY TreeAssumption, LogAssumption DEF Height

\* The types the seal argument uses.
LEMMA ContextTypes ==
  ASSUME Context
  PROVE  /\ node_head \in Block /\ Number[node_head] \in Nat
         /\ point \in Block /\ Number[point] \in Nat
         /\ headers \in Seq(Block) /\ delivery.lineage \in Seq(Block)
         /\ attested_log_coverage \in Int /\ highest_observed_block \in Int
         /\ lost \subseteq Log
         /\ \A s \in Stream : log_stream[s] \in Seq(Log) /\ Range(log_stream[s]) \subseteq Log
         /\ IsFiniteSet(interests)
<1>1. node_head \in Block /\ point \in Block /\ headers \in Seq(Block) /\ delivery.lineage \in Seq(Block)
  BY DEF Context, IInv, DeliveryTypeOK
<1>2. Number[node_head] \in Nat /\ Number[point] \in Nat
  BY <1>1, TreeAssumption
<1>3. attested_log_coverage \in Nat \cup {-1} /\ highest_observed_block \in Nat \cup {-1}
  BY DEF Context, AssemblyTypeOK, None
<1>4. lost \subseteq Log
  BY DEF Context, AssemblyTypeOK
<1>5. \A s \in Stream : log_stream[s] \in Seq(Log)
  BY DEF Context, AssemblyTypeOK
<1>6. \A s \in Stream : Range(log_stream[s]) \subseteq Log
  <2> TAKE s \in Stream
  <2>1. PICK q \in Seq(Log) : q = log_stream[s]
    BY <1>5
  <2>2. Range(q) \subseteq Log
    BY InRange
  <2> QED
    BY <2>1, <2>2
<1>7. IsFiniteSet(interests)
  <2>1. interests \in SUBSET Stream /\ IsFiniteSet(Stream)
    BY ConfigAssumption DEF Context, AssemblyTypeOK
  <2> QED
    BY <2>1, FS_Subset
<1> QED
  BY <1>1, <1>2, <1>3, <1>4, <1>5, <1>6, <1>7

\* A log of the node's chain that is not on the chain of one of its blocks is
\* above that block.
LEMMA AboveOnChain ==
  ASSUME NEW b \in Block, NEW c, NEW l \in Log, OnChain(c, b), OnChain(LogBlock[l], b),
         ~OnChain(LogBlock[l], c)
  PROVE  Height(l) > Number[c]
<1>1. ~(Number[LogBlock[l]] <= Number[c])
  BY ChainOrder
<1>2. c \in Block /\ LogBlock[l] \in Block
  BY OnChainIndex
<1>3. Number[c] \in Nat /\ Number[LogBlock[l]] \in Nat
  BY <1>2, TreeAssumption
<1> QED
  BY <1>1, <1>3 DEF Height

\* The node's head moves along its own chain.
LEMMA ExtendSeal ==
  ASSUME Context, NEW b \in Block, SwitchHead(b), OnChain(node_head, b)
  PROVE  SealInv'
<1>1. PICK dropped \in SUBSET Log :
        /\ \A l \in dropped : OnChain(LogBlock[l], b) /\ ~OnChain(LogBlock[l], node_head)
        /\ lost' = lost \cup dropped
        /\ log_stream' \in [Stream -> Seq(Log)]
        /\ \A s \in Stream :
             /\ Range(log_stream'[s]) = Range(log_stream[s]) \cup NewLogs(b, s, dropped)
             /\ /\ Ordered(log_stream[s])
                /\ \A x \in Range(log_stream[s]) : \A y \in NewLogs(b, s, dropped) :
                     Height(x) <= Height(y)
                => Ordered(log_stream'[s])
        /\ \A h \in Range(headers') : h \in Range(headers) \/ OnChain(h, b)
  BY SwitchHeadEffect DEF Context
<1>2. /\ node_head' = b /\ Number[b] >= Number[node_head]
      /\ UNCHANGED <<interests, attested_log_coverage, highest_observed_block, buffered_logs,
                     discarded, pending_headers, delivery, control, point>>
  BY DEF SwitchHead, assembly
<1>3. /\ node_head \in Block /\ Number[node_head] \in Nat /\ Number[b] \in Nat
      /\ Number[point] \in Nat /\ point \in Block
      /\ attested_log_coverage \in Int /\ highest_observed_block \in Int /\ lost \subseteq Log
      /\ \A s \in Stream : Range(log_stream[s]) \subseteq Log
  BY ContextTypes, TreeAssumption
<1>4. \A x : OnNode(x) => OnChain(x, b)
  BY ChainWithin DEF OnNode
<1>5. \A l \in Log : OnChain(LogBlock[l], b) /\ ~OnNode(LogBlock[l]) => Height(l) > Number[node_head]
  BY AboveOnChain DEF OnNode
<1>6. \A l \in Log : OnNode(LogBlock[l]) => Height(l) <= Number[node_head]
  BY <1>3, OnChainIndex DEF OnNode, Height
<1>7. OnChain(point, b) => OnNode(point)
  <2>1. Number[point] <= Number[node_head]
    BY DEF Context, SealInv, HeadersOnNode
  <2> QED
    BY <2>1, ChainOrder DEF OnNode
<1>8. \A x : OnNode(x)' <=> OnChain(x, b)
  BY <1>2 DEF OnNode
<1>9. Aligned' => Aligned
  BY <1>2, <1>7, <1>8 DEF Aligned
<1>10. HeadersOnNode'
  <2>1. Number[point'] <= Number[node_head']
    BY <1>2, <1>3 DEF Context, SealInv, HeadersOnNode
  <2> QED
    BY <1>1, <1>2, <1>4, <1>8, <2>1 DEF Context, SealInv, HeadersOnNode
<1>11. StreamsInOrder'
  <2> SUFFICES ASSUME NEW s \in Stream
               PROVE  /\ Ordered(log_stream'[s])
                      /\ \A l \in Range(log_stream'[s]) :
                           s \in interests' /\ LogStream[l] = s /\ OnNode(LogBlock[l])'
    BY DEF StreamsInOrder, Ordered
  <2>1. \A x \in Range(log_stream[s]) : \A y \in NewLogs(b, s, dropped) : Height(x) <= Height(y)
    <3> SUFFICES ASSUME NEW x \in Range(log_stream[s]), NEW y \in NewLogs(b, s, dropped)
                 PROVE  Height(x) <= Height(y)
      OBVIOUS
    <3>1. x \in Log /\ OnNode(LogBlock[x])
      BY <1>3 DEF Context, SealInv, StreamsInOrder
    <3>2. y \in Log /\ OnChain(LogBlock[y], b) /\ ~OnNode(LogBlock[y])
      BY DEF NewLogs, OnNode
    <3>3. Height(x) \in Nat /\ Height(y) \in Nat
      BY <3>1, <3>2, HeightNat
    <3>4. Height(x) <= Number[node_head] /\ Height(y) > Number[node_head]
      BY <1>5, <1>6, <3>1, <3>2
    <3> QED
      BY <1>3, <3>3, <3>4
  <2>2. Ordered(log_stream'[s])
    BY <1>1, <2>1 DEF Context, SealInv, StreamsInOrder
  <2>3. \A l \in Range(log_stream[s]) : s \in interests' /\ LogStream[l] = s /\ OnNode(LogBlock[l])'
    BY <1>2, <1>4, <1>8 DEF Context, SealInv, StreamsInOrder
  <2>4. \A l \in NewLogs(b, s, dropped) : s \in interests' /\ LogStream[l] = s /\ OnNode(LogBlock[l])'
    BY <1>2, <1>8 DEF NewLogs
  <2> QED
    BY <1>1, <2>2, <2>3, <2>4
<1>12. Accounted'
  <2> SUFFICES ASSUME NEW l \in Log, LogStream[l] \in interests, OnChain(LogBlock[l], b),
                      ~OnChain(LogBlock[l], point)
               PROVE  l \in lost' \cup Range(log_stream'[LogStream[l]]) \cup buffered_logs \cup discarded
    BY <1>2, <1>8 DEF Accounted
  <2>0. LogStream[l] \in Stream
    BY LogAssumption
  <2>1. CASE OnNode(LogBlock[l])
    <3>1. l \in lost \cup Range(log_stream[LogStream[l]]) \cup buffered_logs \cup discarded
      BY <2>1 DEF Context, SealInv, Accounted
    <3> QED
      BY <1>1, <2>0, <3>1
  <2>2. CASE ~OnNode(LogBlock[l])
    <3>1. l \in NewLogs(b, LogStream[l], dropped) \/ l \in dropped
      BY <2>2 DEF NewLogs, OnNode
    <3> QED
      BY <1>1, <2>0, <3>1
  <2> QED
    BY <2>1, <2>2
<1>13. CoverageInv'
  <2>1. attested_log_coverage <= Number[node_head]
    BY DEF Context, SealInv, CoverageInv
  <2>2. attested_log_coverage' <= Number[node_head']
    BY <1>2, <1>3, <2>1
  <2>3. ASSUME Aligned', NEW l \in lost', OnNode(LogBlock[l])'
        PROVE  attested_log_coverage' < Height(l)
    <3>1. l \in Log /\ Height(l) \in Nat /\ OnChain(LogBlock[l], b)
      BY <1>1, <1>3, <1>8, <2>3, HeightNat
    <3>2. CASE OnNode(LogBlock[l])
      <4>1. l \in lost
        BY <1>1, <2>3, <3>2 DEF OnNode
      <4> QED
        BY <1>2, <1>9, <2>3, <3>2, <4>1 DEF Context, SealInv, CoverageInv
    <3>3. CASE ~OnNode(LogBlock[l])
      BY <1>2, <1>3, <1>5, <2>1, <3>1, <3>3
    <3> QED
      BY <3>2, <3>3
  <2> QED
    BY <2>2, <2>3 DEF CoverageInv
<1>14. ObservedInv'
  <2>1. highest_observed_block <= Number[node_head]
    BY DEF Context, SealInv, ObservedInv
  <2>2. highest_observed_block' <= Number[node_head']
    BY <1>2, <1>3, <2>1
  <2>3. interests' = {} => highest_observed_block' = None
    BY <1>2 DEF Context, SealInv, ObservedInv
  <2>4. ASSUME Aligned', single_log_interest', NEW s \in interests', NEW l \in Range(log_stream'[s])
        PROVE  highest_observed_block' <= Height(l)
    <3>1. Aligned /\ single_log_interest /\ s \in interests /\ s \in Stream
      BY <1>2, <1>9, <2>4 DEF single_log_interest, Context, AssemblyTypeOK
    <3>2. CASE l \in Range(log_stream[s])
      BY <1>2, <3>1, <3>2 DEF Context, SealInv, ObservedInv
    <3>3. CASE l \in NewLogs(b, s, dropped)
      <4>1. l \in Log /\ OnChain(LogBlock[l], b) /\ ~OnNode(LogBlock[l])
        BY <3>3 DEF NewLogs, OnNode
      <4>2. Height(l) > Number[node_head] /\ Height(l) \in Nat
        BY <1>5, <4>1, HeightNat
      <4> QED
        BY <1>2, <1>3, <2>1, <4>2
    <3> QED
      BY <1>1, <2>4, <3>1, <3>2, <3>3
  <2> QED
    BY <2>2, <2>3, <2>4 DEF ObservedInv
<1>15. ClosedInv'
  BY <1>2 DEF Context, SealInv, ClosedInv, straight_line, subscription_seal_reason,
     single_log_interest, bloom_excludes_every_interest
<1> QED
  BY <1>10, <1>11, <1>12, <1>13, <1>14, <1>15 DEF SealInv

\* The node replaces its chain while nothing is in flight: the watermarks are
\* void until the reset.
LEMMA ReorgSeal ==
  ASSUME Context, NEW b \in Block, SwitchHead(b), ~OnChain(node_head, b), Quiet
  PROVE  SealInv'
<1>1. PICK dropped \in SUBSET Log :
        /\ lost' = lost \cup dropped
        /\ \A s \in Stream :
             /\ Range(log_stream'[s]) = Range(log_stream[s]) \cup NewLogs(b, s, dropped)
             /\ /\ Ordered(log_stream[s])
                /\ \A x \in Range(log_stream[s]) : \A y \in NewLogs(b, s, dropped) :
                     Height(x) <= Height(y)
                => Ordered(log_stream'[s])
        /\ \A h \in Range(headers') : h \in Range(headers) \/ OnChain(h, b)
  BY SwitchHeadEffect DEF Context
<1>2. /\ node_head' = b /\ Number[b] >= Number[node_head]
      /\ UNCHANGED <<interests, attested_log_coverage, highest_observed_block, buffered_logs,
                     discarded, pending_headers, delivery, control, point>>
  BY DEF SwitchHead, assembly
<1>3. /\ Number[node_head] \in Nat /\ Number[b] \in Nat
      /\ attested_log_coverage \in Int /\ highest_observed_block \in Int
  BY ContextTypes, TreeAssumption
<1>4. /\ control = "idle" /\ headers = <<>> /\ DOMAIN pending_headers = {} /\ point = node_head
      /\ \A s \in Stream : Range(log_stream[s]) = {}
  <2>1. Range(<<>>) = {}
    BY DEF Range
  <2> QED
    BY <2>1 DEF Quiet
<1>5. \A x : OnNode(x)' <=> OnChain(x, b)
  BY <1>2 DEF OnNode
<1>6. ~Aligned'
  BY <1>2, <1>4, <1>5 DEF Aligned
<1>7. HeadersOnNode'
  <2>1. Range(headers) = {}
    BY <1>4 DEF Range
  <2>2. Number[point'] <= Number[node_head']
    BY <1>2, <1>3, <1>4
  <2> QED
    BY <1>1, <1>2, <1>4, <1>5, <2>1, <2>2 DEF HeadersOnNode
<1>8. StreamsInOrder'
  <2> SUFFICES ASSUME NEW s \in Stream
               PROVE  /\ Ordered(log_stream'[s])
                      /\ \A l \in Range(log_stream'[s]) :
                           s \in interests' /\ LogStream[l] = s /\ OnNode(LogBlock[l])'
    BY DEF StreamsInOrder, Ordered
  <2>1. Ordered(log_stream'[s])
    BY <1>1, <1>4 DEF Context, SealInv, StreamsInOrder
  <2>2. \A l \in NewLogs(b, s, dropped) : s \in interests' /\ LogStream[l] = s /\ OnNode(LogBlock[l])'
    BY <1>2, <1>5 DEF NewLogs
  <2> QED
    BY <1>1, <1>4, <2>1, <2>2
<1>9. Accounted'
  <2> SUFFICES ASSUME NEW l \in Log, LogStream[l] \in interests, OnChain(LogBlock[l], b),
                      ~OnChain(LogBlock[l], node_head)
               PROVE  l \in lost' \cup Range(log_stream'[LogStream[l]]) \cup buffered_logs \cup discarded
    BY <1>2, <1>4, <1>5 DEF Accounted
  <2>0. LogStream[l] \in Stream
    BY LogAssumption
  <2>1. l \in NewLogs(b, LogStream[l], dropped) \/ l \in dropped
    BY DEF NewLogs
  <2> QED
    BY <1>1, <2>0, <2>1
<1>10. CoverageInv' /\ ObservedInv'
  <2>1. attested_log_coverage <= Number[node_head] /\ highest_observed_block <= Number[node_head]
    BY DEF Context, SealInv, CoverageInv, ObservedInv
  <2>2. attested_log_coverage' <= Number[node_head'] /\ highest_observed_block' <= Number[node_head']
    BY <1>2, <1>3, <2>1
  <2>3. interests' = {} => highest_observed_block' = None
    BY <1>2 DEF Context, SealInv, ObservedInv
  <2> QED
    BY <1>6, <2>2, <2>3 DEF CoverageInv, ObservedInv
<1>11. ClosedInv'
  BY <1>2, <1>4 DEF ClosedInv
<1> QED
  BY <1>7, <1>8, <1>9, <1>10, <1>11 DEF SealInv

\* handle_batch moves headers and logs from the streams to the assembly.
LEMMA ReadBatchSeal ==
  ASSUME Context, Source = "Subscription", ReadBatch
  PROVE  SealInv'
<1>1. PICK nh \in Nat, nl \in [Stream -> Nat], covered \in {None} \cup {Number[b] : b \in Attestable} :
        /\ nh <= Len(headers)
        /\ \A s \in Stream : nl[s] <= Len(log_stream[s])
        /\ SubSeq(headers, 1, nh) \in Seq(Block)
        /\ handle_batch(nh, nl, covered)
  BY BatchShape DEF Context
<1>2. /\ control = "idle" /\ control' = "drain"
      /\ headers' = SubSeq(headers, nh + 1, Len(headers))
      /\ log_stream' = [s \in Stream |->
                          SubSeq(log_stream[s], nl[s] + 1, Len(log_stream[s]))]
      /\ attested_log_coverage' = note_log_coverage(covered)
      /\ buffered_logs' = buffered_logs \cup ReadLogs(nl)
      /\ highest_observed_block' = note_observed_block(ReadLogs(nl))
      /\ pending_headers' = insert_pending(SubSeq(headers, 1, nh))
      /\ UNCHANGED <<node_head, lost, interests, delivery, point, discarded>>
  BY <1>1, ReadBatchEffect
<1>3. /\ node_head \in Block /\ Number[node_head] \in Nat /\ headers \in Seq(Block)
      /\ attested_log_coverage \in Int /\ highest_observed_block \in Int /\ lost \subseteq Log
      /\ \A s \in Stream : log_stream[s] \in Seq(Log) /\ Range(log_stream[s]) \subseteq Log
  BY ContextTypes
<1>4. (Aligned' => Aligned) /\ \A x : OnNode(x)' <=> OnNode(x)
  BY <1>2 DEF Aligned, OnNode
<1>5. ASSUME NEW s \in Stream
      PROVE  /\ Range(log_stream[s]) = Range(SubSeq(log_stream[s], 1, nl[s])) \cup Range(log_stream'[s])
             /\ Range(SubSeq(log_stream[s], 1, nl[s])) \subseteq ReadLogs(nl)
             /\ Ordered(log_stream'[s])
             /\ \A x \in Range(SubSeq(log_stream[s], 1, nl[s])) : \A y \in Range(log_stream'[s]) :
                  Height(x) <= Height(y)
  <2>1. log_stream[s] \in Seq(Log) /\ nl[s] \in Nat /\ nl[s] <= Len(log_stream[s])
    BY <1>1, <1>3
  <2>2. Ordered(log_stream[s])
    BY DEF Context, SealInv, StreamsInOrder
  <2>3. log_stream'[s] = SubSeq(log_stream[s], nl[s] + 1, Len(log_stream[s]))
    BY <1>2
  <2>4. Range(SubSeq(log_stream[s], 1, nl[s])) \subseteq ReadLogs(nl)
    BY DEF ReadLogs
  <2> QED
    BY <2>1, <2>2, <2>3, <2>4, OrderedSplit
<1>6. \A l \in ReadLogs(nl) : \E s \in Stream : l \in Range(SubSeq(log_stream[s], 1, nl[s]))
  BY DEF ReadLogs
<1>7. HeadersOnNode'
  <2> DEFINE hs == SubSeq(headers, 1, nh)
  <2>1. \A h \in Range(hs) : h \in Range(headers)
    <3>1. \A i \in 1..nh : i \in 1..Len(headers) /\ headers[i] \in Block
      BY <1>1, <1>3
    <3>2. Len(hs) = IF 1 <= nh THEN nh - 1 + 1 ELSE 0 
      BY <1>1, <3>1, SubSeqProperties
    <3>3. \A i \in 1..(nh - 1 + 1) : hs[i] = headers[1 + i - 1]
      BY <1>1, <3>1, SubSeqProperties
    <3>4. Len(hs) = nh /\ \A i \in 1..nh : hs[i] = headers[i]
      <4> HIDE DEF hs
      <4>1. \A i \in 1..nh : i \in 1..(nh - 1 + 1) /\ 1 + i - 1 = i
        BY <1>1
      <4> QED
        BY <1>1, <3>2, <3>3, <4>1
    <3> HIDE DEF hs
    <3>5. hs \in Seq(Block)
      BY <1>1 DEF hs
    <3> QED
      BY <1>3, <3>1, <3>4, <3>5, InRange
  <2>2. \A h \in Range(headers') : h \in Range(headers)
    <3>1. PICK m \in Nat : m = Len(headers)
      BY <1>3
    <3>2. \A i \in (nh + 1)..m : i \in 1..m /\ headers[i] \in Block
      BY <1>1, <1>3, <3>1
    <3>3. /\ headers' \in Seq(Block)
          /\ Len(headers') = IF nh + 1 <= m THEN m - (nh + 1) + 1 ELSE 0
          /\ \A i \in 1..(m - (nh + 1) + 1) : headers'[i] = headers[(nh + 1) + i - 1]
      BY <1>1, <1>2, <3>1, <3>2, SubSeqProperties
    <3>4. \A i \in 1..Len(headers') : /\ i \in 1..(m - (nh + 1) + 1)
                                      /\ (nh + 1) + i - 1 \in 1..m
      BY <1>1, <3>1, <3>3
    <3> QED
      BY <1>3, <3>1, <3>3, <3>4, InRange
  <2>3. ASSUME NEW n \in DOMAIN pending_headers' PROVE OnNode(pending_headers'[n])
    <3>1. \/ pending_headers'[n] \in Range(hs)
          \/ n \in DOMAIN pending_headers /\ pending_headers'[n] = pending_headers[n]
      BY <1>1, <1>2, InsertPendingNumbers DEF Context
    <3> QED
      BY <2>1, <3>1 DEF Context, SealInv, HeadersOnNode
  <2> HIDE DEF hs
  <2> QED
    BY <1>2, <1>4, <2>2, <2>3 DEF Context, SealInv, HeadersOnNode
<1>8. StreamsInOrder'
  <2> SUFFICES ASSUME NEW s \in Stream
               PROVE  /\ Ordered(log_stream'[s])
                      /\ \A l \in Range(log_stream'[s]) :
                           s \in interests' /\ LogStream[l] = s /\ OnNode(LogBlock[l])'
    BY DEF StreamsInOrder, Ordered
  <2> QED
    BY <1>2, <1>4, <1>5 DEF Context, SealInv, StreamsInOrder
<1>9. Accounted'
  <2> SUFFICES ASSUME NEW l \in Log, LogStream[l] \in interests, OnNode(LogBlock[l]),
                      ~OnChain(LogBlock[l], point)
               PROVE  l \in lost \cup Range(log_stream'[LogStream[l]]) \cup buffered_logs' \cup discarded
    BY <1>2, <1>4 DEF Accounted
  <2>1. LogStream[l] \in Stream
    BY LogAssumption
  <2>2. l \in lost \cup Range(log_stream[LogStream[l]]) \cup buffered_logs \cup discarded
    BY DEF Context, SealInv, Accounted
  <2>3. /\ Range(log_stream[LogStream[l]]) =
             Range(SubSeq(log_stream[LogStream[l]], 1, nl[LogStream[l]])) \cup Range(log_stream'[LogStream[l]])
        /\ Range(SubSeq(log_stream[LogStream[l]], 1, nl[LogStream[l]])) \subseteq ReadLogs(nl)
    BY <1>5, <2>1
  <2> QED
    BY <1>2, <2>2, <2>3
<1>10. CoverageInv'
  <2>1. CASE attested_log_coverage' = attested_log_coverage
    BY <1>2, <1>4, <2>1 DEF Context, SealInv, CoverageInv
  <2>2. CASE attested_log_coverage' = covered /\ covered # None
    <3>1. PICK b \in Block : /\ OnChain(b, node_head) /\ covered = Number[b] /\ covered \in Nat
                             /\ \A l \in lost : ~OnChain(LogBlock[l], b)
      BY <1>3, <2>2, AttestedBlock
    <3>2. covered <= Number[node_head]
      BY <1>3, <3>1, OnChainIndex
    <3>3. ASSUME NEW l \in lost, OnNode(LogBlock[l]) PROVE covered < Height(l)
      BY <1>3, <3>1, <3>3, AboveOnChain DEF OnNode
    <3> QED
      BY <1>2, <1>4, <2>2, <3>2, <3>3 DEF CoverageInv
  <2> QED
    BY <1>2, <2>1, <2>2 DEF note_log_coverage
<1>11. ObservedInv'
  <2>1. ReadLogs(nl) \in SUBSET Log /\ IsFiniteSet(ReadLogs(nl))
    BY <1>1, ReadLogsFinite DEF Context
  <2>2. \/ highest_observed_block' = highest_observed_block
        \/ \E l \in ReadLogs(nl) : highest_observed_block' = Height(l)
    BY <1>2, <2>1, NoteObserved DEF Context
  <2>3. CASE highest_observed_block' = highest_observed_block
    <3>1. \A s \in interests : s \in Stream /\ Range(log_stream'[s]) \subseteq Range(log_stream[s])
      BY <1>5 DEF Context, AssemblyTypeOK
    <3> QED
      BY <1>2, <1>4, <2>3, <3>1 DEF Context, SealInv, ObservedInv, single_log_interest
  <2>4. ASSUME NEW l \in ReadLogs(nl), highest_observed_block' = Height(l)
        PROVE  ObservedInv'
    <3>1. PICK t \in Stream : l \in Range(SubSeq(log_stream[t], 1, nl[t]))
      BY <1>6
    <3>2. l \in Range(log_stream[t]) /\ l \in Log
      BY <1>3, <1>5, <3>1
    <3>3. t \in interests /\ OnNode(LogBlock[l])
      BY <3>2 DEF Context, SealInv, StreamsInOrder
    <3>4. Height(l) <= Number[node_head]
      BY <1>3, <3>3, OnChainIndex DEF OnNode, Height
    <3>5. ASSUME single_log_interest', NEW s \in interests', NEW y \in Range(log_stream'[s])
          PROVE  Height(l) <= Height(y)
      <4>1. s = t
        <5>1. Cardinality(interests) = 1 /\ s \in interests
          BY <1>2, <3>5 DEF single_log_interest
        <5>2. \E x : interests = {x}
          BY <5>1, ContextTypes, FS_Singleton
        <5> QED
          BY <3>3, <5>1, <5>2
      <4> QED
        BY <1>5, <3>1, <3>5, <4>1
    <3> QED
      BY <1>2, <2>4, <3>3, <3>4, <3>5 DEF ObservedInv
  <2> QED
    BY <2>2, <2>3, <2>4
<1>12. ClosedInv'
  BY <1>2 DEF ClosedInv
<1> QED
  BY <1>7, <1>8, <1>9, <1>10, <1>11, <1>12 DEF SealInv

\* Steps that only move the driver: what is in flight and what is buffered stays.
SameFlight ==
  UNCHANGED <<node_head, headers, log_stream, lost, interests, attested_log_coverage,
              highest_observed_block, buffered_logs, discarded, point>>

\* A step that moves nothing in flight and no watermark keeps the seal invariant, if
\* its headers stay on the node's chain and its proof stays one.
LEMMA SameFlightSeal ==
  ASSUME Context, SameFlight, Aligned' => Aligned,
         \A n \in DOMAIN pending_headers' : OnNode(pending_headers'[n]),
         control' \in {"walk", "deliver"} => \A h \in Range(delivery'.lineage) : OnNode(h),
         ClosedInv'
  PROVE  SealInv'
<1>1. \A x : OnNode(x)' <=> OnNode(x)
  BY DEF OnNode, SameFlight
<1>2. HeadersOnNode'
  BY <1>1 DEF SameFlight, Context, SealInv, HeadersOnNode
<1>3. StreamsInOrder'
  BY <1>1 DEF SameFlight, Context, SealInv, StreamsInOrder, Ordered
<1>4. Accounted'
  BY <1>1 DEF SameFlight, Context, SealInv, Accounted
<1>5. CoverageInv'
  BY <1>1 DEF SameFlight, Context, SealInv, CoverageInv
<1>6. ObservedInv'
  BY <1>1 DEF SameFlight, Context, SealInv, ObservedInv, single_log_interest
<1> QED
  BY <1>2, <1>3, <1>4, <1>5, <1>6 DEF SealInv

\* The end of a straggler window proves nothing and disturbs nothing.
LEMMA SealDeadlineSeal ==
  ASSUME Context, NEW n, seal_deadline(n)
  PROVE  SealInv'
<1>1. SameFlight /\ UNCHANGED pending_headers /\ control' = "drain"
  BY DEF seal_deadline, external, SameFlight
<1>2. Aligned' => Aligned
  BY <1>1 DEF Aligned, OnNode, SameFlight
<1>3. ClosedInv'
  BY <1>1 DEF ClosedInv
<1>4. \A k \in DOMAIN pending_headers' : OnNode(pending_headers'[k])
  BY <1>1 DEF Context, SealInv, HeadersOnNode
<1> QED
  BY <1>1, <1>2, <1>3, <1>4, SameFlightSeal

\* drain_sealable starts from a header of the node's chain, with its proof.
LEMMA DrainSeal ==
  ASSUME Context, drain_sealable
  PROVE  SealInv'
<1> DEFINE n == Min(DOMAIN pending_headers)
           h == pending_headers[n]
<1>1. /\ SameFlight /\ control = "drain"
      /\ UNCHANGED <<node_head, interests, attested_log_coverage, highest_observed_block, point>>
  BY DEF drain_sealable, external, assembly, SameFlight
<1>2. \A k \in DOMAIN pending_headers : OnNode(pending_headers[k])
  BY DEF Context, SealInv, HeadersOnNode
<1>3. CASE control' = "idle" /\ UNCHANGED <<assembly, delivery>>
  <2>1. (Aligned' => Aligned) /\ ClosedInv'
    BY <1>1, <1>3 DEF Aligned, OnNode, ClosedInv
  <2>2. UNCHANGED pending_headers
    BY <1>3 DEF assembly
  <2> QED
    BY <1>1, <1>2, <1>3, <2>1, <2>2, SameFlightSeal
<1>4. CASE /\ DOMAIN pending_headers # {}
           /\ pending_headers' = Restrict(pending_headers, DOMAIN pending_headers \ {n})
           /\ deliver_through_sealed(h, subscription_seal_reason(h))
  <2>1. n \in DOMAIN pending_headers
    BY <1>4, MinNat DEF Context, IInv, DeliveryTypeOK
  <2>2. OnNode(h)
    BY <1>2, <2>1
  <2>3. \A k \in DOMAIN pending_headers' : OnNode(pending_headers'[k])
    BY <1>2, <1>4 DEF Restrict
  <2>6. PICK g : g = h
    OBVIOUS
  <2> HIDE DEF h, n
  <2>4. CASE UNCHANGED <<delivery, control>>
    <3>1. Aligned' => Aligned
      BY <1>1, <2>4 DEF Aligned, OnNode
    <3>2. ClosedInv' /\ control' = "drain"
      BY <1>1, <2>4 DEF ClosedInv
    <3> QED
      BY <1>1, <2>3, <3>1, <3>2, SameFlightSeal
  <2>5. CASE /\ delivery' = [lineage |-> <<g>>, straight_line |-> straight_line(g),
                             sealable |-> subscription_seal_reason(g)]
             /\ control' = "walk"
    <3>1. /\ delivery'.lineage = <<g>> /\ delivery'.straight_line = straight_line(g)
          /\ delivery'.sealable = subscription_seal_reason(g)
      BY <2>5
    <3>2. Aligned' => Aligned
      BY <1>1, <2>5 DEF Aligned, OnNode
    <3>3. Len(<<g>>) = 1 /\ <<g>>[1] = g /\ Range(<<g>>) = {g}
      <4>1. DOMAIN <<g>> = {1} /\ <<g>>[1] = g /\ Len(<<g>>) = 1
        OBVIOUS
      <4> QED
        BY <4>1 DEF Range
    <3>4. ClosedInv'
      <4>1. straight_line(g)' <=> straight_line(g)
        BY <1>1 DEF straight_line
      <4>2. subscription_seal_reason(g)' <=> subscription_seal_reason(g)
        BY <1>1 DEF subscription_seal_reason, single_log_interest, bloom_excludes_every_interest
      <4>3. delivery'.lineage[1] = g /\ Len(delivery'.lineage) = 1
        BY <3>1, <3>3
      <4> QED
        BY <3>1, <4>1, <4>2, <4>3 DEF ClosedInv, straight_line, subscription_seal_reason,
           single_log_interest, bloom_excludes_every_interest
    <3> QED
      BY <1>1, <2>2, <2>3, <2>5, <2>6, <3>1, <3>2, <3>3, <3>4, SameFlightSeal
  <2> QED
    BY <1>4, <2>4, <2>5, <2>6 DEF deliver_through_sealed
<1> QED
  BY <1>3, <1>4, Zenon DEF drain_sealable

\* A delivery that ends, or fails, leaves no proof behind.
LEMMA FinishSeal ==
  ASSUME Context, finish_delivery \/ driver_error
  PROVE  SealInv'
<1>1. SameFlight /\ UNCHANGED pending_headers /\ control' \in {"drain", "failed"}
  BY DEF finish_delivery, driver_error, external, assembly, SameFlight
<1>2. Aligned' => Aligned
  BY <1>1 DEF Aligned, OnNode, SameFlight
<1>3. ClosedInv'
  BY <1>1 DEF ClosedInv
<1>4. \A k \in DOMAIN pending_headers' : OnNode(pending_headers'[k])
  BY <1>1 DEF Context, SealInv, HeadersOnNode
<1> QED
  BY <1>1, <1>2, <1>3, <1>4, SameFlightSeal

\* The subscriber replays a new interest from the published point.
LEMMA AddSeal ==
  ASSUME Context, NEW s \in Stream, commit_add(s)
  PROVE  SealInv'
<1>1. PICK q : q = Notifications(NewlyCanonical(point, node_head), s, {})
  OBVIOUS
<1>2. /\ control = "idle" /\ s \notin interests /\ OnNode(point)
      /\ interests' = interests \cup {s} /\ log_stream' = [log_stream EXCEPT ![s] = q]
      /\ UNCHANGED <<node_head, headers, lost, attested_log_coverage, highest_observed_block,
                     buffered_logs, discarded, pending_headers, delivery, control, point>>
  BY <1>1 DEF commit_add, assembly, OnNode
<1>3. /\ node_head \in Block /\ point \in Block
      /\ \A t \in Stream : Range(log_stream[t]) \subseteq Log
  BY ContextTypes
<1>4. /\ Ordered(q)
      /\ Range(q) = {l \in Log : /\ OnNode(LogBlock[l]) /\ ~OnChain(LogBlock[l], point)
                                 /\ LogStream[l] = s}
  <2>1. /\ Ordered(q)
        /\ Range(q) = {l \in Log : /\ OnChain(LogBlock[l], node_head) /\ ~OnChain(LogBlock[l], point)
                                   /\ LogStream[l] = s /\ l \notin {}}
    BY <1>1, <1>3, NewNotifications
  <2> QED
    BY <2>1 DEF OnNode
<1>5. \A t \in Stream : log_stream'[t] = IF t = s THEN q ELSE log_stream[t]
  BY <1>2 DEF Context, AssemblyTypeOK
<1>6. (Aligned' <=> Aligned) /\ \A x : OnNode(x)' <=> OnNode(x)
  BY <1>2 DEF Aligned, OnNode
<1>7. HeadersOnNode'
  BY <1>2, <1>6 DEF Context, SealInv, HeadersOnNode
<1>8. StreamsInOrder'
  <2> SUFFICES ASSUME NEW t \in Stream
               PROVE  /\ Ordered(log_stream'[t])
                      /\ \A l \in Range(log_stream'[t]) :
                           t \in interests' /\ LogStream[l] = t /\ OnNode(LogBlock[l])'
    BY DEF StreamsInOrder, Ordered
  <2>1. CASE t = s
    BY <1>2, <1>4, <1>5, <1>6, <2>1
  <2>2. CASE t # s
    BY <1>2, <1>5, <1>6, <2>2 DEF Context, SealInv, StreamsInOrder
  <2> QED
    BY <2>1, <2>2
<1>9. Accounted'
  <2> SUFFICES ASSUME NEW l \in Log, LogStream[l] \in interests', OnNode(LogBlock[l]),
                      ~OnChain(LogBlock[l], point)
               PROVE  l \in lost \cup Range(log_stream'[LogStream[l]]) \cup buffered_logs \cup discarded
    BY <1>2, <1>6 DEF Accounted
  <2>1. LogStream[l] \in Stream
    BY LogAssumption
  <2>2. CASE LogStream[l] = s
    BY <1>4, <1>5, <2>1, <2>2
  <2>3. CASE LogStream[l] # s
    <3>1. LogStream[l] \in interests
      BY <1>2, <2>3
    <3>2. l \in lost \cup Range(log_stream[LogStream[l]]) \cup buffered_logs \cup discarded
      BY <3>1 DEF Context, SealInv, Accounted
    <3> QED
      BY <1>5, <2>1, <2>3, <3>2
  <2> QED
    BY <2>2, <2>3
<1>10. CoverageInv'
  BY <1>2, <1>6 DEF Context, SealInv, CoverageInv
<1>11. ObservedInv'
  <2>1. highest_observed_block' <= Number[node_head'] /\ interests' # {}
    BY <1>2 DEF Context, SealInv, ObservedInv
  <2>2. ASSUME single_log_interest', NEW t \in interests', NEW l \in Range(log_stream'[t])
        PROVE  highest_observed_block' <= Height(l)
    <3>1. Cardinality(interests \cup {s}) = 1
      BY <1>2, <2>2 DEF single_log_interest
    <3>2. Cardinality(interests \cup {s}) = Cardinality(interests) + 1 /\ Cardinality(interests) \in Nat
      BY <1>2, ContextTypes, FS_AddElement, FS_CardinalityType
    <3>3. Cardinality(interests) = 0
      BY <3>1, <3>2
    <3>4. interests = {}
      BY <3>3, ContextTypes, FS_EmptySet
    <3>5. highest_observed_block' = -1
      BY <1>2, <3>4 DEF Context, SealInv, ObservedInv, None
    <3>6. t \in Stream /\ Range(log_stream'[t]) \subseteq Log
      BY <1>2, <1>3, <1>4, <1>5, <3>4
    <3>7. Height(l) \in Nat
      BY <2>2, <3>6, HeightNat
    <3> QED
      BY <3>5, <3>7
  <2> QED
    BY <2>1, <2>2 DEF ObservedInv
<1>12. ClosedInv'
  BY <1>2 DEF ClosedInv
<1> QED
  BY <1>7, <1>8, <1>9, <1>10, <1>11, <1>12 DEF SealInv

\* The published point is in the retained lineage.
LEMMA PointRetained ==
  ASSUME IInv
  PROVE  in_lineage(point)
<1>1. PICK np \in Nat : np = Number[point]
  BY TreeAssumption DEF IInv, DeliveryTypeOK
<1>2. PICK lo \in Nat : lo <= np /\ DOMAIN canonical_lineage = lo..np
  BY <1>1 DEF IInv, LineageInv, Retention
<1> QED
  BY <1>1, <1>2 DEF IInv, LineageInv, in_lineage

\* The head and the tail of a sequence are within its range.
LEMMA TailRange ==
  ASSUME NEW S, NEW q \in Seq(S), q # <<>>
  PROVE  /\ Range(Tail(q)) \subseteq Range(q)
         /\ Head(q) \in Range(q) /\ Head(q) = q[1] /\ Head(q) \in S
         /\ Len(q) = 1 => Tail(q) = <<>>
<1>1. PICK n \in Nat : n = Len(q) /\ n # 0
  BY EmptySeq
<1>2. /\ Tail(q) \in Seq(S) /\ Len(Tail(q)) = n - 1
      /\ \A i \in 1..(n - 1) : Tail(q)[i] = q[i + 1] /\ i + 1 \in 1..n
  BY <1>1
<1>3. Head(q) = q[1] /\ 1 \in 1..n
  BY <1>1
<1>4. Len(q) = 1 => Tail(q) = <<>>
  <2>1. Len(q) = 1 => Len(Tail(q)) = 0
    BY <1>1, <1>2
  <2> QED
    BY <1>2, <2>1, EmptySeq
<1>5. \A x \in Range(Tail(q)) : x \in Range(q)
  <2> TAKE x \in Range(Tail(q))
  <2>1. PICK i \in 1..(n - 1) : Tail(q)[i] = x
    BY <1>2, InRange
  <2>2. i + 1 \in 1..Len(q) /\ q[i + 1] = x
    BY <1>1, <1>2, <2>1
  <2> QED
    BY <2>2, InRange
<1>6. q[1] \in Range(q) /\ q[1] \in S
  BY <1>1, <1>3, InRange
<1> QED
  BY <1>3, <1>4, <1>5, <1>6

\* What is in front of a longer sequence, or in it.
LEMMA ConsRange ==
  ASSUME NEW S, NEW q \in Seq(S), NEW x \in S
  PROVE  \A y \in Range(<<x>> \o q) : y = x \/ y \in Range(q)
<1>1. PICK n \in Nat : n = Len(q)
  OBVIOUS
<1>2. /\ <<x>> \o q \in Seq(S) /\ Len(<<x>> \o q) = n + 1
      /\ \A i \in 1..(n + 1) : (<<x>> \o q)[i] = IF i <= 1 THEN x ELSE q[i - 1]
  <2>1. <<x>> \in Seq(S) /\ Len(<<x>>) = 1 /\ \A i \in 1..1 : <<x>>[i] = x
    OBVIOUS
  <2>2. /\ <<x>> \o q \in Seq(S) /\ Len(<<x>> \o q) = 1 + n
        /\ \A i \in 1..(1 + n) : (<<x>> \o q)[i] = IF i <= 1 THEN <<x>>[i] ELSE q[i - 1]
    BY <1>1, <2>1, ConcatProperties
  <2>3. 1 + n = n + 1 /\ \A i \in 1..(n + 1) : i <= 1 => i \in 1..1
    BY <1>1
  <2> QED
    BY <2>1, <2>2, <2>3
<1> TAKE y \in Range(<<x>> \o q)
<1>3. PICK i \in 1..(n + 1) : (<<x>> \o q)[i] = y
  BY <1>2, InRange
<1>4. i <= 1 \/ i - 1 \in 1..n
  BY <1>1
<1> QED
  BY <1>1, <1>2, <1>3, <1>4, InRange

\* The parent walk stays on the node's chain; it ends with the assembly as it was
\* when the header extends the point, and with an empty one when it does not.
LEMMA DeliveryLineageSeal ==
  ASSUME Context, delivery_lineage
  PROVE  SealInv'
<1>1. PICK lin \in Seq(Block) : lin = delivery.lineage /\ lin # <<>>
  BY DEF Context, IInv, DeliveryTypeOK, WalkInv, delivery_lineage
<1>2. PICK current \in Block : current = Head(lin) /\ current = lin[1] /\ current \in Range(lin)
  BY <1>1, TailRange
<1>3. /\ control = "walk"
      /\ UNCHANGED <<node_head, headers, log_stream, lost, interests, point>>
      /\ delivery \in [lineage : Seq(Block), straight_line : BOOLEAN, sealable : BOOLEAN]
  BY DEF delivery_lineage, external, Context, IInv, DeliveryTypeOK
<1>4. \A h \in Range(lin) : OnNode(h)
  BY <1>1, <1>3 DEF Context, SealInv, HeadersOnNode
<1>5. delivery.straight_line =>
        /\ Len(lin) = 1 /\ straight_line(current) /\ Parent[current] = point
        /\ delivery.sealable => subscription_seal_reason(current)
  BY <1>1, <1>2, <1>3 DEF Context, SealInv, ClosedInv, straight_line
<1>6. \A k \in DOMAIN pending_headers : OnNode(pending_headers[k])
  BY DEF Context, SealInv, HeadersOnNode
<1>7. ASSUME NEW t \in Seq(Block), t = lin \/ t = Tail(lin),
             delivery' = [delivery EXCEPT !.lineage = t], control' = "deliver",
             IF delivery.straight_line THEN UNCHANGED assembly ELSE reset_subscription_assembly
      PROVE  SealInv'
  <2>1. /\ delivery'.lineage = t /\ delivery'.straight_line = delivery.straight_line
        /\ delivery'.sealable = delivery.sealable
    BY <1>3, <1>7
  <2>2. \A h \in Range(t) : OnNode(h)
    BY <1>1, <1>4, <1>7, TailRange
  <2>3. CASE delivery.straight_line
    <3>1. SameFlight /\ UNCHANGED pending_headers
      BY <1>3, <1>7, <2>3 DEF assembly, SameFlight
    <3>2. Aligned' => Aligned
      BY <1>3, <2>1, <2>3 DEF Aligned, OnNode
    <3>3. t # <<>> => t = lin
      BY <1>1, <1>5, <1>7, <2>3, TailRange
    <3>4. ClosedInv'
      <4> SUFFICES ASSUME t # <<>>
                   PROVE  /\ Len(t) = 1 /\ straight_line(t[1])'
                          /\ delivery.sealable => subscription_seal_reason(t[1])'
        BY <2>1 DEF ClosedInv, straight_line, subscription_seal_reason, single_log_interest,
           bloom_excludes_every_interest
      <4>1. Len(t) = 1 /\ t[1] = current
        BY <1>2, <1>5, <2>3, <3>3
      <4>2. /\ straight_line(current)' <=> straight_line(current)
            /\ subscription_seal_reason(current)' <=> subscription_seal_reason(current)
        BY <3>1 DEF SameFlight, straight_line, subscription_seal_reason, single_log_interest,
           bloom_excludes_every_interest
      <4> QED
        BY <1>5, <2>3, <4>1, <4>2
    <3> QED
      BY <1>6, <2>1, <2>2, <3>1, <3>2, <3>4, SameFlightSeal
  <2>4. CASE ~delivery.straight_line
    <3>1. /\ buffered_logs' = {} /\ discarded' = discarded \cup buffered_logs
          /\ DOMAIN pending_headers' = {}
          /\ attested_log_coverage' = -1 /\ highest_observed_block' = -1
      BY <1>7, <2>4 DEF reset_subscription_assembly, None
    <3>2. \A x : OnNode(x)' <=> OnNode(x)
      BY <1>3 DEF OnNode
    <3>3. Number[node_head] \in Nat /\ lost \subseteq Log /\ interests \subseteq Stream
          /\ \A s \in Stream : Range(log_stream[s]) \subseteq Log
      BY ContextTypes DEF Context, AssemblyTypeOK
    <3>4. HeadersOnNode'
      BY <1>3, <2>1, <2>2, <3>1, <3>2 DEF Context, SealInv, HeadersOnNode
    <3>5. StreamsInOrder'
      BY <1>3, <3>2 DEF Context, SealInv, StreamsInOrder, Ordered
    <3>6. Accounted'
      BY <1>3, <3>1, <3>2 DEF Context, SealInv, Accounted
    <3>7. CoverageInv'
      <4>1. \A l \in lost' : attested_log_coverage' < Height(l)
        BY <1>3, <3>1, <3>3, HeightNat
      <4>2. attested_log_coverage' <= Number[node_head']
        BY <1>3, <3>1, <3>3
      <4> QED
        BY <4>1, <4>2 DEF CoverageInv
    <3>8. ObservedInv'
      <4>1. \A s \in interests' : \A l \in Range(log_stream'[s]) : highest_observed_block' <= Height(l)
        BY <1>3, <3>1, <3>3, HeightNat
      <4>2. highest_observed_block' <= Number[node_head']
        BY <1>3, <3>1, <3>3
      <4> QED
        BY <3>1, <4>1, <4>2 DEF ObservedInv, None
    <3>9. ClosedInv'
      BY <2>1, <2>4 DEF ClosedInv
    <3> QED
      BY <3>4, <3>5, <3>6, <3>7, <3>8, <3>9 DEF SealInv
  <2> QED
    BY <2>3, <2>4
<1>8. CASE control' = "failed" /\ UNCHANGED <<assembly, delivery>>
  <2>1. SameFlight /\ UNCHANGED pending_headers
    BY <1>3, <1>8 DEF assembly, SameFlight
  <2>2. (Aligned' => Aligned) /\ ClosedInv'
    BY <1>3, <1>8 DEF Aligned, OnNode, ClosedInv
  <2> QED
    BY <1>6, <1>8, <2>1, <2>2, SameFlightSeal
<1>9. CASE /\ Number[current] = 0 \/ ~in_lineage(Parent[current])
           /\ delivery' = [delivery EXCEPT !.lineage = <<Parent[current]>> \o lin]
           /\ UNCHANGED <<assembly, control>>
  <2>1. Parent[current] \in Block
    BY TreeAssumption
  <2>2. /\ delivery'.lineage = <<Parent[current]>> \o lin
        /\ delivery'.straight_line = delivery.straight_line
    BY <1>3, <1>9
  <2>3. ~delivery.straight_line
    <3> SUFFICES ASSUME delivery.straight_line PROVE FALSE
      OBVIOUS
    <3>1. Parent[current] = point /\ Number[current] = Number[point] + 1 /\ Number[point] \in Nat
      BY <1>5, ContextTypes DEF straight_line
    <3>2. in_lineage(point)
      BY PointRetained DEF Context
    <3> QED
      BY <1>9, <3>1, <3>2
  <2>4. SameFlight /\ UNCHANGED pending_headers
    BY <1>3, <1>9 DEF assembly, SameFlight
  <2>5. OnNode(Parent[current])
    BY <1>2, <1>4, OwnChain, ChainWithin, ContextTypes DEF OnNode
  <2>6. \A h \in Range(delivery'.lineage) : OnNode(h)
    BY <1>4, <2>1, <2>2, <2>5, ConsRange
  <2>7. Aligned' => Aligned
    BY <1>3, <1>9, <2>2 DEF Aligned, OnNode
  <2>8. ClosedInv'
    BY <2>2, <2>3 DEF ClosedInv
  <2> QED
    BY <1>6, <2>4, <2>6, <2>7, <2>8, SameFlightSeal
<1>10. lin \in Seq(Block) /\ Tail(lin) \in Seq(Block)
  BY <1>1
<1> QED
  BY <1>1, <1>2, <1>7, <1>8, <1>9, <1>10, Zenon DEF delivery_lineage

\* The retained lineage lies on the chain of the published point.
LEMMA LineageOnChain ==
  ASSUME IInv
  PROVE  \A n \in DOMAIN canonical_lineage : OnChain(canonical_lineage[n], point)
<1>1. PICK np \in Nat : np = Number[point] /\ point \in Block
  BY TreeAssumption DEF IInv, DeliveryTypeOK
<1>2. PICK lo \in Nat : lo <= np /\ DOMAIN canonical_lineage = lo..np
  BY <1>1 DEF IInv, LineageInv, Retention
<1>3. /\ \A n \in lo..np : canonical_lineage[n] \in Block
      /\ canonical_lineage[np] = point
      /\ \A n \in lo..np : n # np => Parent[canonical_lineage[n + 1]] = canonical_lineage[n]
  BY <1>1, <1>2 DEF IInv, LineageInv
<1> DEFINE T == {k \in Nat : np - k \in lo..np /\ ~OnChain(canonical_lineage[np - k], point)}
<1>4. ASSUME T # {} PROVE FALSE
  <2>1. PICK k \in T : \A m \in T : k <= m
    BY <1>4, MinNat, T \subseteq Nat
  <2>2. k \in Nat /\ np - k \in lo..np /\ ~OnChain(canonical_lineage[np - k], point)
    BY <2>1
  <2>3. k # 0
    <3>1. np - 0 = np
      BY <1>1
    <3> QED
      BY <1>1, <1>3, <2>2, <3>1, OwnChain
  <2>4. k - 1 \in Nat /\ ~(k <= k - 1) /\ np - (k - 1) = (np - k) + 1 /\ np - (k - 1) \in lo..np
        /\ np - k # np
    BY <1>1, <1>2, <2>2, <2>3
  <2>5. OnChain(canonical_lineage[np - (k - 1)], point)
    BY <2>1, <2>4
  <2>6. Parent[canonical_lineage[(np - k) + 1]] = canonical_lineage[np - k]
    BY <1>3, <2>2, <2>4
  <2>7. canonical_lineage[(np - k) + 1] \in Block
    BY <1>3, <2>4
  <2>8. OnChain(canonical_lineage[np - k], canonical_lineage[(np - k) + 1])
    BY <2>6, <2>7, OwnChain
  <2>9. OnChain(canonical_lineage[np - k], point)
    BY <1>1, <2>4, <2>5, <2>8, ChainWithin
  <2> QED
    BY <2>2, <2>9
<1> SUFFICES ASSUME NEW n \in lo..np PROVE OnChain(canonical_lineage[n], point)
  BY <1>2
<1>5. np - n \in Nat /\ np - (np - n) = n
  BY <1>1, <1>2
<1> QED
  BY <1>4, <1>5

\* A block about to be delivered is on the chain of no retained block: the logs
\* still to be delivered afterwards were still to be delivered before.
LEMMA StillToDeliver ==
  ASSUME IInv, NEW b \in Block, NEW c \in Block, NEW x \in Block, OnChain(b, c), OnChain(x, c),
         ~in_lineage(b), in_lineage(Parent[b]), ~OnChain(x, b)
  PROVE  ~OnChain(x, point)
<1> SUFFICES ASSUME OnChain(x, point) PROVE FALSE
  OBVIOUS
<1> USE TreeAssumption
<1>1. b # Genesis
  OBVIOUS
<1>2. PICK bn \in Nat, xn \in Nat, np \in Nat :
        bn = Number[b] /\ xn = Number[x] /\ np = Number[point] /\ point \in Block
  BY DEF IInv, DeliveryTypeOK
<1>3. ~(xn <= bn)
  BY <1>2, ChainOrder
<1>4. OnChain(b, x)
  BY <1>2, <1>3, ChainOrder
<1>5. OnChain(b, point)
  BY <1>2, <1>4, ChainWithin
<1>6. bn <= np
  BY <1>2, <1>5, OnChainIndex
<1>7. PICK lo \in Nat : lo <= np /\ DOMAIN canonical_lineage = lo..np
  BY <1>2 DEF IInv, LineageInv, Retention
<1>8. Number[Parent[b]] + 1 = bn /\ Number[Parent[b]] \in lo..np
  BY <1>1, <1>2, <1>7 DEF in_lineage
<1>9. bn \in lo..np
  BY <1>2, <1>6, <1>7, <1>8
<1>10. OnChain(canonical_lineage[bn], point) /\ Number[canonical_lineage[bn]] = bn
  BY <1>7, <1>9, LineageOnChain DEF IInv, LineageInv
<1>11. canonical_lineage[bn] = b
  BY <1>2, <1>5, <1>10, ChainUnique
<1> QED
  BY <1>2, <1>7, <1>9, <1>11 DEF in_lineage

\* What the delivery of a block starts from and does.
LEMMA DeliverBlockEffect ==
  ASSUME Context, deliver_block
  PROVE  \E b \in Block, sealed \in BOOLEAN :
           /\ OnNode(b) /\ ~in_lineage(b) /\ in_lineage(Parent[b]) /\ Aligned
           /\ sealed => /\ straight_line(b) /\ subscription_seal_reason(b)
           /\ batches' = batches \cup
                {[block |-> b,
                  logs |-> IF sealed THEN {l \in buffered_logs : LogBlock[l] = b}
                                     ELSE logs_of(b, interests),
                  sealed |-> sealed, interests |-> interests]}
           /\ point' = b
           /\ buffered_logs' = {l \in (IF sealed THEN buffered_logs \ {l \in buffered_logs : LogBlock[l] = b}
                                                 ELSE buffered_logs) : Number[LogBlock[l]] > Number[b]}
           /\ pending_headers' = Restrict(pending_headers, {n \in DOMAIN pending_headers : n > Number[b]})
           /\ Range(delivery'.lineage) \subseteq Range(delivery.lineage)
           /\ delivery'.straight_line = delivery.straight_line
           /\ delivery.straight_line => delivery'.lineage = <<>>
<1>1. PICK lin \in Seq(Block) :
        /\ lin = delivery.lineage /\ lin # <<>>
        /\ \A i \in 1..Len(lin) : ~in_lineage(lin[i])
        /\ in_lineage(Parent[lin[1]])
  BY DEF deliver_block, Context, IInv, DeliveryTypeOK, WalkInv
<1>2. PICK b \in Block : b = Head(lin) /\ b = lin[1] /\ b \in Range(lin)
  BY <1>1, TailRange
<1>3. ~in_lineage(b) /\ in_lineage(Parent[b])
  <2>1. 1 \in 1..Len(lin)
    BY <1>1
  <2> QED
    BY <1>1, <1>2, <2>1
<1>4. /\ control = "deliver" /\ node_head \in Block
      /\ delivery \in [lineage : Seq(Block), straight_line : BOOLEAN, sealable : BOOLEAN]
  BY DEF deliver_block, Context, IInv, DeliveryTypeOK
<1>5. OnNode(b)
  BY <1>1, <1>2, <1>4 DEF Context, SealInv, HeadersOnNode
<1>6. delivery.straight_line =>
        /\ Len(lin) = 1 /\ straight_line(b) /\ Parent[b] = point
        /\ delivery.sealable => subscription_seal_reason(b)
  BY <1>1, <1>2, <1>4 DEF Context, SealInv, ClosedInv, straight_line
<1>7. Aligned
  <2>1. CASE ~delivery.straight_line
    BY <1>4, <2>1 DEF Aligned
  <2>2. CASE delivery.straight_line
    <3>1. OnChain(point, b)
      BY <1>6, <2>2, OwnChain
    <3> QED
      BY <1>4, <1>5, <3>1, ChainWithin DEF Aligned, OnNode
  <2> QED
    BY <2>1, <2>2
<1>8. PICK sealed \in BOOLEAN :
        sealed = (delivery.straight_line /\ Len(delivery.lineage) = 1 /\ delivery.sealable)
  OBVIOUS
<1>9. /\ batches' = batches \cup
           {[block |-> b,
             logs |-> IF sealed THEN {l \in buffered_logs : LogBlock[l] = b}
                                ELSE logs_of(b, interests),
             sealed |-> sealed, interests |-> interests]}
      /\ point' = b
      /\ retire_buffered_logs_through(Number[b],
           IF sealed THEN buffered_logs \ {l \in buffered_logs : LogBlock[l] = b} ELSE buffered_logs)
      /\ delivery' = [delivery EXCEPT !.lineage = Tail(@)]
  BY <1>1, <1>2, <1>8, Zenon DEF deliver_block
<1>10. delivery'.lineage = Tail(lin) /\ delivery'.straight_line = delivery.straight_line
  BY <1>1, <1>4, <1>9
<1>11. sealed => straight_line(b) /\ subscription_seal_reason(b)
  BY <1>6, <1>8
<1>12. Range(delivery'.lineage) \subseteq Range(delivery.lineage)
  BY <1>1, <1>10, TailRange
<1>13. delivery.straight_line => delivery'.lineage = <<>>
  BY <1>1, <1>6, <1>10, TailRange
<1>14. /\ buffered_logs' = {l \in (IF sealed THEN buffered_logs \ {l \in buffered_logs : LogBlock[l] = b}
                                             ELSE buffered_logs) : Number[LogBlock[l]] > Number[b]}
       /\ pending_headers' = Restrict(pending_headers, {n \in DOMAIN pending_headers : n > Number[b]})
  BY <1>9, Zenon DEF retire_buffered_logs_through
<1> QED
  BY <1>3, <1>5, <1>7, <1>9, <1>10, <1>11, <1>12, <1>13, <1>14

\* A sealed block lacks none of its logs, but those a reset discarded.
LEMMA SealLacksNothing ==
  ASSUME Context, Aligned, NEW b \in Block, OnNode(b), straight_line(b), subscription_seal_reason(b),
         NEW l \in logs_of(b, interests)
  PROVE  l \in buffered_logs \/ l \in discarded
<1>1. l \in Log /\ LogBlock[l] = b /\ LogStream[l] \in interests /\ Height(l) = Number[b]
  BY DEF logs_of, Height
<1>2. CASE bloom_excludes_every_interest(b)
  BY <1>1, <1>2, LogAssumption DEF bloom_excludes_every_interest
<1>3. CASE single_log_interest /\ highest_observed_block > Number[b] /\ attested_log_coverage >= Number[b]
  <2>1. /\ Number[b] \in Nat /\ Number[point] \in Nat /\ point \in Block
        /\ attested_log_coverage \in Int /\ highest_observed_block \in Int
    BY ContextTypes, TreeAssumption
  <2>2. ~OnChain(b, point)
    <3>1. ~(Number[b] <= Number[point])
      BY <2>1 DEF straight_line
    <3> QED
      BY <2>1, <3>1, OnChainIndex
  <2>3. l \in lost \cup Range(log_stream[LogStream[l]]) \cup buffered_logs \cup discarded
    BY <1>1, <2>2 DEF Context, SealInv, Accounted
  <2>4. l \notin lost
    <3>1. l \in lost => attested_log_coverage < Number[b]
      BY <1>1 DEF Context, SealInv, CoverageInv
    <3> QED
      BY <1>3, <2>1, <3>1
  <2>5. l \notin Range(log_stream[LogStream[l]])
    <3>1. l \in Range(log_stream[LogStream[l]]) => highest_observed_block <= Number[b]
      BY <1>1, <1>3 DEF Context, SealInv, ObservedInv
    <3> QED
      BY <1>3, <2>1, <3>1
  <2> QED
    BY <2>3, <2>4, <2>5
<1> QED
  BY <1>2, <1>3 DEF subscription_seal_reason

\* The delivery of a block keeps the seal invariant, and its batch is complete.
LEMMA DeliverBlockSeal ==
  ASSUME Context, SealedUnlessDiscarded, deliver_block
  PROVE  SealInv' /\ SealedUnlessDiscarded'
<1>1. PICK b \in Block, sealed \in BOOLEAN :
        /\ OnNode(b) /\ ~in_lineage(b) /\ in_lineage(Parent[b]) /\ Aligned
        /\ sealed => /\ straight_line(b) /\ subscription_seal_reason(b)
        /\ batches' = batches \cup
             {[block |-> b,
               logs |-> IF sealed THEN {l \in buffered_logs : LogBlock[l] = b}
                                  ELSE logs_of(b, interests),
               sealed |-> sealed, interests |-> interests]}
        /\ point' = b
        /\ buffered_logs' = {l \in (IF sealed THEN buffered_logs \ {l \in buffered_logs : LogBlock[l] = b}
                                              ELSE buffered_logs) : Number[LogBlock[l]] > Number[b]}
        /\ pending_headers' = Restrict(pending_headers, {n \in DOMAIN pending_headers : n > Number[b]})
        /\ Range(delivery'.lineage) \subseteq Range(delivery.lineage)
        /\ delivery'.straight_line = delivery.straight_line
        /\ delivery.straight_line => delivery'.lineage = <<>>
  BY DeliverBlockEffect
<1>2. /\ control = "deliver" /\ control' = "deliver"
      /\ UNCHANGED <<node_head, headers, log_stream, lost, interests, attested_log_coverage,
                     highest_observed_block, discarded>>
  BY DEF deliver_block, external
<1>3. node_head \in Block /\ Number[b] \in Nat /\ Number[node_head] \in Nat
  BY ContextTypes, TreeAssumption
<1>4. \A x : OnNode(x)' <=> OnNode(x)
  BY <1>2 DEF OnNode
<1>5. HeadersOnNode'
  <2>1. Number[point'] <= Number[node_head']
    BY <1>1, <1>2, <1>3, OnChainIndex DEF OnNode
  <2>2. \A n \in DOMAIN pending_headers' : OnNode(pending_headers'[n])
    BY <1>1 DEF Restrict, Context, SealInv, HeadersOnNode
  <2>3. \A h \in Range(delivery'.lineage) : OnNode(h)
    BY <1>1, <1>2 DEF Context, SealInv, HeadersOnNode
  <2> QED
    BY <1>2, <1>4, <2>1, <2>2, <2>3 DEF Context, SealInv, HeadersOnNode
<1>6. StreamsInOrder'
  BY <1>2, <1>4 DEF Context, SealInv, StreamsInOrder, Ordered
<1>7. Accounted'
  <2> SUFFICES ASSUME NEW l \in Log, LogStream[l] \in interests, OnNode(LogBlock[l]),
                      ~OnChain(LogBlock[l], b)
               PROVE  l \in lost \cup Range(log_stream[LogStream[l]]) \cup buffered_logs' \cup discarded
    BY <1>1, <1>2, <1>4 DEF Accounted
  <2>1. LogBlock[l] \in Block
    BY HeightNat
  <2>2. ~OnChain(LogBlock[l], point)
    BY <1>1, <1>3, <2>1, StillToDeliver DEF Context, OnNode
  <2>3. l \in lost \cup Range(log_stream[LogStream[l]]) \cup buffered_logs \cup discarded
    BY <2>2 DEF Context, SealInv, Accounted
  <2>4. Number[LogBlock[l]] > Number[b]
    BY <1>1, <1>3, AboveOnChain DEF OnNode, Height
  <2>5. LogBlock[l] # b
    BY OwnChain
  <2>6. l \in buffered_logs => l \in buffered_logs'
    BY <1>1, <2>4, <2>5
  <2> QED
    BY <2>3, <2>6
<1>8. CoverageInv' /\ ObservedInv'
  BY <1>1, <1>2, <1>4 DEF Context, SealInv, CoverageInv, ObservedInv, single_log_interest
<1>9. ClosedInv'
  BY <1>1 DEF ClosedInv
<1>10. SealedUnlessDiscarded'
  <2> DEFINE new == [block |-> b,
                     logs |-> IF sealed THEN {l \in buffered_logs : LogBlock[l] = b}
                                        ELSE logs_of(b, interests),
                     sealed |-> sealed, interests |-> interests]
  <2>1. \A r \in batches : logs_of(r.block, r.interests) \ r.logs \subseteq discarded'
    BY <1>2 DEF SealedUnlessDiscarded
  <2>2. logs_of(new.block, new.interests) \ new.logs \subseteq discarded'
    <3>1. new.block = b /\ new.interests = interests
      OBVIOUS
    <3>2. CASE sealed
      <4>1. new.logs = {l \in buffered_logs : LogBlock[l] = b}
        BY <3>2
      <4>2. \A l \in logs_of(b, interests) : LogBlock[l] = b /\ (l \in buffered_logs \/ l \in discarded)
        BY <1>1, <3>2, SealLacksNothing DEF logs_of
      <4> QED
        BY <1>2, <3>1, <4>1, <4>2
    <3>3. CASE ~sealed
      <4>1. new.logs = logs_of(b, interests)
        BY <3>3
      <4> QED
        BY <3>1, <4>1
    <3> QED
      BY <3>2, <3>3
  <2>3. batches' = batches \cup {new}
    BY <1>1
  <2> HIDE DEF new
  <2>4. \A r \in batches' : logs_of(r.block, r.interests) \ r.logs \subseteq discarded'
    BY <2>1, <2>2, <2>3
  <2> QED
    BY <2>4 DEF SealedUnlessDiscarded
<1> QED
  BY <1>5, <1>6, <1>7, <1>8, <1>9, <1>10 DEF SealInv

\* Only the delivery of a block adds a batch, and nothing leaves discarded.
LEMMA OtherStepsSealed ==
  ASSUME SealedUnlessDiscarded, [Next]_vars, ~deliver_block
  PROVE  SealedUnlessDiscarded'
<1>1. UNCHANGED batches
  BY Zenon DEF Next, SwitchHead, ReadBatch, handle_batch, seal_deadline, drain_sealable,
     next_batch_header, delivery_lineage, finish_delivery, driver_error, commit_add,
     commit_remove, vars
<1>2. UNCHANGED discarded \/ reset_subscription_assembly
  BY Zenon DEF Next, SwitchHead, ReadBatch, handle_batch, seal_deadline, drain_sealable,
     next_batch_header, delivery_lineage, finish_delivery, driver_error, commit_add,
     commit_remove, vars, assembly
<1>3. discarded \subseteq discarded'
  BY <1>2 DEF reset_subscription_assembly
<1> QED
  BY <1>1, <1>3 DEF SealedUnlessDiscarded

\* What the node and the subscriber may do for the seals to be complete: the
\* node replaces no block that is still in flight, and no interest is removed.
NoRaces ==
  /\ \A b \in Block : SwitchHead(b) => OnChain(node_head, b) \/ Quiet
  /\ Removable = {}

\* Every step keeps the seal invariant and the completeness of the batches.
LEMMA NextSeal ==
  ASSUME Context, SealedUnlessDiscarded, Source = "Subscription", NoRaces, [Next]_vars
  PROVE  SealInv' /\ SealedUnlessDiscarded'
<1>1. CASE \E b \in Block : SwitchHead(b)
  <2>1. PICK b \in Block : SwitchHead(b)
    BY <1>1
  <2>2. SealInv'
    BY <2>1, ExtendSeal, ReorgSeal DEF NoRaces
  <2>3. ~deliver_block
    <3>1. node_head' = b /\ b # node_head
      BY <2>1 DEF SwitchHead
    <3> QED
      BY <3>1 DEF deliver_block, external
  <2> QED
    BY <2>2, <2>3, OtherStepsSealed
<1>2. CASE deliver_block
  BY <1>2, DeliverBlockSeal
<1>3. CASE ReadBatch
  <2>1. SealInv'
    BY <1>3, ReadBatchSeal
  <2> QED
    BY <1>2, <2>1, OtherStepsSealed
<1>4. CASE \E b \in Block : seal_deadline(Number[b])
  <2>1. SealInv'
    BY <1>4, SealDeadlineSeal
  <2> QED
    BY <1>2, <2>1, OtherStepsSealed
<1>5. CASE drain_sealable
  <2>1. SealInv'
    BY <1>5, DrainSeal
  <2> QED
    BY <1>2, <2>1, OtherStepsSealed
<1>6. CASE delivery_lineage
  <2>1. SealInv'
    BY <1>6, DeliveryLineageSeal
  <2> QED
    BY <1>2, <2>1, OtherStepsSealed
<1>7. CASE finish_delivery \/ driver_error
  <2>1. SealInv'
    BY <1>7, FinishSeal
  <2> QED
    BY <1>2, <2>1, OtherStepsSealed
<1>8. CASE \E s \in Stream : commit_add(s)
  <2>1. SealInv'
    BY <1>8, AddSeal
  <2> QED
    BY <1>2, <2>1, OtherStepsSealed
<1>9. ~next_batch_header /\ ~(\E s \in Stream : commit_remove(s))
  BY DEF next_batch_header, commit_remove, NoRaces
<1>10. CASE UNCHANGED vars
  <2>1. SameFlight /\ UNCHANGED <<pending_headers, delivery, control>>
    BY <1>10 DEF vars, external, assembly, SameFlight
  <2>2. (Aligned' => Aligned) /\ ClosedInv'
    BY <2>1 DEF SameFlight, Aligned, OnNode, Context, SealInv, ClosedInv, straight_line,
       subscription_seal_reason, single_log_interest, bloom_excludes_every_interest
  <2>3. /\ \A n \in DOMAIN pending_headers' : OnNode(pending_headers'[n])
        /\ control' \in {"walk", "deliver"} => \A h \in Range(delivery'.lineage) : OnNode(h)
    BY <2>1 DEF Context, SealInv, HeadersOnNode
  <2>4. SealInv'
    BY <2>1, <2>2, <2>3, SameFlightSeal
  <2> QED
    BY <1>2, <2>4, OtherStepsSealed
<1> QED
  BY <1>1, <1>2, <1>3, <1>4, <1>5, <1>6, <1>7, <1>8, <1>9, <1>10, Zenon DEF Next

\* Nothing is in flight when the driver starts.
LEMMA InitSeal == Init => SealInv /\ SealedUnlessDiscarded
<1> SUFFICES ASSUME Init PROVE SealInv /\ SealedUnlessDiscarded
  OBVIOUS
<1>1. /\ node_head = Genesis /\ point = Genesis /\ Genesis \in Block /\ Number[Genesis] \in Nat
      /\ headers = <<>> /\ DOMAIN pending_headers = {} /\ control = "idle" /\ lost = {}
      /\ attested_log_coverage = -1 /\ highest_observed_block = -1 /\ batches = {}
      /\ \A s \in Stream : log_stream[s] = <<>>
  BY TreeAssumption DEF Init, None
<1>2. Range(<<>>) = {} /\ Ordered(<<>>)
  BY DEF Range, Ordered
<1>3. HeadersOnNode
  BY <1>1, <1>2 DEF HeadersOnNode
<1>4. StreamsInOrder
  BY <1>1, <1>2 DEF StreamsInOrder
<1>5. Accounted
  BY <1>1 DEF Accounted, OnNode
<1>6. CoverageInv
  BY <1>1 DEF CoverageInv
<1>7. ObservedInv
  <2>1. interests \subseteq Stream
    BY ConfigAssumption DEF Init
  <2> QED
    BY <1>1, <1>2, <2>1 DEF ObservedInv, None
<1>8. ClosedInv
  BY <1>1 DEF ClosedInv
<1> QED
  BY <1>1, <1>3, <1>4, <1>5, <1>6, <1>7, <1>8 DEF SealInv, SealedUnlessDiscarded

-----------------------------------------------------------------------------
(* Reconciliation. *)

\* In reconcile mode no header is sealable.
NoSeals == ~delivery.sealable

\* In reconcile mode every batch is fetched, so every batch is complete.
LEMMA NextReconciled ==
  ASSUME Source = "Reconcile", IInv, NoSeals, SealedComplete, [Next]_vars
  PROVE  NoSeals' /\ SealedComplete'
<1>1. delivery \in [lineage : Seq(Block), straight_line : BOOLEAN, sealable : BOOLEAN]
  BY DEF IInv, DeliveryTypeOK
<1>2. ~drain_sealable
  BY DEF drain_sealable
<1>3. NoSeals'
  <2>1. CASE next_batch_header
    BY <2>1 DEF next_batch_header, deliver_through_sealed, NoSeals
  <2>2. CASE delivery_lineage \/ deliver_block
    <3>1. UNCHANGED delivery \/ \E t : delivery' = [delivery EXCEPT !.lineage = t]
      BY <2>2 DEF delivery_lineage, deliver_block
    <3> QED
      BY <1>1, <3>1 DEF NoSeals
  <2>3. CASE finish_delivery
    BY <2>3 DEF finish_delivery, NoDelivery, NoSeals
  <2>4. CASE UNCHANGED delivery
    BY <2>4 DEF NoSeals
  <2>5. next_batch_header \/ delivery_lineage \/ deliver_block \/ finish_delivery \/ UNCHANGED delivery
    BY <1>2, Zenon DEF Next, SwitchHead, ReadBatch, handle_batch, seal_deadline, driver_error,
       commit_add, commit_remove, vars
  <2> QED
    BY <2>1, <2>2, <2>3, <2>4, <2>5
<1>4. CASE deliver_block
  <2>1. PICK r : /\ batches' = batches \cup {r}
                 /\ r = [block |-> Head(delivery.lineage),
                         logs |-> logs_of(Head(delivery.lineage), interests),
                         sealed |-> FALSE, interests |-> interests]
    <3> DEFINE b == Head(delivery.lineage)
               sealed == delivery.straight_line /\ Len(delivery.lineage) = 1 /\ delivery.sealable
    <3>1. batches' = batches \cup
            {[block |-> b,
              logs |-> IF sealed THEN {l \in buffered_logs : LogBlock[l] = b} ELSE logs_of(b, interests),
              sealed |-> sealed, interests |-> interests]}
      BY <1>4, Zenon DEF deliver_block
    <3>2. sealed = FALSE
      BY DEF NoSeals
    <3> HIDE DEF sealed, b
    <3> QED
      BY <3>1, <3>2 DEF b
  <2>2. logs_of(r.block, r.interests) \subseteq r.logs
    BY <2>1
  <2> QED
    BY <1>3, <2>1, <2>2 DEF SealedComplete
<1>5. CASE ~deliver_block
  <2>1. UNCHANGED batches
    BY <1>5, Zenon DEF Next, SwitchHead, ReadBatch, handle_batch, seal_deadline, drain_sealable,
       next_batch_header, delivery_lineage, finish_delivery, driver_error, commit_add,
       commit_remove, vars
  <2> QED
    BY <1>3, <2>1 DEF SealedComplete
<1> QED
  BY <1>3, <1>4, <1>5

\* CanonicalLogSource::Reconcile: every batch carries every log of its block,
\* whatever the node replaces, the transport loses and the topology changes.
THEOREM ReconciledComplete ==
  ASSUME Source = "Reconcile"
  PROVE  Spec => []SealedComplete
<1>1. Init => NoSeals /\ SealedComplete
  BY DEF Init, NoDelivery, NoSeals, SealedComplete
<1>2. IInv /\ NoSeals /\ SealedComplete /\ [Next]_vars => NoSeals' /\ SealedComplete'
  BY NextReconciled
<1> QED
  BY <1>1, <1>2, Invariance, PTL DEF Spec

\* subscription_seal_reason: where the node replaces no block in flight and no
\* interest is removed, a sealed batch lacks no log of its block but one that a
\* reset discarded, whatever the transport loses or delays and however many
\* headers newHeads skips.
THEOREM SealsLackOnlyDiscarded ==
  ASSUME RacingReorgs = FALSE, Removable = {}
  PROVE  Spec => []SealedUnlessDiscarded
<1>1. CASE Source = "Reconcile"
  <2>1. SealedComplete => SealedUnlessDiscarded
    BY DEF SealedComplete, SealedUnlessDiscarded
  <2> QED
    BY <1>1, <2>1, ReconciledComplete, PTL
<1>2. CASE Source = "Subscription"
  <2>1. NoRaces
    BY Zenon DEF NoRaces, SwitchHead
  <2>2. /\ IInv /\ AssemblyTypeOK /\ SealInv /\ SealedUnlessDiscarded /\ [Next]_vars
        => SealInv' /\ SealedUnlessDiscarded'
    BY <1>2, <2>1, NextSeal DEF Context
  <2> QED
    BY <2>2, InitSeal, AssemblyInvariance, PTL DEF Spec
<1> QED
  BY <1>1, <1>2, ConfigAssumption

-----------------------------------------------------------------------------
(* One chain, every header announced: nothing is ever discarded. *)

\* The tree has one block per height.
Linear == \A a, b \in Block : Number[a] = Number[b] => a = b

\* A run of headers up to number n: one per height, in order.
RunTo(q, n) == \A i \in 1..Len(q) : Number[q[i]] = n - Len(q) + i

\* No block is below the genesis.
LEMMA GenesisLowest ==
  ASSUME NEW p \in Block
  PROVE  Number[p] \in Nat /\ Number[Genesis] \in Nat /\ Number[Genesis] <= Number[p]
BY TreeAssumption

\* On a line every block is on the chain of every higher one.
LEMMA LinearExtends ==
  ASSUME Linear, NEW a \in Block, NEW b \in Block, Number[a] <= Number[b]
  PROVE  OnChain(a, b)
<1> DEFINE i == Number[a] - Number[Genesis] + 1
<1>1. Number[a] \in Nat /\ Number[b] \in Nat /\ Number[Genesis] \in Nat /\ Number[Genesis] <= Number[a]
  BY TreeAssumption
<1>2. ChainShape(b)
  BY ChainShapes
<1>3. i \in 1..Len(Chain[b])
  BY <1>1, <1>2 DEF ChainShape
<1>4. Chain[b][i] \in Block /\ Number[Chain[b][i]] = Number[Genesis] + i - 1
  BY <1>2, <1>3 DEF ChainShape
<1>5. Number[Chain[b][i]] = Number[a]
  BY <1>1, <1>4
<1>6. Chain[b][i] = a
  BY <1>4, <1>5 DEF Linear
<1> QED
  BY <1>3, <1>6, AtIndex

\* What an extension of the chain announces: the heights above the old head.
LEMMA ExtensionRun ==
  ASSUME NEW a \in Block, NEW b \in Block, OnChain(a, b)
  PROVE  /\ NewlyCanonical(a, b) \in Seq(Block)
         /\ Len(NewlyCanonical(a, b)) = Number[b] - Number[a]
         /\ RunTo(NewlyCanonical(a, b), Number[b])
<1>1. PICK c \in Seq(Block) : c = Chain[b]
  BY TreeAssumption
<1>2. PICK new \in Seq(Block) : new = NewlyCanonical(a, b)
  BY NewlyCanonicalType
<1>3. PICK k \in Nat :
         /\ k <= Len(c)
         /\ Len(new) = Len(c) - k
         /\ \A i \in 1..(Len(c) - k) : new[i] = c[k + i]
         /\ \A i \in 1..Len(c) : i <= k <=> OnChain(c[i], a)
  BY <1>1, <1>2, NewlyCanonicalShape
<1>4. PICK g \in Nat, na \in Nat, nb \in Nat : g = Number[Genesis] /\ na = Number[a] /\ nb = Number[b]
  BY TreeAssumption
<1>5. /\ Len(c) = nb - g + 1 /\ Len(c) \in Nat
      /\ \A i \in 1..Len(c) : Number[c[i]] = g + i - 1
  <2>1. ChainShape(b) /\ Len(c) \in Nat
    BY ChainShapes
  <2> QED
    BY <2>1, <1>1, <1>4 DEF ChainShape
<1>6. g <= na /\ na - g + 1 \in 1..Len(c) /\ c[na - g + 1] = a
  BY <1>1, <1>4, OnChainIndex
<1>7. na - g + 1 <= k
  BY <1>3, <1>4, <1>6, OwnChain
<1>8. k <= na - g + 1
  <2>1. CASE k = 0
    BY <2>1, <1>4, <1>6
  <2>2. CASE k # 0
    <3>1. k \in 1..Len(c)
      BY <2>2, <1>3, <1>5
    <3>2. OnChain(c[k], a)
      BY <3>1, <1>3
    <3>3. Number[c[k]] <= na
      BY <3>2, <1>4, OnChainIndex
    <3> QED
      BY <3>1, <3>3, <1>4, <1>5
  <2> QED
    BY <2>1, <2>2
<1>9. k = na - g + 1
  BY <1>4, <1>7, <1>8
<1>10. Len(new) = nb - na
  <2>1. Len(new) = Len(c) - k /\ Len(c) = nb - g + 1
    BY <1>3, <1>5
  <2>2. Len(new) = (nb - g + 1) - (na - g + 1)
    BY <2>1, <1>9
  <2>3. (nb - g + 1) - (na - g + 1) = nb - na
    BY <1>4
  <2> QED
    BY <2>2, <2>3
<1>11. \A i \in 1..Len(new) : Number[new[i]] = na + i
  <2> TAKE i \in 1..Len(new)
  <2>1. i \in 1..(Len(c) - k) /\ k + i \in 1..Len(c)
    BY <1>3, <1>5
  <2>2. new[i] = c[k + i] /\ Number[c[k + i]] = g + (k + i) - 1
    BY <2>1, <1>3, <1>5
  <2> QED
    BY <2>2, <1>4, <1>9
<1> QED
  BY <1>2, <1>4, <1>10, <1>11 DEF RunTo

\* A run followed by the run above it is a run.
LEMMA RunConcat ==
  ASSUME NEW q \in Seq(Block), NEW r \in Seq(Block), NEW n \in Nat, NEW m \in Nat,
         RunTo(q, n), RunTo(r, m), Len(r) = m - n
  PROVE  RunTo(q \o r, m)
<1>1. q \o r \in Seq(Block) /\ Len(q \o r) = Len(q) + Len(r)
  BY ConcatProperties
<1>a. PICK s \in Seq(Block) : s = q \o r
  BY <1>1
<1>2. Len(s) = Len(q) + Len(r) /\ Len(q) \in Nat /\ Len(r) \in Nat
  BY <1>1, <1>a
<1>3. \A i \in 1..Len(s) : Number[s[i]] = m - Len(s) + i
  <2> TAKE i \in 1..Len(s)
  <2>1. CASE i <= Len(q)
    <3>1. i \in 1..Len(q) /\ s[i] = q[i]
      BY <1>a, <1>2, <2>1
    <3> QED
      BY <1>2, <3>1 DEF RunTo
  <2>2. CASE ~(i <= Len(q))
    <3>1. i - Len(q) \in 1..Len(r) /\ s[i] = r[i - Len(q)]
      BY <1>a, <1>2, <2>2
    <3> QED
      BY <1>2, <3>1 DEF RunTo
  <2> QED
    BY <2>1, <2>2
<1> QED
  BY <1>a, <1>3 DEF RunTo

\* Reading k headers of a run leaves a run, and takes the k heights below it.
LEMMA RunSplit ==
  ASSUME NEW q \in Seq(Block), NEW n \in Nat, NEW k \in Nat, k <= Len(q), RunTo(q, n)
  PROVE  /\ RunTo(SubSeq(q, k + 1, Len(q)), n)
         /\ Len(SubSeq(q, k + 1, Len(q))) = Len(q) - k
         /\ {Number[h] : h \in Range(SubSeq(q, 1, k))} = (n - Len(q) + 1)..(n - Len(q) + k)
<1>1. Len(q) \in Nat
  OBVIOUS
<1>2. PICK s \in Seq(Block) : s = SubSeq(q, k + 1, Len(q))
  <2>1. SubSeq(q, k + 1, Len(q)) \in Seq(Block)
    BY <1>1, SubSeqType, k + 1 \in Nat \ {0}, Len(q) <= Len(q)
  <2> QED
    BY <2>1
<1>3. Len(s) = Len(q) - k /\ \A i \in 1..Len(s) : s[i] = q[k + i]
  BY <1>1, <1>2
<1>4. RunTo(s, n)
  <2> SUFFICES ASSUME NEW i \in 1..Len(s) PROVE Number[s[i]] = n - Len(s) + i
    BY DEF RunTo
  <2>1. k + i \in 1..Len(q) /\ s[i] = q[k + i]
    BY <1>1, <1>3
  <2>2. Number[q[k + i]] = n - Len(q) + (k + i)
    BY <2>1 DEF RunTo
  <2> QED
    BY <1>1, <1>3, <2>1, <2>2
<1>5. PICK p \in Seq(Block) : p = SubSeq(q, 1, k)
  <2>1. SubSeq(q, 1, k) \in Seq(Block)
    BY SubSeqType, 1 \in Nat \ {0}
  <2> QED
    BY <2>1
<1>6. Len(p) = k /\ \A i \in 1..k : p[i] = q[i]
  BY <1>1, <1>5
<1>7. Range(p) = {q[i] : i \in 1..k}
  <2>1. DOMAIN p = 1..k
    BY <1>6
  <2> QED
    BY <1>6, <2>1 DEF Range
<1>8. \A i \in 1..k : Number[q[i]] = n - Len(q) + i
  BY <1>1 DEF RunTo
<1>9. {Number[h] : h \in Range(p)} \subseteq (n - Len(q) + 1)..(n - Len(q) + k)
  <2> SUFFICES ASSUME NEW i \in 1..k PROVE Number[q[i]] \in (n - Len(q) + 1)..(n - Len(q) + k)
    BY <1>7
  <2> QED
    BY <1>1, <1>8
<1>10. (n - Len(q) + 1)..(n - Len(q) + k) \subseteq {Number[h] : h \in Range(p)}
  <2> SUFFICES ASSUME NEW x \in (n - Len(q) + 1)..(n - Len(q) + k)
               PROVE  \E h \in Range(p) : x = Number[h]
    OBVIOUS
  <2>1. PICK i \in 1..k : x = n - Len(q) + i
    <3>1. x - (n - Len(q)) \in 1..k /\ x = n - Len(q) + (x - (n - Len(q)))
      BY <1>1
    <3> QED
      BY <3>1
  <2>2. q[i] \in Range(p)
    BY <1>7
  <2> QED
    BY <1>8, <2>1, <2>2
<1> QED
  BY <1>2, <1>3, <1>4, <1>5, <1>9, <1>10

\* Headers not yet read run to the node's head, and those that wait run from the
\* block being delivered to the first unread one.
InHand == control \in {"walk", "deliver"} /\ delivery.lineage # <<>>

Frontier == IF InHand THEN Number[delivery.lineage[1]] ELSE Number[point]

Gapless ==
  /\ RunTo(headers, Number[node_head])
  /\ control # "failed" =>
       /\ Frontier <= Number[node_head] - Len(headers)
       /\ DOMAIN pending_headers = (Frontier + 1)..(Number[node_head] - Len(headers))

NoReset ==
  /\ control \in {"walk", "deliver"} => delivery.straight_line
  /\ discarded = {}

LineInv == Gapless /\ NoReset

\* The types the argument uses.
LEMMA LineTypes ==
  ASSUME Context
  PROVE  /\ node_head \in Block /\ Number[node_head] \in Nat
         /\ point \in Block /\ Number[point] \in Nat
         /\ headers \in Seq(Block) /\ Len(headers) \in Nat
         /\ delivery.lineage \in Seq(Block)
         /\ Frontier \in Nat
<1>1. /\ node_head \in Block /\ Number[node_head] \in Nat
      /\ point \in Block /\ Number[point] \in Nat
      /\ headers \in Seq(Block) /\ delivery.lineage \in Seq(Block)
  BY ContextTypes
<1>2. Len(headers) \in Nat
  BY <1>1
<1>3. Frontier \in Nat
  <2>1. CASE InHand
    <3>1. delivery.lineage[1] \in Block
      BY <1>1, <2>1 DEF InHand
    <3> QED
      BY <2>1, <3>1, TreeAssumption DEF Frontier
  <2>2. CASE ~InHand
    BY <1>1, <2>2 DEF Frontier
  <2> QED
    BY <2>1, <2>2
<1> QED
  BY <1>1, <1>2, <1>3

\* On a line the head can only move up, and announces the next heights.
LEMMA LineSwitch ==
  ASSUME Linear, SkipsHeaders = FALSE, Context, LineInv, NEW b \in Block, SwitchHead(b)
  PROVE  OnChain(node_head, b) /\ LineInv'
<1>1. PICK a \in Block, n \in Nat, m \in Nat : a = node_head /\ n = Number[a] /\ m = Number[b]
  BY LineTypes, TreeAssumption
<1>2. node_head' = b /\ UNCHANGED <<pending_headers, delivery, control, point, discarded>> /\ n <= m
  BY <1>1 DEF SwitchHead, assembly
<1>3. OnChain(a, b)
  BY <1>1, <1>2, LinearExtends
<1>4. PICK new \in Seq(Block) : new = NewlyCanonical(a, b) /\ Len(new) = m - n /\ RunTo(new, m)
  BY <1>1, <1>3, ExtensionRun
<1>5. PICK first \in 1..1 : headers' = headers \o SubSeq(new, first, Len(new))
  BY <1>1, <1>4, Zenon DEF SwitchHead
<1>6. headers \in Seq(Block) /\ Len(headers) \in Nat
  BY LineTypes
<1>7. headers' = headers \o new
  <2>1. first = 1
    BY <1>5
  <2>2. SubSeq(new, 1, Len(new)) = new
    BY <1>4
  <2> QED
    BY <1>5, <2>1, <2>2
<1>8. RunTo(headers, n)
  BY <1>1 DEF LineInv, Gapless
<1>9. RunTo(headers', m)
  BY <1>1, <1>4, <1>6, <1>7, <1>8, RunConcat
<1>10. Len(headers') = Len(headers) + (m - n)
  BY <1>4, <1>6, <1>7
<1>11. m - Len(headers') = n - Len(headers)
  BY <1>1, <1>6, <1>10
<1>12. Frontier' = Frontier
  BY <1>2 DEF Frontier, InHand
<1>13. Gapless'
  BY <1>1, <1>2, <1>9, <1>11, <1>12 DEF LineInv, Gapless
<1>14. NoReset'
  BY <1>2 DEF LineInv, NoReset
<1> QED
  BY <1>1, <1>3, <1>13, <1>14 DEF LineInv

\* handle_batch moves the lowest unread heights to the pending headers.
LEMMA LineRead ==
  ASSUME Source = "Subscription", Context, LineInv, ReadBatch
  PROVE  LineInv'
<1>1. PICK nh \in Nat, nl \in [Stream -> Nat], covered \in {None} \cup {Number[b] : b \in Attestable} :
           /\ nh <= Len(headers)
           /\ SubSeq(headers, 1, nh) \in Seq(Block)
           /\ handle_batch(nh, nl, covered)
  BY BatchShape DEF Context
<1>2. /\ control = "idle" /\ control' = "drain"
      /\ headers' = SubSeq(headers, nh + 1, Len(headers))
      /\ pending_headers' = insert_pending(SubSeq(headers, 1, nh))
      /\ UNCHANGED <<node_head, delivery, point, discarded>>
  BY <1>1, ReadBatchEffect
<1>3. PICK q \in Seq(Block), n \in Nat, k \in Nat :
        q = headers /\ n = Number[node_head] /\ k = Len(q)
  BY LineTypes
<1>4. PICK f \in Nat : f = Number[point] /\ f = Frontier /\ f = Frontier'
  BY <1>2, LineTypes DEF Frontier, InHand
<1>5. /\ RunTo(q, n) /\ f <= n - k
      /\ DOMAIN pending_headers = (f + 1)..(n - k)
  BY <1>2, <1>3, <1>4 DEF LineInv, Gapless
<1>6. /\ RunTo(SubSeq(q, nh + 1, Len(q)), n)
      /\ Len(SubSeq(q, nh + 1, Len(q))) = Len(q) - nh
      /\ {Number[h] : h \in Range(SubSeq(q, 1, nh))} = (n - Len(q) + 1)..(n - Len(q) + nh)
  <2>1. nh <= Len(q)
    BY <1>1, <1>3
  <2> QED
    BY <1>5, <2>1, RunSplit
<1>7. DOMAIN pending_headers' = DOMAIN pending_headers \cup {Number[h] : h \in Range(SubSeq(q, 1, nh))}
  BY <1>2, <1>3 DEF insert_pending
<1>8. DOMAIN pending_headers' = ((f + 1)..(n - k)) \cup ((n - k + 1)..(n - k + nh))
  BY <1>3, <1>5, <1>6, <1>7
<1>9. DOMAIN pending_headers' = (f + 1)..(n - k + nh)
  <2>1. ((f + 1)..(n - k)) \cup ((n - k + 1)..(n - k + nh)) = (f + 1)..(n - k + nh)
    BY <1>1, <1>3, <1>4, <1>5
  <2> QED
    BY <1>8, <2>1
<1>10. Len(headers') = k - nh /\ RunTo(headers', n)
  BY <1>2, <1>3, <1>6
<1>11. n - Len(headers') = n - k + nh /\ f <= n - k + nh
  BY <1>1, <1>3, <1>4, <1>5, <1>10
<1>12. Gapless'
  BY <1>2, <1>3, <1>4, <1>9, <1>10, <1>11 DEF Gapless
<1>13. NoReset'
  BY <1>2 DEF LineInv, NoReset
<1> QED
  BY <1>12, <1>13 DEF LineInv

\* The lowest pending header is the child of the point, so its delivery is straight.
LEMMA LineDrain ==
  ASSUME Linear, Context, LineInv, drain_sealable
  PROVE  LineInv'
<1> DEFINE n == Min(DOMAIN pending_headers)
           h == pending_headers[n]
<1>1. /\ control = "drain" /\ UNCHANGED <<node_head, headers, point, discarded>>
  BY DEF drain_sealable, external, assembly
<1>2. PICK f \in Nat, top \in Int :
        /\ f = Number[point] /\ f = Frontier /\ top = Number[node_head] - Len(headers)
        /\ f <= top /\ DOMAIN pending_headers = (f + 1)..top
  BY <1>1, LineTypes DEF Frontier, InHand, LineInv, Gapless
<1>3. RunTo(headers, Number[node_head])'
  BY <1>1 DEF LineInv, Gapless
<1>4. CASE control' = "idle" /\ UNCHANGED <<assembly, delivery>>
  <2>1. Frontier' = Frontier /\ UNCHANGED pending_headers
    BY <1>1, <1>4 DEF Frontier, InHand, assembly
  <2> QED
    BY <1>1, <1>4, <2>1 DEF LineInv, Gapless, NoReset
<1>5. CASE /\ DOMAIN pending_headers # {}
           /\ pending_headers' = Restrict(pending_headers, DOMAIN pending_headers \ {n})
           /\ \E sealable : deliver_through_sealed(h, sealable)
  <2>1. n = f + 1 /\ f + 1 <= top
    <3>1. f + 1 <= top
      BY <1>2, <1>5
    <3>2. top \in Nat /\ f + 1 \in Nat
      BY <1>2, <3>1
    <3>3. Min((f + 1)..top) = f + 1
      BY <3>1, <3>2, MinInterval
    <3> QED
      BY <1>2, <3>1, <3>3
  <2>2. n \in DOMAIN pending_headers
    BY <1>2, <2>1
  <2>3. h \in Block /\ Number[h] = n
    BY <2>2 DEF Context, IInv, DeliveryTypeOK, AssemblyTypeOK
  <2>4. PICK g \in Block : g = h /\ Number[g] = f + 1
    BY <2>1, <2>3
  <2>5. point \in Block /\ Number[Genesis] \in Nat /\ Number[Genesis] <= f
    <3>1. point \in Block
      BY LineTypes
    <3>2. Number[point] \in Nat /\ Number[Genesis] \in Nat /\ Number[Genesis] <= Number[point]
      BY <3>1, GenesisLowest
    <3> QED
      BY <1>2, <3>1, <3>2
  <2>6. Parent[g] \in Block /\ Number[g] = Number[Parent[g]] + 1 /\ Number[Parent[g]] \in Nat
    BY <1>2, <2>4, <2>5, TreeAssumption
  <2>7. Parent[g] = point
    <3>1. Number[Parent[g]] = f
      BY <1>2, <2>4, <2>6
    <3>2. Number[point] = f
      BY <1>2
    <3> QED
      BY <2>5, <2>6, <3>1, <3>2 DEF Linear
  <2>8. straight_line(g) /\ g # point
    <3>1. Number[point] = f /\ f \in Nat /\ Number[g] = f + 1
      BY <1>2, <2>4
    <3> QED
      BY <2>7, <3>1 DEF straight_line
  <2> HIDE DEF n, h
  <2>9. /\ control' = "walk" /\ delivery'.lineage = <<g>> /\ delivery'.straight_line
    <3>1. PICK sealable : deliver_through_sealed(g, sealable)
      BY <1>5, <2>4
    <3>2. /\ delivery' = [lineage |-> <<g>>, straight_line |-> straight_line(g), sealable |-> sealable]
          /\ control' = "walk"
      BY <2>8, <3>1 DEF deliver_through_sealed
    <3> QED
      BY <2>8, <3>2
  <2>10. InHand' /\ Frontier' = f + 1
    BY <2>4, <2>9 DEF InHand, Frontier
  <2>11. DOMAIN pending_headers' = (f + 2)..top
    <3>1. DOMAIN pending_headers' = ((f + 1)..top) \ {f + 1}
      BY <1>2, <1>5, <2>1 DEF Restrict
    <3>2. ((f + 1)..top) \ {f + 1} = (f + 2)..top
      BY <1>2
    <3> QED
      BY <3>1, <3>2
  <2>12. Gapless'
    BY <1>1, <1>2, <1>3, <2>1, <2>10, <2>11 DEF Gapless
  <2>13. NoReset'
    BY <1>1, <2>9 DEF LineInv, NoReset
  <2> QED
    BY <2>12, <2>13 DEF LineInv
<1>6. \/ control' = "idle" /\ UNCHANGED <<assembly, delivery>>
      \/ /\ DOMAIN pending_headers # {}
         /\ pending_headers' = Restrict(pending_headers, DOMAIN pending_headers \ {n})
         /\ \E sealable : deliver_through_sealed(h, sealable)
  BY Zenon DEF drain_sealable
<1> QED
  BY <1>4, <1>5, <1>6


\* The walk of a straight line ends where it starts, and resets nothing.
LEMMA LineWalk ==
  ASSUME Context, LineInv, delivery_lineage
  PROVE  LineInv'
<1>1. /\ control = "walk" /\ delivery.straight_line /\ delivery.lineage # <<>>
      /\ delivery.lineage \in Seq(Block)
  BY LineTypes DEF Context, IInv, WalkInv, delivery_lineage, LineInv, NoReset
<1>2. PICK current \in Block :
        /\ current = delivery.lineage[1] /\ current = Head(delivery.lineage)
        /\ straight_line(current)
  BY <1>1 DEF Context, SealInv, ClosedInv
<1>3. PICK np \in Nat : np = Number[point] /\ Number[current] = np + 1 /\ Parent[current] = point
  BY <1>2, LineTypes DEF straight_line
<1>4. in_lineage(point)
  <2>1. np \in DOMAIN canonical_lineage /\ canonical_lineage[np] = point
    BY <1>3 DEF Context, IInv, LineageInv, Retention
  <2> QED
    BY <1>3, <2>1 DEF in_lineage
<1>5. ~in_lineage(current)
  <2>1. \A n \in DOMAIN canonical_lineage : n <= np
    BY <1>3 DEF Context, IInv, LineageInv, Retention
  <2> QED
    BY <1>3, <2>1 DEF in_lineage
<1>6. Number[current] # 0 /\ in_lineage(Parent[current])
  BY <1>3, <1>4
<1>7. /\ delivery' = [delivery EXCEPT !.lineage = delivery.lineage] /\ control' = "deliver"
      /\ UNCHANGED <<assembly, external, point>>
  BY <1>1, <1>2, <1>5, <1>6, Zenon DEF delivery_lineage
<1>8. delivery' = delivery
  BY <1>7 DEF Context, IInv, DeliveryTypeOK
<1>9. Frontier' = Frontier
  BY <1>1, <1>7, <1>8 DEF Frontier, InHand
<1> QED
  BY <1>1, <1>7, <1>8, <1>9 DEF LineInv, Gapless, NoReset, assembly, external

\* The delivered block becomes the point, below the headers that wait.
LEMMA LineDeliver ==
  ASSUME Context, LineInv, deliver_block
  PROVE  LineInv'
<1>1. /\ control = "deliver" /\ delivery.straight_line /\ delivery.lineage # <<>>
      /\ delivery.lineage \in Seq(Block)
  BY LineTypes DEF deliver_block, LineInv, NoReset
<1>2. /\ control' = "deliver" /\ UNCHANGED <<node_head, headers, discarded>>
      /\ point' = Head(delivery.lineage)
  BY <1>1, Zenon DEF deliver_block, external
<1>3. PICK b \in Block, sealed \in BOOLEAN :
        /\ point' = b
        /\ pending_headers' = Restrict(pending_headers, {n \in DOMAIN pending_headers : n > Number[b]})
        /\ delivery'.straight_line = delivery.straight_line
        /\ delivery'.lineage = <<>>
  BY <1>1, DeliverBlockEffect
<1>4. PICK f \in Nat, top \in Int :
        /\ f = Frontier /\ top = Number[node_head] - Len(headers)
        /\ f <= top /\ DOMAIN pending_headers = (f + 1)..top
  BY <1>1, LineTypes DEF LineInv, Gapless
<1>5. f = Number[b]
  BY <1>1, <1>2, <1>3, <1>4 DEF Frontier, InHand
<1>6. Frontier' = f
  BY <1>3, <1>5 DEF Frontier, InHand
<1>7. DOMAIN pending_headers' = (f + 1)..top
  <2>1. DOMAIN pending_headers' = {n \in (f + 1)..top : n > f}
    BY <1>3, <1>4, <1>5 DEF Restrict
  <2>2. {n \in (f + 1)..top : n > f} = (f + 1)..top
    BY <1>4
  <2> QED
    BY <2>1, <2>2
<1>8. Gapless'
  BY <1>2, <1>4, <1>6, <1>7 DEF LineInv, Gapless
<1>9. NoReset'
  BY <1>1, <1>2, <1>3 DEF LineInv, NoReset
<1> QED
  BY <1>8, <1>9 DEF LineInv

\* The steps that leave the headers and the deliveries alone.
LEMMA LineOther ==
  ASSUME Context, LineInv,
         UNCHANGED <<node_head, headers, pending_headers, point, discarded>>,
         \/ UNCHANGED delivery /\ UNCHANGED control
         \/ control' = "failed"
         \/ ~InHand /\ control # "failed" /\ control' \in {"idle", "drain"}
  PROVE  LineInv'
<1>1. CASE UNCHANGED delivery /\ UNCHANGED control
  BY <1>1 DEF LineInv, Gapless, NoReset, Frontier, InHand
<1>2. CASE control' = "failed"
  BY <1>2 DEF LineInv, Gapless, NoReset
<1>3. CASE ~InHand /\ control # "failed" /\ control' \in {"idle", "drain"}
  <2>1. Frontier' = Frontier /\ control' \notin {"walk", "deliver"}
    BY <1>3 DEF Frontier, InHand
  <2> QED
    BY <1>3, <2>1 DEF LineInv, Gapless, NoReset
<1> QED
  BY <1>1, <1>2, <1>3

\* Every step keeps the line.
LEMMA NextLine ==
  ASSUME Source = "Subscription", Linear, SkipsHeaders = FALSE, Context, LineInv, [Next]_vars
  PROVE  LineInv'
<1>1. CASE \E b \in Block : SwitchHead(b)
  BY <1>1, LineSwitch
<1>2. CASE ReadBatch
  BY <1>2, LineRead
<1>3. CASE \E b \in Block : seal_deadline(Number[b])
  <2>1. /\ UNCHANGED <<node_head, headers, pending_headers, point, discarded>>
        /\ control \in {"idle", "drain"} /\ control' = "drain"
    BY <1>3, Zenon DEF seal_deadline, external
  <2>2. ~InHand /\ control # "failed"
    BY <2>1 DEF InHand
  <2> QED
    BY <2>1, <2>2, LineOther
<1>4. CASE drain_sealable
  BY <1>4, LineDrain
<1>5. CASE delivery_lineage
  BY <1>5, LineWalk
<1>6. CASE deliver_block
  BY <1>6, LineDeliver
<1>7. CASE finish_delivery
  <2>1. /\ UNCHANGED <<node_head, headers, pending_headers, point, discarded>>
        /\ control = "deliver" /\ control' = "drain" /\ delivery.lineage = <<>>
    BY <1>7 DEF finish_delivery, external, assembly
  <2>2. ~InHand
    BY <2>1 DEF InHand
  <2> QED
    BY <2>1, <2>2, LineOther
<1>8. CASE driver_error
  BY <1>8, LineOther DEF driver_error, external, assembly
<1>9. CASE \E s \in Stream : commit_add(s) \/ commit_remove(s)
  <2>1. UNCHANGED <<node_head, headers, pending_headers, point, discarded, delivery, control>>
    BY <1>9, Zenon DEF commit_add, commit_remove, assembly
  <2> QED
    BY <2>1, LineOther
<1>10. CASE UNCHANGED vars
  BY <1>10, LineOther DEF vars, external, assembly
<1>11. ~next_batch_header
  BY DEF next_batch_header
<1> QED
  BY <1>1, <1>2, <1>3, <1>4, <1>5, <1>6, <1>7, <1>8, <1>9, <1>10, <1>11, Zenon DEF Next

\* The driver starts at the genesis with nothing announced.
LEMMA InitLine == Init => LineInv
<1> SUFFICES ASSUME Init PROVE LineInv
  OBVIOUS
<1>1. /\ node_head = Genesis /\ point = Genesis /\ Number[Genesis] \in Nat
      /\ headers = <<>> /\ DOMAIN pending_headers = {} /\ control = "idle" /\ discarded = {}
  BY TreeAssumption DEF Init
<1>2. Frontier = Number[Genesis]
  BY <1>1 DEF Frontier, InHand
<1>3. RunTo(<<>>, Number[Genesis]) /\ Len(<<>>) = 0
  BY DEF RunTo
<1> QED
  BY <1>1, <1>2, <1>3 DEF LineInv, Gapless, NoReset

\* On a chain without forks whose every header is announced no block is ever
\* delivered across a gap, nothing is reset, and every batch is complete: the
\* subscription's logs are as good as reconciliation, whatever the transport loses
\* or delays and however many interests are added.
THEOREM LinearComplete ==
  ASSUME Linear, SkipsHeaders = FALSE, Removable = {}
  PROVE  Spec => []SealedComplete
<1>1. CASE Source = "Reconcile"
  BY <1>1, ReconciledComplete
<1>2. CASE Source = "Subscription"
  <2>1. /\ IInv /\ AssemblyTypeOK /\ SealInv /\ SealedUnlessDiscarded /\ LineInv /\ [Next]_vars
        => SealInv' /\ SealedUnlessDiscarded' /\ LineInv'
    <3> SUFFICES ASSUME Context, SealedUnlessDiscarded, LineInv, [Next]_vars
                 PROVE  SealInv' /\ SealedUnlessDiscarded' /\ LineInv'
      BY DEF Context
    <3>1. NoRaces
      BY LineSwitch DEF NoRaces
    <3> QED
      BY <1>2, <3>1, NextSeal, NextLine
  <2>2. SealedUnlessDiscarded /\ LineInv => SealedComplete
    BY DEF SealedUnlessDiscarded, SealedComplete, LineInv, NoReset
  <2> QED
    BY <2>1, <2>2, InitSeal, InitLine, AssemblyInvariance, PTL DEF Spec
<1> QED
  BY <1>1, <1>2, ConfigAssumption

=============================================================================
