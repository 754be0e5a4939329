-------------------------- MODULE RegistrationProofs --------------------------
(***************************************************************************)
(* NothingOutlivesItsOwner, Anchored and the types of Registration, for    *)
(* every block tree, every set of adapters, owners and pools, every        *)
(* creation log and every bound on generations and candidates.             *)
(*                                                                         *)
(* The handlers are operators from record to record, and so are the proofs *)
(* about them: Sound(S, K, W, X) is the inductive invariant of a record S  *)
(* on a chain K, and one lemma for each operator says that it is handed    *)
(* on.  A handler's lemma combines those of the operators it calls.  The   *)
(* folds of the model are recursive functions, shown to exist once         *)
(* (FoldExists) and followed by FoldKeeps.                                 *)
(***************************************************************************)
EXTENDS Registration, FiniteSetTheorems, SequenceTheorems, TLAPS

-----------------------------------------------------------------------------
(* Folds over sequences. *)

\* A non-empty set of naturals has a least element.
LEMMA LeastNat ==
  ASSUME NEW T, T \subseteq Nat, T # {}
  PROVE  \E x \in T : \A y \in T : x <= y
<1>1. PICK x \in T : \A y \in T : ~(<<y, x>> \in OpToRel(<, Nat))
  BY NatLessThanWellFounded, WFMin, Zenon
<1>2. \A y \in T : ~(y < x)
  BY <1>1, Zenon DEF OpToRel
<1> QED
  BY <1>2

\* g iterates the steps F from x0.
Iterates(g, n, X, x0, F) ==
  g \in [0..n -> X] /\ g[0] = x0 /\ \A i \in 1..n : g[i] = F[i][g[i - 1]]

\* The iteration of steps F that stay within X is a function.
LEMMA FoldExists ==
  ASSUME NEW n \in Nat, NEW X, NEW x0 \in X, NEW F \in [1..n -> [X -> X]]
  PROVE  \E g : Iterates(g, n, X, x0, F)
<1> DEFINE Upto(k) == \E g \in [0..k -> X] : g[0] = x0 /\ \A i \in 1..k : g[i] = F[i][g[i - 1]]
           T == {k \in 0..n : ~Upto(k)}
<1>1. ASSUME T # {} PROVE FALSE
  <2>1. PICK k \in T : \A m \in T : k <= m
    BY <1>1, LeastNat, T \subseteq Nat
  <2>2. k \in 0..n /\ ~Upto(k)
    BY <2>1
  <2>3. k # 0
    <3>1. Upto(0)
      <4> DEFINE g == [i \in 0..0 |-> x0]
      <4>1. g \in [0..0 -> X] /\ g[0] = x0 /\ \A i \in 1..0 : g[i] = F[i][g[i - 1]]
        OBVIOUS
      <4> QED
        BY <4>1
    <3> QED
      BY <2>2, <3>1
  <2>4. k - 1 \in 0..n /\ k - 1 \notin T
    <3>1. k - 1 \in 0..n /\ ~(k <= k - 1)
      BY <2>2, <2>3
    <3> QED
      BY <2>1, <3>1
  <2>5. Upto(k - 1)
    BY <2>4
  <2>6. PICK g \in [0..(k - 1) -> X] :
          g[0] = x0 /\ \A i \in 1..(k - 1) : g[i] = F[i][g[i - 1]]
    BY <2>5
  <2> DEFINE h == [i \in 0..k |-> IF i = k THEN F[k][g[k - 1]] ELSE g[i]]
  <2>7. g[k - 1] \in X /\ k \in 1..n
    BY <2>2, <2>3, <2>6
  <2>8. F[k][g[k - 1]] \in X
    BY <2>7
  <2>9. h \in [0..k -> X]
    BY <2>2, <2>6, <2>8
  <2>10. h[0] = x0
    BY <2>2, <2>3, <2>6
  <2>11. ASSUME NEW i \in 1..k PROVE h[i] = F[i][h[i - 1]]
    <3>1. h[i - 1] = g[i - 1]
      BY <2>2
    <3>2. CASE i = k
      <4>1. h[k] = F[k][g[k - 1]]
        BY <2>2
      <4> QED
        BY <3>1, <3>2, <4>1
    <3>3. CASE i # k
      <4>1. i \in 1..(k - 1) /\ h[i] = g[i]
        BY <2>2, <3>3
      <4> QED
        BY <2>6, <3>1, <4>1
    <3> QED
      BY <3>2, <3>3
  <2> HIDE DEF h
  <2> QED
    BY <2>2, <2>9, <2>10, <2>11
<1>2. Upto(n)
  BY <1>1, n \in 0..n
<1>3. PICK g \in [0..n -> X] : g[0] = x0 /\ \A i \in 1..n : g[i] = F[i][g[i - 1]]
  BY <1>2
<1>4. Iterates(g, n, X, x0, F)
  BY <1>3 DEF Iterates
<1> QED
  BY <1>4, Zenon

\* What the first value has and every step hands on, the last value has.
LEMMA FoldKeeps ==
  ASSUME NEW n \in Nat, NEW g, NEW X, g[0] \in X[0],
         \A i \in 1..n : g[i - 1] \in X[i - 1] => g[i] \in X[i]
  PROVE  g[n] \in X[n]
<1> DEFINE T == {k \in 0..n : g[k] \notin X[k]}
<1>1. ASSUME T # {} PROVE FALSE
  <2>1. PICK k \in T : \A m \in T : k <= m
    BY <1>1, LeastNat, T \subseteq Nat
  <2>2. k \in 1..n /\ g[k] \notin X[k]
    BY <2>1
  <2>3. k - 1 \in 0..n /\ ~(k <= k - 1)
    BY <2>2
  <2>4. g[k - 1] \in X[k - 1]
    BY <2>1, <2>3
  <2> QED
    BY <2>2, <2>4
<1> QED
  BY <1>1

\* SetToSeq lists a finite set.
LEMMA SetToSeqShape ==
  ASSUME NEW S, IsFiniteSet(S)
  PROVE  SetToSeq(S) \in Seq(S) /\ Range(SetToSeq(S)) = S
<1> DEFINE n == Cardinality(S)
           q == SetToSeq(S)
<1>1. n \in Nat /\ ExistsBijection(1..n, S)
  BY FS_CardinalityType
<1>2. PICK f : f \in Bijection(1..n, S)
  BY <1>1 DEF ExistsBijection
<1>3. f \in [1..n -> S] /\ IsInjective(f)
  BY <1>2 DEF Bijection, Injection
<1>4. q \in [1..n -> S] /\ IsInjective(q)
  BY <1>3, Zenon DEF SetToSeq
<1> HIDE DEF q
<1>5. q \in Injection(1..n, S)
  BY <1>4 DEF Injection
<1>6. Cardinality(1..n) = n
  <2>1. Cardinality(1..n) = IF 1 > n THEN 0 ELSE n - 1 + 1
    BY <1>1, FS_Interval, 1 \in Int, n \in Int
  <2> HIDE DEF n
  <2> QED
    BY <1>1, <2>1
<1>7. q \in Surjection(1..n, S)
  BY <1>5, <1>6, FS_Injection
<1>8. q \in Seq(S)
  BY <1>1, <1>4
<1>9. Range(q) = S
  BY <1>4, <1>7 DEF Range, Surjection
<1> QED
  BY <1>8, <1>9 DEF q

\* retain keeps candidates of the queue that are in K, and never grows it.
LEMMA RetainShape ==
  ASSUME NEW A, NEW cs \in Seq(A), NEW K
  PROVE  /\ retain(cs, K) \in Seq(A) /\ Len(retain(cs, K)) <= Len(cs)
         /\ \A i \in 1..Len(retain(cs, K)) :
              retain(cs, K)[i] \in K /\ \E j \in 1..Len(cs) : cs[j] = retain(cs, K)[i]
<1> DEFINE n == Len(cs)
           B == {c \in A : c \in K /\ \E j \in 1..n : cs[j] = c}
           kept == CHOOSE g : g = [i \in 0..n |->
                     IF i = 0 THEN <<>>
                     ELSE IF cs[i] \in K THEN Append(g[i - 1], cs[i]) ELSE g[i - 1]]
           F == [i \in 1..n |-> [z \in Seq(B) |-> IF cs[i] \in K THEN Append(z, cs[i]) ELSE z]]
<1>1. n \in Nat /\ <<>> \in Seq(B)
  OBVIOUS
<1>2. ASSUME NEW i \in 1..n, cs[i] \in K PROVE cs[i] \in B
  <2>1. cs[i] \in A
    OBVIOUS
  <2> QED
    BY <1>2, <2>1
<1> HIDE DEF B, n
<1>3. F \in [1..n -> [Seq(B) -> Seq(B)]]
  BY <1>2
<1>4. PICK g : Iterates(g, n, Seq(B), <<>>, F)
  <2> HIDE DEF F
  <2> QED
    BY <1>1, <1>3, FoldExists, Zenon
<1>4a. g \in [0..n -> Seq(B)] /\ g[0] = <<>> /\ \A i \in 1..n : g[i] = F[i][g[i - 1]]
  BY <1>4 DEF Iterates
<1>5. ASSUME NEW i \in 1..n PROVE g[i] = IF cs[i] \in K THEN Append(g[i - 1], cs[i]) ELSE g[i - 1]
  <2>1. i - 1 \in 0..n
    BY <1>1
  <2>2. g[i - 1] \in Seq(B)
    BY <2>1, <1>4a
  <2> QED
    BY <1>4a, <2>2
<1>6. g = [i \in 0..n |-> IF i = 0 THEN <<>>
                          ELSE IF cs[i] \in K THEN Append(g[i - 1], cs[i]) ELSE g[i - 1]]
  <2> DEFINE h == [i \in 0..n |-> IF i = 0 THEN <<>>
                          ELSE IF cs[i] \in K THEN Append(g[i - 1], cs[i]) ELSE g[i - 1]]
  <2>1. ASSUME NEW i \in 0..n PROVE g[i] = h[i]
    <3>1. CASE i = 0
      BY <1>4a, <3>1
    <3>2. CASE i # 0
      <4>1. i \in 1..n
        BY <1>1, <3>2
      <4> QED
        BY <1>5, <3>2, <4>1
    <3> QED
      BY <3>1, <3>2
  <2>2. DOMAIN g = 0..n /\ DOMAIN h = 0..n
    BY <1>4a
  <2> HIDE DEF h
  <2>3. g = [i \in 0..n |-> g[i]] /\ h = [i \in 0..n |-> h[i]]
    BY <1>4a DEF h
  <2>4. g = h
    BY <2>1, <2>3
  <2> QED
    BY <2>4 DEF h
<1>7. kept = [i \in 0..n |-> IF i = 0 THEN <<>>
                ELSE IF cs[i] \in K THEN Append(kept[i - 1], cs[i]) ELSE kept[i - 1]]
  BY <1>6, Zenon
<1>8. retain(cs, K) = kept[n]
  BY Zenon DEF retain, n
<1> HIDE DEF kept, F
<1> DEFINE X == [i \in 0..n |-> {q \in Seq(B) : Len(q) <= i}]
<1>9. kept[0] \in X[0]
  <2>1. kept[0] = <<>>
    BY <1>1, <1>7
  <2>2. X[0] = {q \in Seq(B) : Len(q) <= 0}
    BY <1>1
  <2>3. <<>> \in Seq(B) /\ Len(<<>>) <= 0
    BY <1>1
  <2> HIDE DEF X
  <2> QED
    BY <2>1, <2>2, <2>3
<1>10. ASSUME NEW i \in 1..n, kept[i - 1] \in X[i - 1] PROVE kept[i] \in X[i]
  <2>1. kept[i] = IF cs[i] \in K THEN Append(kept[i - 1], cs[i]) ELSE kept[i - 1]
    <3>1. i \in 0..n /\ i # 0
      BY <1>1
    <3> QED
      BY <1>7, <3>1
  <2>2. i - 1 \in 0..n /\ i \in 0..n
    BY <1>1
  <2>3. kept[i - 1] \in Seq(B) /\ Len(kept[i - 1]) <= i - 1
    BY <1>10, <2>2
  <2>4. kept[i] \in Seq(B) /\ Len(kept[i]) <= i
    BY <1>1, <1>2, <2>1, <2>3
  <2> QED
    BY <2>2, <2>4
<1> HIDE DEF X
<1>11. kept[n] \in X[n]
  BY <1>1, <1>9, <1>10, FoldKeeps
<1>12. kept[n] \in Seq(B) /\ Len(kept[n]) <= n
  BY <1>1, <1>11 DEF X
<1>13. \A i \in 1..Len(kept[n]) : kept[n][i] \in B
  BY <1>12
<1>14. B \subseteq A /\ \A c \in B : c \in K /\ \E j \in 1..n : cs[j] = c
  BY DEF B
<1>15. kept[n] \in Seq(A)
  BY <1>12, <1>14
<1> QED
  BY <1>8, <1>12, <1>13, <1>14, <1>15 DEF n

-----------------------------------------------------------------------------
(* The inductive invariant, of the actor's record S. *)

Life == [gen : 0..MaxGen, adapter : 0..MaxGen]
Work == [gen : 0..MaxGen, adapter : 0..MaxGen, owner : {None} \cup OwnerId,
         support : SUBSET OwnerId, evidence : SUBSET Evidence,
         revalidations : SUBSET OwnerId, baseline : Block \cup {"none"}]
Cand == [owner : OwnerId, key : Pool, evidence : SUBSET Evidence, revalidate : BOOLEAN]
Query == [owner : OwnerId, baseline : Block, limit : Limits \cup {None}, pool : {None} \cup PoolId]

State ==
  [trusted : BOOLEAN, attached : BOOLEAN, point : Block,
   adapters : [Adapter -> 0..MaxGen], owners : [Owner -> Life], pools : [Pool -> Life],
   issued : [Adapter \cup Owner \cup Pool -> 0..MaxGen],
   evidence : [PoolId -> SUBSET Evidence], revalidation : [PoolId -> SUBSET OwnerId],
   pending : SUBSET (PoolId \X OwnerId), candidates : Seq(Cand), work : [Pool -> Work],
   discovery : SUBSET Query]

\* Owner o is an active watcher of the family of pool p.
Backs(S, o, p) == active_discovery(S, o) /\ AdapterOf[o[1]] = AdapterOf[p]

\* Watchers and pools run under the active generation of their adapter.
LivesOK(S) ==
  /\ \A o \in Owner : S.owners[o].gen > 0 =>
       S.owners[o].adapter = active_adapter(S, o) /\ active_adapter(S, o) > 0
  /\ \A p \in Pool : S.pools[p].gen > 0 =>
       S.pools[p].adapter = active_adapter(S, p) /\ active_adapter(S, p) > 0
  /\ \A p \in Pool : S.pools[p].gen <= S.issued[p]

\* Work w for pool p is for the generation issued last and on behalf of active watchers.
GoodWork(S, p, w) ==
  /\ w.gen = S.issued[p] /\ w.gen > 0 /\ S.pools[p].gen = 0
  /\ w.adapter = active_adapter(S, p) /\ w.adapter > 0
  /\ w.evidence # {}
  /\ \A o \in w.support : Backs(S, o, p)
  /\ w.owner = None <=> w.support = {}
  /\ \A o \in w.revalidations :
       o \in w.support /\ evidence_contains_state_query_owner(w.evidence, o)

WorkOK(S) == \A p \in Pool : S.work[p] # NoWork => GoodWork(S, p, S.work[p])

GoodCandidate(S, c) ==
  /\ Backs(S, c.owner, c.key)
  /\ c.evidence # {}
  /\ c.revalidate => evidence_contains_state_query_owner(c.evidence, c.owner)

CandidatesOK(S) ==
  Len(S.candidates) <= MaxPending /\ \A i \in 1..Len(S.candidates) : GoodCandidate(S, S.candidates[i])

\* Recipes are kept for issued generations; a pool's are of active watchers that
\* found it by a query.
RecipesOK(S) ==
  \A id \in PoolId :
    /\ S.revalidation[id] # {} => id[2] <= S.issued[id[1]]
    /\ active_pool(S, id) =>
         \A o \in S.revalidation[id] :
           Backs(S, o, id[1]) /\ evidence_contains_state_query_owner(S.evidence[id], o)

QueriesOK(S) ==
  \A d \in S.discovery :
    /\ active_discovery(S, d.owner)
    /\ d.pool # None => /\ AdapterOf[d.owner[1]] = AdapterOf[d.pool[1]]
                        /\ d.pool[2] <= S.issued[d.pool[1]]

PendingOK(S) == \A x \in S.pending : active_pool(S, x[1]) /\ Backs(S, x[2], x[1][1])

Owned(S) ==
  /\ S \in State
  /\ LivesOK(S) /\ WorkOK(S) /\ CandidatesOK(S) /\ RecipesOK(S) /\ QueriesOK(S) /\ PendingOK(S)

\* Evidence e is stable or of a block of chain K.
OnChain(K, e) == e.kind = "stable" \/ e.block \in K

AskedOf(S, id, o) == <<id, o>> \in S.pending \/ \E d \in S.discovery : d.pool = id /\ d.owner = o

\* Queries among a pool's evidence have their recipe, and evidence off the chain
\* is a query that is being asked again, or the caller withdrew it (W).  Nothing
\* is said of the pools in X, whose stale retry kept another owner's evidence.
GroundedPool(S, id, K, W, X) ==
  /\ S.evidence[id] # {}
  /\ id[1] \notin X =>
       \A e \in S.evidence[id] :
         /\ e.kind = "query" => e.owner \in S.revalidation[id]
         /\ ~OnChain(K, e) => e.kind = "query" /\ (id[1] \in W \/ AskedOf(S, id, e.owner))

GroundedWork(p, w, K, X) ==
  /\ \A e \in w.evidence : OnChain(K, e)
  /\ p \notin X =>
       /\ \A e \in w.evidence : /\ e = Stable \/ e.owner \in w.support
                                /\ e.kind = "query" => e.owner \in w.revalidations
       /\ Stable \in w.evidence \/ \A o \in w.support : evidence_contains_owner(w.evidence, o)

GroundedCandidate(c, K, X) ==
  /\ \A e \in c.evidence : OnChain(K, e)
  /\ c.key \notin X =>
       \A e \in c.evidence : /\ e = Stable \/ e.owner = c.owner
                             /\ e.kind = "query" => c.revalidate

PoolsGrounded(S, K, W, X) ==
  \A p \in Pool : S.pools[p].gen > 0 => GroundedPool(S, <<p, S.pools[p].gen>>, K, W, X)
WorkGrounded(S, K, X) == \A p \in Pool : S.work[p] # NoWork => GroundedWork(p, S.work[p], K, X)
CandidatesGrounded(S, K, X) ==
  \A i \in 1..Len(S.candidates) : GroundedCandidate(S.candidates[i], K, X)

Grounded(S, K, W, X) ==
  PoolsGrounded(S, K, W, X) /\ WorkGrounded(S, K, X) /\ CandidatesGrounded(S, K, X)

Sound(S, K, W, X) == Owned(S) /\ (S.trusted => Grounded(S, K, W, X))

-----------------------------------------------------------------------------
(* Types. *)

\* An identity is a key under a generation.
LEMMA Identities ==
  /\ \A p \in Pool : \A n \in 1..MaxGen : <<p, n>> \in PoolId
  /\ \A id \in PoolId : id[1] \in Pool /\ id[2] \in 1..MaxGen /\ id = <<id[1], id[2]>> /\ id # None
  /\ \A o \in OwnerId : o[1] \in Owner /\ o[2] \in 1..MaxGen /\ o = <<o[1], o[2]>> /\ o # None
BY RegistrationAssumption DEF PoolId, OwnerId, None

\* The generation of an absent pool or watcher is no generation.
LEMMA AbsentLife == Absent \in Life /\ Absent.gen = 0 /\ Absent.adapter = 0
BY RegistrationAssumption DEF Absent, Life

\* NoWork is a work without support.
LEMMA NoWorkType == NoWork \in Work /\ NoWork.gen = 0 /\ NoWork.support = {}
BY RegistrationAssumption DEF NoWork, Work

\* Evidence is stable, a query's or a log's; only stable evidence has no owner.
LEMMA EvidenceShape ==
  /\ Stable \in Evidence /\ Stable.kind = "stable" /\ Stable.owner = None
  /\ \A o \in OwnerId, b \in Block :
       /\ StateQuery(o, b) \in Evidence /\ StateQuery(o, b).kind = "query"
       /\ StateQuery(o, b).owner = o /\ StateQuery(o, b).block = b
       /\ FactoryLog(o, b) \in Evidence /\ FactoryLog(o, b).kind = "log"
       /\ FactoryLog(o, b).owner = o /\ FactoryLog(o, b).block = b
  /\ \A e \in Evidence :
       /\ e.kind \in {"stable", "query", "log"}
       /\ e.kind = "stable" <=> e = Stable
       /\ e.kind # "stable" => e.owner \in OwnerId /\ e.block \in Block
<1>1. /\ Stable \in Evidence /\ Stable.kind = "stable" /\ Stable.owner = None
      /\ \A o \in OwnerId, b \in Block :
           /\ StateQuery(o, b) \in Evidence /\ StateQuery(o, b).kind = "query"
           /\ StateQuery(o, b).owner = o /\ StateQuery(o, b).block = b
           /\ FactoryLog(o, b) \in Evidence /\ FactoryLog(o, b).kind = "log"
           /\ FactoryLog(o, b).owner = o /\ FactoryLog(o, b).block = b
  <2>1. Stable \in Evidence /\ Stable.kind = "stable" /\ Stable.owner = None
    BY DEF Evidence, Stable
  <2>2. ASSUME NEW o \in OwnerId, NEW b \in Block
        PROVE  StateQuery(o, b) \in Evidence /\ FactoryLog(o, b) \in Evidence
    BY DEF Evidence
  <2>3. ASSUME NEW o \in OwnerId, NEW b \in Block
        PROVE  /\ StateQuery(o, b).kind = "query" /\ FactoryLog(o, b).kind = "log"
               /\ StateQuery(o, b).owner = o /\ StateQuery(o, b).block = b
               /\ FactoryLog(o, b).owner = o /\ FactoryLog(o, b).block = b
    BY DEF StateQuery, FactoryLog
  <2> QED
    BY <2>1, <2>2, <2>3
<1>2. ASSUME NEW e \in Evidence
      PROVE  /\ e.kind \in {"stable", "query", "log"}
             /\ e.kind = "stable" <=> e = Stable
             /\ e.kind # "stable" => e.owner \in OwnerId /\ e.block \in Block
  <2>1. CASE e = Stable
    BY <2>1 DEF Stable
  <2>2. CASE \E o \in OwnerId, b \in Block : e = StateQuery(o, b) \/ e = FactoryLog(o, b)
    <3>1. PICK o \in OwnerId, b \in Block : e = StateQuery(o, b) \/ e = FactoryLog(o, b)
      BY <2>2
    <3>2. e.kind \in {"query", "log"} /\ e.owner = o /\ e.block = b
      BY <3>1 DEF StateQuery, FactoryLog
    <3> QED
      BY <1>1, <3>1, <3>2
  <2> QED
    BY <2>1, <2>2 DEF Evidence
<1> QED
  BY <1>1, <1>2

\* The fields of the actor's record.
LEMMA Fields ==
  ASSUME NEW S \in State
  PROVE  /\ S.trusted \in BOOLEAN /\ S.attached \in BOOLEAN /\ S.point \in Block
         /\ S.adapters \in [Adapter -> 0..MaxGen]
         /\ S.owners \in [Owner -> Life] /\ S.pools \in [Pool -> Life]
         /\ S.issued \in [Adapter \cup Owner \cup Pool -> 0..MaxGen]
         /\ S.evidence \in [PoolId -> SUBSET Evidence]
         /\ S.revalidation \in [PoolId -> SUBSET OwnerId]
         /\ S.pending \in SUBSET (PoolId \X OwnerId) /\ S.candidates \in Seq(Cand)
         /\ S.work \in [Pool -> Work] /\ S.discovery \in SUBSET Query
BY DEF State

\* Generations and adapters of single keys.
LEMMA Lives ==
  ASSUME NEW S \in State
  PROVE  /\ \A p \in Pool : /\ S.pools[p].gen \in 0..MaxGen /\ S.pools[p].adapter \in 0..MaxGen
                            /\ S.issued[p] \in 0..MaxGen /\ active_adapter(S, p) \in 0..MaxGen
                            /\ AdapterOf[p] \in Adapter
         /\ \A o \in Owner : /\ S.owners[o].gen \in 0..MaxGen /\ S.owners[o].adapter \in 0..MaxGen
                             /\ S.issued[o] \in 0..MaxGen /\ active_adapter(S, o) \in 0..MaxGen
                             /\ AdapterOf[o] \in Adapter
         /\ \A a \in Adapter : S.issued[a] \in 0..MaxGen /\ S.adapters[a] \in 0..MaxGen
BY Fields, RegistrationAssumption DEF Life, active_adapter

\* The fields of works, candidates and queries.
LEMMA Parts ==
  /\ \A w \in Work : /\ w.gen \in 0..MaxGen /\ w.adapter \in 0..MaxGen
                     /\ w.owner \in {None} \cup OwnerId /\ w.support \in SUBSET OwnerId
                     /\ w.evidence \in SUBSET Evidence /\ w.revalidations \in SUBSET OwnerId
                     /\ w.baseline \in Block \cup {"none"}
  /\ \A c \in Cand : /\ c.owner \in OwnerId /\ c.key \in Pool /\ c.evidence \in SUBSET Evidence
                     /\ c.revalidate \in BOOLEAN
  /\ \A d \in Query : /\ d.owner \in OwnerId /\ d.baseline \in Block
                      /\ d.limit \in Limits \cup {None} /\ d.pool \in {None} \cup PoolId
BY DEF Work, Cand, Query

-----------------------------------------------------------------------------
(* Losing trust. *)

\* mark_untrusted changes the trust alone.
LEMMA UntrustedShape ==
  ASSUME NEW S \in State
  PROVE  LET T == mark_untrusted(S) IN
         /\ T \in State /\ T.trusted = FALSE
         /\ T.attached = S.attached /\ T.point = S.point /\ T.adapters = S.adapters
         /\ T.owners = S.owners /\ T.pools = S.pools /\ T.issued = S.issued
         /\ T.evidence = S.evidence /\ T.revalidation = S.revalidation /\ T.pending = S.pending
         /\ T.candidates = S.candidates /\ T.work = S.work /\ T.discovery = S.discovery
<1>1. mark_untrusted(S) \in State
  BY DEF State, mark_untrusted
<1> QED
  BY <1>1 DEF State, mark_untrusted

\* What Owned says does not depend on the trust, the worker or the point.
LEMMA OwnedFrame ==
  ASSUME NEW S, NEW T \in State, Owned(S),
         T.adapters = S.adapters, T.owners = S.owners, T.pools = S.pools, T.issued = S.issued,
         T.evidence = S.evidence, T.revalidation = S.revalidation, T.pending = S.pending,
         T.candidates = S.candidates, T.work = S.work, T.discovery = S.discovery
  PROVE  Owned(T)
<1>1. LivesOK(T)
  BY DEF Owned, LivesOK, active_adapter
<1>2. WorkOK(T)
  BY DEF Owned, WorkOK, GoodWork, active_adapter, Backs, active_discovery
<1>3. CandidatesOK(T)
  BY DEF Owned, CandidatesOK, GoodCandidate, Backs, active_discovery
<1>4. RecipesOK(T)
  BY DEF Owned, RecipesOK, active_pool, Backs, active_discovery
<1>5. QueriesOK(T)
  BY DEF Owned, QueriesOK, active_discovery
<1>6. PendingOK(T)
  BY DEF Owned, PendingOK, active_pool, Backs, active_discovery
<1> QED
  BY <1>1, <1>2, <1>3, <1>4, <1>5, <1>6 DEF Owned

\* An untrusted actor owes nothing but ownership.
LEMMA UntrustedSound ==
  ASSUME NEW S, Owned(S), NEW K, NEW W, NEW X
  PROVE  Sound(mark_untrusted(S), K, W, X)
<1>1. S \in State
  BY DEF Owned
<1> DEFINE T == mark_untrusted(S)
<1>2. /\ T \in State /\ T.trusted = FALSE
      /\ T.adapters = S.adapters
      /\ T.owners = S.owners /\ T.pools = S.pools /\ T.issued = S.issued
      /\ T.evidence = S.evidence /\ T.revalidation = S.revalidation /\ T.pending = S.pending
      /\ T.candidates = S.candidates /\ T.work = S.work /\ T.discovery = S.discovery
  BY <1>1, UntrustedShape
<1> HIDE DEF T
<1>3. Owned(T)
  BY <1>2, OwnedFrame
<1> QED
  BY <1>2, <1>3 DEF Sound, T

-----------------------------------------------------------------------------
(* Installing and removing pools. *)

\* Pool p starts to be served under generation gen, on evidence E with recipes R.
Installs(S, T, p, gen, E, R) ==
  /\ T.pools = [S.pools EXCEPT ![p] = [gen |-> gen, adapter |-> active_adapter(S, p)]]
  /\ T.issued = [S.issued EXCEPT ![p] = gen]
  /\ T.evidence = [S.evidence EXCEPT ![<<p, gen>>] = E]
  /\ T.revalidation = [S.revalidation EXCEPT ![<<p, gen>>] = R]
  /\ T.work = [S.work EXCEPT ![p] = NoWork]
  /\ T.adapters = S.adapters /\ T.owners = S.owners /\ T.pending = S.pending
  /\ T.candidates = S.candidates /\ T.discovery = S.discovery

\* Installing a pool under a generation as new as any issued one keeps ownership.
LEMMA InstallsOwned ==
  ASSUME NEW S, NEW T \in State, Owned(S), NEW p \in Pool, NEW gen \in 1..MaxGen,
         NEW E \in SUBSET Evidence, NEW R \in SUBSET OwnerId,
         Installs(S, T, p, gen, E, R),
         S.pools[p].gen = 0, gen >= S.issued[p], active_adapter(S, p) > 0,
         \A o \in R : Backs(S, o, p) /\ evidence_contains_state_query_owner(E, o)
  PROVE  Owned(T)
<1>1. S \in State
  BY DEF Owned
<1>2. /\ S.pools \in [Pool -> Life] /\ S.issued \in [Adapter \cup Owner \cup Pool -> 0..MaxGen]
      /\ S.evidence \in [PoolId -> SUBSET Evidence]
      /\ S.revalidation \in [PoolId -> SUBSET OwnerId] /\ S.work \in [Pool -> Work]
  BY <1>1, Fields
<1>3. /\ T.pools[p].gen = gen /\ T.pools[p].adapter = active_adapter(S, p) /\ T.issued[p] = gen
      /\ T.evidence[<<p, gen>>] = E /\ T.revalidation[<<p, gen>>] = R /\ T.work[p] = NoWork
  BY <1>2, Identities DEF Installs
<1>4. \A q \in Pool : q # p => /\ T.pools[q] = S.pools[q] /\ T.issued[q] = S.issued[q]
                               /\ T.work[q] = S.work[q]
  BY <1>2 DEF Installs
<1>5. \A id \in PoolId : id # <<p, gen>> =>
        T.evidence[id] = S.evidence[id] /\ T.revalidation[id] = S.revalidation[id]
  BY <1>2 DEF Installs
<1>6. /\ T.adapters = S.adapters /\ T.owners = S.owners /\ T.pending = S.pending
      /\ T.candidates = S.candidates /\ T.discovery = S.discovery
  BY DEF Installs
<1>7. LivesOK(T)
  BY <1>3, <1>4, <1>6 DEF Owned, LivesOK, active_adapter
<1>8. WorkOK(T)
  BY <1>3, <1>4, <1>6 DEF Owned, WorkOK, GoodWork, active_adapter, Backs, active_discovery
<1>9. CandidatesOK(T)
  BY <1>6 DEF Owned, CandidatesOK, GoodCandidate, Backs, active_discovery
<1>10. \A id \in PoolId : id[2] <= S.issued[id[1]] => id[2] <= T.issued[id[1]]
  <2> SUFFICES ASSUME NEW id \in PoolId, id[2] <= S.issued[id[1]] PROVE id[2] <= T.issued[id[1]]
    OBVIOUS
  <2>1. id[1] \in Pool /\ id[2] \in 1..MaxGen
    BY Identities
  <2>2. S.issued[p] \in 0..MaxGen
    BY <1>1, Lives
  <2>3. CASE id[1] = p
    <3>1. T.issued[id[1]] = gen /\ id[2] <= S.issued[p]
      BY <1>3, <2>3
    <3> QED
      BY <3>1, <2>1, <2>2
  <2> QED
    BY <1>4, <2>1, <2>3
<1>11. RecipesOK(T)
  <2> SUFFICES ASSUME NEW id \in PoolId
               PROVE  /\ T.revalidation[id] # {} => id[2] <= T.issued[id[1]]
                      /\ active_pool(T, id) => \A o \in T.revalidation[id] :
                           /\ Backs(T, o, id[1])
                           /\ evidence_contains_state_query_owner(T.evidence[id], o)
    BY DEF RecipesOK
  <2>1. id[1] \in Pool /\ id[2] \in 1..MaxGen /\ id = <<id[1], id[2]>>
    BY Identities
  <2>2. CASE id = <<p, gen>>
    <3>1. id[1] = p /\ id[2] = gen
      BY <2>2
    <3> QED
      BY <1>3, <1>6, <2>2, <3>1 DEF Backs, active_discovery
  <2>3. CASE id # <<p, gen>> /\ id[1] # p
    BY <1>4, <1>5, <1>6, <1>10, <2>1, <2>3 DEF Owned, RecipesOK, active_pool, Backs, active_discovery
  <2>4. CASE id # <<p, gen>> /\ id[1] = p
    <3>1. ~active_pool(T, id)
      BY <1>3, <2>1, <2>4 DEF active_pool
    <3> QED
      BY <1>5, <1>10, <2>4, <3>1 DEF Owned, RecipesOK
  <2> QED
    BY <2>2, <2>3, <2>4
<1>12. QueriesOK(T)
  <2> SUFFICES ASSUME NEW d \in T.discovery
               PROVE  /\ active_discovery(T, d.owner)
                      /\ d.pool # None => /\ AdapterOf[d.owner[1]] = AdapterOf[d.pool[1]]
                                          /\ d.pool[2] <= T.issued[d.pool[1]]
    BY DEF QueriesOK
  <2>1. d \in S.discovery /\ d.pool \in {None} \cup PoolId
    BY <1>1, <1>6, Fields, Parts
  <2> QED
    BY <1>6, <1>10, <2>1 DEF Owned, QueriesOK, active_discovery
<1>13. PendingOK(T)
  <2> SUFFICES ASSUME NEW x \in T.pending PROVE active_pool(T, x[1]) /\ Backs(T, x[2], x[1][1])
    BY DEF PendingOK
  <2>1. x \in S.pending /\ x[1] \in PoolId
    BY <1>1, <1>6, Fields
  <2>2. active_pool(S, x[1]) /\ Backs(S, x[2], x[1][1])
    BY <2>1 DEF Owned, PendingOK
  <2>3. x[1][1] # p
    BY <2>1, <2>2, Identities DEF active_pool
  <2> QED
    BY <1>4, <1>6, <2>1, <2>2, <2>3, Identities DEF active_pool, Backs, active_discovery
<1> QED
  BY <1>7, <1>8, <1>9, <1>11, <1>12, <1>13 DEF Owned

\* It keeps what a trusted actor serves grounded.
LEMMA InstallsGrounded ==
  ASSUME NEW S, NEW T \in State, Owned(S), NEW p \in Pool, NEW gen \in 1..MaxGen,
         NEW E \in SUBSET Evidence, NEW R \in SUBSET OwnerId, NEW K, NEW W, NEW X,
         Installs(S, T, p, gen, E, R), Grounded(S, K, W, X),
         E # {}, \A e \in E : OnChain(K, e),
         p \notin X => \A e \in E : e.kind = "query" => e.owner \in R
  PROVE  Grounded(T, K, W, X)
<1>1. S \in State
  BY DEF Owned
<1>2. /\ S.pools \in [Pool -> Life]
      /\ S.evidence \in [PoolId -> SUBSET Evidence]
      /\ S.revalidation \in [PoolId -> SUBSET OwnerId] /\ S.work \in [Pool -> Work]
  BY <1>1, Fields
<1>3. /\ T.pools[p].gen = gen
      /\ T.evidence[<<p, gen>>] = E /\ T.revalidation[<<p, gen>>] = R /\ T.work[p] = NoWork
  BY <1>2, Identities DEF Installs
<1>4. \A q \in Pool : q # p => T.pools[q] = S.pools[q] /\ T.work[q] = S.work[q]
  BY <1>2 DEF Installs
<1>5. \A id \in PoolId : id # <<p, gen>> =>
        T.evidence[id] = S.evidence[id] /\ T.revalidation[id] = S.revalidation[id]
  BY <1>2 DEF Installs
<1>6. T.pending = S.pending /\ T.candidates = S.candidates /\ T.discovery = S.discovery
  BY DEF Installs
<1>7. PoolsGrounded(T, K, W, X)
  <2> SUFFICES ASSUME NEW q \in Pool, T.pools[q].gen > 0
               PROVE  GroundedPool(T, <<q, T.pools[q].gen>>, K, W, X)
    BY DEF PoolsGrounded
  <2>1. CASE q = p
    BY <1>3, <2>1 DEF GroundedPool
  <2>2. CASE q # p
    <3>1. T.pools[q] = S.pools[q] /\ S.pools[q].gen \in 1..MaxGen
      BY <1>1, <1>4, <2>2, Lives
    <3> DEFINE id == <<q, S.pools[q].gen>>
    <3>2. id \in PoolId /\ id # <<p, gen>> /\ id[1] = q
      BY <2>2, <3>1, Identities
    <3>3. GroundedPool(S, id, K, W, X)
      BY <3>1 DEF Grounded, PoolsGrounded
    <3> HIDE DEF id
    <3>4. GroundedPool(T, id, K, W, X)
      BY <1>5, <1>6, <3>2, <3>3 DEF GroundedPool, AskedOf
    <3> QED
      BY <3>1, <3>4 DEF id
  <2> QED
    BY <2>1, <2>2
<1>8. WorkGrounded(T, K, X)
  BY <1>3, <1>4 DEF Grounded, WorkGrounded
<1>9. CandidatesGrounded(T, K, X)
  BY <1>6 DEF Grounded, CandidatesGrounded
<1> QED
  BY <1>7, <1>8, <1>9 DEF Grounded

\* Grounds are kept while the questions asked are asked still, or withdrawn (W2).
LEMMA GroundedFrame ==
  ASSUME NEW S, NEW T \in State, Owned(S), NEW K, NEW W, NEW X, NEW W2, NEW X2,
         W \subseteq W2, X \subseteq X2, Grounded(S, K, W, X),
         T.pools = S.pools, T.evidence = S.evidence, T.revalidation = S.revalidation,
         T.candidates = S.candidates, T.work = S.work,
         \A id \in PoolId, o \in OwnerId : AskedOf(S, id, o) => AskedOf(T, id, o) \/ id[1] \in W2
  PROVE  Grounded(T, K, W2, X2)
<1>1. S \in State
  BY DEF Owned
<1>2. PoolsGrounded(T, K, W2, X2)
  <2> SUFFICES ASSUME NEW q \in Pool, T.pools[q].gen > 0
               PROVE  GroundedPool(T, <<q, T.pools[q].gen>>, K, W2, X2)
    BY DEF PoolsGrounded
  <2>1. S.pools[q].gen \in 1..MaxGen
    BY <1>1, Lives
  <2> DEFINE id == <<q, S.pools[q].gen>>
  <2>2. id \in PoolId /\ id[1] = q
    BY <2>1, Identities
  <2>3. GroundedPool(S, id, K, W, X)
    BY DEF Grounded, PoolsGrounded
  <2> HIDE DEF id
  <2>4. \A e \in S.evidence[id] : e \in Evidence
    BY <1>1, <2>2, Fields
  <2>5. \A e \in S.evidence[id] : e.kind = "query" => e.owner \in OwnerId
    BY <2>4, EvidenceShape
  <2>6. GroundedPool(T, id, K, W2, X2)
    BY <2>2, <2>3, <2>5 DEF GroundedPool
  <2> QED
    BY <2>6 DEF id
<1>3. WorkGrounded(T, K, X2)
  BY DEF Grounded, WorkGrounded, GroundedWork
<1>4. CandidatesGrounded(T, K, X2)
  BY DEF Grounded, CandidatesGrounded, GroundedCandidate
<1> QED
  BY <1>2, <1>3, <1>4 DEF Grounded

\* Pool id is no longer served, and nothing is kept for it.
Removes(S, T, id) ==
  /\ T.pools = [S.pools EXCEPT ![id[1]] = Absent]
  /\ T.evidence = [S.evidence EXCEPT ![id] = {}]
  /\ T.revalidation = [S.revalidation EXCEPT ![id] = {}]
  /\ T.pending = {x \in S.pending : x[1] # id}
  /\ T.trusted = S.trusted /\ T.attached = S.attached /\ T.point = S.point
  /\ T.adapters = S.adapters /\ T.owners = S.owners /\ T.issued = S.issued
  /\ T.candidates = S.candidates /\ T.work = S.work /\ T.discovery = S.discovery

\* remove_pool_serialized does just that.
LEMMA RemoveShape ==
  ASSUME NEW S \in State, NEW id \in PoolId
  PROVE  /\ remove_pool_serialized(S, id) \in State
         /\ Removes(S, remove_pool_serialized(S, id), id)
<1> DEFINE T == remove_pool_serialized(S, id)
           pe == {x \in S.pending : x[1] # id}
           po == [S.pools EXCEPT ![id[1]] = Absent]
           ev == [S.evidence EXCEPT ![id] = {}]
           rv == [S.revalidation EXCEPT ![id] = {}]
<1>1. T = [S EXCEPT !.pools = po, !.evidence = ev, !.revalidation = rv, !.pending = pe]
  BY DEF State, remove_pool_serialized
<1>2. /\ po \in [Pool -> Life] /\ ev \in [PoolId -> SUBSET Evidence]
      /\ rv \in [PoolId -> SUBSET OwnerId] /\ pe \in SUBSET (PoolId \X OwnerId)
  BY Fields, AbsentLife, Identities
<1> HIDE DEF T, po, ev, rv, pe
<1>3. T \in State
  BY <1>1, <1>2 DEF State
<1>4. /\ T.pools = po /\ T.evidence = ev /\ T.revalidation = rv /\ T.pending = pe
      /\ T.trusted = S.trusted /\ T.attached = S.attached /\ T.point = S.point
      /\ T.adapters = S.adapters /\ T.owners = S.owners /\ T.issued = S.issued
      /\ T.candidates = S.candidates /\ T.work = S.work /\ T.discovery = S.discovery
  BY <1>1 DEF State
<1> QED
  BY <1>3, <1>4 DEF T, po, ev, rv, pe, Removes

\* What a removal leaves.
LEMMA RemovesFields ==
  ASSUME NEW S \in State, NEW T, NEW id \in PoolId, Removes(S, T, id)
  PROVE  /\ T.pools[id[1]] = Absent /\ T.pools[id[1]].gen = 0
         /\ T.evidence[id] = {} /\ T.revalidation[id] = {}
         /\ \A q \in Pool : q # id[1] => T.pools[q] = S.pools[q]
         /\ \A i \in PoolId : i # id =>
              T.evidence[i] = S.evidence[i] /\ T.revalidation[i] = S.revalidation[i]
         /\ \A x \in PoolId \X OwnerId : x \in T.pending <=> x \in S.pending /\ x[1] # id
BY Fields, AbsentLife, Identities DEF Removes

\* Removing an active pool keeps ownership.
LEMMA RemovesOwned ==
  ASSUME NEW S, NEW T \in State, Owned(S), NEW id \in PoolId, active_pool(S, id), Removes(S, T, id)
  PROVE  Owned(T)
<1>1. S \in State
  BY DEF Owned
<1>2. /\ T.pools[id[1]].gen = 0 /\ T.evidence[id] = {} /\ T.revalidation[id] = {}
      /\ \A q \in Pool : q # id[1] => T.pools[q] = S.pools[q]
      /\ \A i \in PoolId : i # id =>
           T.evidence[i] = S.evidence[i] /\ T.revalidation[i] = S.revalidation[i]
      /\ \A x \in PoolId \X OwnerId : x \in T.pending <=> x \in S.pending /\ x[1] # id
  BY <1>1, RemovesFields
<1>3. /\ T.adapters = S.adapters /\ T.owners = S.owners /\ T.issued = S.issued
      /\ T.candidates = S.candidates /\ T.work = S.work /\ T.discovery = S.discovery
  BY DEF Removes
<1>4. id[1] \in Pool /\ id[2] \in 1..MaxGen /\ S.pools[id[1]].gen = id[2]
  BY Identities DEF active_pool
<1>5. LivesOK(T)
  <2>1. \A p \in Pool : S.issued[p] \in 0..MaxGen
    BY <1>1, Lives
  <2> QED
    BY <1>2, <1>3, <1>4, <2>1 DEF Owned, LivesOK, active_adapter
<1>6. WorkOK(T)
  BY <1>2, <1>3, <1>4 DEF Owned, WorkOK, GoodWork, active_adapter, Backs, active_discovery
<1>7. CandidatesOK(T)
  BY <1>3 DEF Owned, CandidatesOK, GoodCandidate, Backs, active_discovery
<1>8. RecipesOK(T)
  <2> SUFFICES ASSUME NEW i \in PoolId
               PROVE  /\ T.revalidation[i] # {} => i[2] <= T.issued[i[1]]
                      /\ active_pool(T, i) => \A o \in T.revalidation[i] :
                           /\ Backs(T, o, i[1])
                           /\ evidence_contains_state_query_owner(T.evidence[i], o)
    BY DEF RecipesOK
  <2>1. i[1] \in Pool /\ i[2] \in 1..MaxGen /\ i = <<i[1], i[2]>>
    BY Identities
  <2>2. CASE i = id
    BY <1>2, <2>2
  <2>3. CASE i # id
    <3>1. active_pool(T, i) => i[1] # id[1] /\ active_pool(S, i)
      BY <1>2, <2>1 DEF active_pool
    <3> QED
      BY <1>2, <1>3, <2>1, <2>3, <3>1 DEF Owned, RecipesOK, Backs, active_discovery
  <2> QED
    BY <2>2, <2>3
<1>9. QueriesOK(T)
  BY <1>3 DEF Owned, QueriesOK, active_discovery
<1>10. PendingOK(T)
  <2> SUFFICES ASSUME NEW x \in T.pending PROVE active_pool(T, x[1]) /\ Backs(T, x[2], x[1][1])
    BY DEF PendingOK
  <2>1. x \in PoolId \X OwnerId /\ x[1] \in PoolId
    BY Fields
  <2>2. x \in S.pending /\ x[1] # id
    BY <1>2, <2>1
  <2>3. active_pool(S, x[1]) /\ Backs(S, x[2], x[1][1])
    BY <2>2 DEF Owned, PendingOK
  <2>4. x[1][1] # id[1]
    BY <1>4, <2>1, <2>2, <2>3, Identities DEF active_pool
  <2> QED
    BY <1>2, <1>3, <2>1, <2>3, <2>4, Identities DEF active_pool, Backs, active_discovery
<1> QED
  BY <1>5, <1>6, <1>7, <1>8, <1>9, <1>10 DEF Owned

\* It keeps the other pools grounded.
LEMMA RemovesGrounded ==
  ASSUME NEW S, NEW T \in State, Owned(S), NEW id \in PoolId, Removes(S, T, id),
         NEW K, NEW W, NEW X, WorkGrounded(S, K, X), CandidatesGrounded(S, K, X),
         \A q \in Pool : q # id[1] /\ S.pools[q].gen > 0 =>
           GroundedPool(S, <<q, S.pools[q].gen>>, K, W, X)
  PROVE  Grounded(T, K, W, X)
<1>1. S \in State
  BY DEF Owned
<1>2. /\ T.pools[id[1]].gen = 0
      /\ \A q \in Pool : q # id[1] => T.pools[q] = S.pools[q]
      /\ \A i \in PoolId : i # id =>
           T.evidence[i] = S.evidence[i] /\ T.revalidation[i] = S.revalidation[i]
      /\ \A x \in PoolId \X OwnerId : x \in T.pending <=> x \in S.pending /\ x[1] # id
  BY <1>1, RemovesFields
<1>3. T.candidates = S.candidates /\ T.work = S.work /\ T.discovery = S.discovery
  BY DEF Removes
<1>4. PoolsGrounded(T, K, W, X)
  <2> SUFFICES ASSUME NEW q \in Pool, T.pools[q].gen > 0
               PROVE  GroundedPool(T, <<q, T.pools[q].gen>>, K, W, X)
    BY DEF PoolsGrounded
  <2>1. q # id[1] /\ T.pools[q] = S.pools[q]
    BY <1>2
  <2>2. S.pools[q].gen \in 1..MaxGen
    BY <1>1, <2>1, Lives
  <2> DEFINE i == <<q, S.pools[q].gen>>
  <2>3. i \in PoolId /\ i # id /\ i[1] = q
    BY <2>1, <2>2, Identities
  <2>4. GroundedPool(S, i, K, W, X)
    BY <2>1
  <2> HIDE DEF i
  <2>5. \A e \in S.evidence[i] : e \in Evidence
    BY <1>1, <2>3, Fields
  <2>6. \A e \in S.evidence[i] : e.kind = "query" => e.owner \in OwnerId
    BY <2>5, EvidenceShape
  <2>7. \A o \in OwnerId : AskedOf(S, i, o) => AskedOf(T, i, o)
    <3> SUFFICES ASSUME NEW o \in OwnerId PROVE <<i, o>> \in S.pending => <<i, o>> \in T.pending
      BY <1>3 DEF AskedOf
    <3>1. <<i, o>> \in PoolId \X OwnerId /\ <<i, o>>[1] # id
      BY <2>3
    <3> QED
      BY <1>2, <3>1
  <2>8. GroundedPool(T, i, K, W, X)
    BY <1>2, <2>3, <2>4, <2>6, <2>7 DEF GroundedPool
  <2> QED
    BY <2>1, <2>8 DEF i
<1>5. WorkGrounded(T, K, X) /\ CandidatesGrounded(T, K, X)
  BY <1>3 DEF WorkGrounded, CandidatesGrounded
<1> QED
  BY <1>4, <1>5 DEF Grounded

-----------------------------------------------------------------------------
(* Scheduled work. *)

\* The fields a change of the scheduled work leaves alone.
SameButWork(S, T) ==
  /\ T.trusted = S.trusted /\ T.attached = S.attached /\ T.point = S.point
  /\ T.adapters = S.adapters /\ T.owners = S.owners /\ T.pools = S.pools /\ T.issued = S.issued
  /\ T.evidence = S.evidence /\ T.revalidation = S.revalidation /\ T.pending = S.pending
  /\ T.candidates = S.candidates /\ T.discovery = S.discovery

\* Other work that is good and grounded keeps the record sound.
LEMMA WorkSound ==
  ASSUME NEW S, NEW T \in State, NEW K, NEW W, NEW X, Sound(S, K, W, X), SameButWork(S, T),
         \A p \in Pool : T.work[p] # NoWork =>
           /\ GoodWork(S, p, T.work[p])
           /\ S.trusted => GroundedWork(p, T.work[p], K, X)
  PROVE  Sound(T, K, W, X)
<1>1. Owned(S) /\ S \in State
  BY DEF Owned, Sound
<1>2. /\ T.trusted = S.trusted /\ T.adapters = S.adapters /\ T.owners = S.owners
      /\ T.pools = S.pools /\ T.issued = S.issued
      /\ T.evidence = S.evidence /\ T.revalidation = S.revalidation /\ T.pending = S.pending
      /\ T.candidates = S.candidates /\ T.discovery = S.discovery
  BY DEF SameButWork
<1>3. LivesOK(T)
  BY <1>1, <1>2 DEF Owned, LivesOK, active_adapter
<1>4. WorkOK(T)
  BY <1>2 DEF WorkOK, GoodWork, active_adapter, Backs, active_discovery
<1>5. CandidatesOK(T)
  BY <1>1, <1>2 DEF Owned, CandidatesOK, GoodCandidate, Backs, active_discovery
<1>6. RecipesOK(T)
  BY <1>1, <1>2 DEF Owned, RecipesOK, active_pool, Backs, active_discovery
<1>7. QueriesOK(T)
  BY <1>1, <1>2 DEF Owned, QueriesOK, active_discovery
<1>8. PendingOK(T)
  BY <1>1, <1>2 DEF Owned, PendingOK, active_pool, Backs, active_discovery
<1>9. Owned(T)
  BY <1>3, <1>4, <1>5, <1>6, <1>7, <1>8 DEF Owned
<1>10. ASSUME T.trusted PROVE Grounded(T, K, W, X)
  <2>1. Grounded(S, K, W, X) /\ S.trusted
    BY <1>2, <1>10 DEF Sound
  <2>2. PoolsGrounded(T, K, W, X)
    <3>1. \A id, o : AskedOf(T, id, o) <=> AskedOf(S, id, o)
      BY <1>2 DEF AskedOf
    <3>2. \A id : GroundedPool(S, id, K, W, X) => GroundedPool(T, id, K, W, X)
      BY <1>2, <3>1 DEF GroundedPool
    <3> QED
      BY <1>2, <2>1, <3>2 DEF Grounded, PoolsGrounded
  <2>3. WorkGrounded(T, K, X)
    BY <2>1 DEF WorkGrounded
  <2>4. CandidatesGrounded(T, K, X)
    BY <1>2, <2>1 DEF Grounded, CandidatesGrounded
  <2> QED
    BY <2>2, <2>3, <2>4 DEF Grounded
<1> QED
  BY <1>9, <1>10 DEF Sound

\* Work that is there is good, and grounded in a trusted actor.
LEMMA WorkThere ==
  ASSUME NEW S, NEW K, NEW W, NEW X, Sound(S, K, W, X), NEW p \in Pool, S.work[p] # NoWork
  PROVE  /\ S.work[p] \in Work /\ GoodWork(S, p, S.work[p])
         /\ S.trusted => GroundedWork(p, S.work[p], K, X)
BY Fields DEF Sound, Owned, WorkOK, Grounded, WorkGrounded

\* A change of one pool's work.
LEMMA PutWorkShape ==
  ASSUME NEW S \in State, NEW p \in Pool, NEW w \in Work
  PROVE  LET T == [S EXCEPT !.work[p] = w] IN
         T \in State /\ SameButWork(S, T) /\ T.work = [S.work EXCEPT ![p] = w]
<1> DEFINE T == [S EXCEPT !.work[p] = w]
           v == [S.work EXCEPT ![p] = w]
<1>1. T = [S EXCEPT !.work = v]
  BY DEF State
<1>2. v \in [Pool -> Work]
  BY Fields
<1> HIDE DEF T, v
<1>3. T \in State /\ T.work = v
  BY <1>1, <1>2 DEF State
<1>4. SameButWork(S, T)
  BY <1>1 DEF State, SameButWork
<1> QED
  BY <1>3, <1>4 DEF T, v

\* Replacing one pool's work by good and grounded work keeps the record sound.
LEMMA PutWorkSound ==
  ASSUME NEW S, NEW K, NEW W, NEW X, Sound(S, K, W, X), NEW p \in Pool, NEW w \in Work,
         GoodWork(S, p, w), S.trusted => GroundedWork(p, w, K, X)
  PROVE  Sound([S EXCEPT !.work[p] = w], K, W, X)
<1>1. S \in State
  BY DEF Owned, Sound
<1> DEFINE T == [S EXCEPT !.work[p] = w]
<1>2. T \in State /\ SameButWork(S, T) /\ T.work = [S.work EXCEPT ![p] = w]
  BY <1>1, PutWorkShape
<1> HIDE DEF T
<1>3. S.work \in [Pool -> Work]
  BY <1>1, Fields
<1>4. ASSUME NEW q \in Pool, T.work[q] # NoWork
      PROVE  GoodWork(S, q, T.work[q]) /\ (S.trusted => GroundedWork(q, T.work[q], K, X))
  <2>1. CASE q = p
    BY <1>2, <1>3, <2>1
  <2>2. CASE q # p
    <3>1. T.work[q] = S.work[q]
      BY <1>2, <1>3, <2>2
    <3> QED
      BY <1>4, <3>1, WorkThere
  <2> QED
    BY <2>1, <2>2
<1>5. Sound(T, K, W, X)
  BY <1>2, <1>4, WorkSound
<1> QED
  BY <1>5 DEF T

\* detach_pool_work drops work and changes nothing else.
LEMMA DetachShape ==
  ASSUME NEW S \in State, NEW P
  PROVE  LET T == detach_pool_work(S, P) IN
         /\ T \in State /\ SameButWork(S, T)
         /\ T.work = [p \in Pool |-> IF p \in P THEN NoWork ELSE S.work[p]]
<1> DEFINE T == detach_pool_work(S, P)
           v == [p \in Pool |-> IF p \in P THEN NoWork ELSE S.work[p]]
<1>1. T = [S EXCEPT !.work = v]
  BY DEF State, detach_pool_work
<1>2. v \in [Pool -> Work]
  BY Fields, NoWorkType
<1> HIDE DEF T, v
<1>3. T \in State /\ T.work = v
  BY <1>1, <1>2 DEF State
<1>4. SameButWork(S, T)
  BY <1>1 DEF State, SameButWork
<1> QED
  BY <1>3, <1>4 DEF T, v

\* Dropping the work of the pools in P keeps the record sound.
LEMMA DetachSound ==
  ASSUME NEW S, NEW K, NEW W, NEW X, Sound(S, K, W, X), NEW P
  PROVE  Sound(detach_pool_work(S, P), K, W, X)
<1>1. S \in State
  BY DEF Owned, Sound
<1> DEFINE T == detach_pool_work(S, P)
<1>2. /\ T \in State /\ SameButWork(S, T)
      /\ T.work = [p \in Pool |-> IF p \in P THEN NoWork ELSE S.work[p]]
  BY <1>1, DetachShape
<1> HIDE DEF T
<1>3. ASSUME NEW q \in Pool, T.work[q] # NoWork
      PROVE  GoodWork(S, q, T.work[q]) /\ (S.trusted => GroundedWork(q, T.work[q], K, X))
  <2>1. T.work[q] = S.work[q]
    BY <1>2, <1>3
  <2> QED
    BY <1>3, <2>1, WorkThere
<1>4. Sound(T, K, W, X)
  BY <1>2, <1>3, WorkSound
<1> QED
  BY <1>4 DEF T

\* queue_cold_start is refused for one of three reasons, or not at all.
LEMMA RefusalCases ==
  ASSUME NEW S \in State, NEW p \in Pool, NEW ok \in BOOLEAN
  PROVE  LET free == /\ S.trusted /\ S.attached /\ S.work[p] = NoWork /\ S.pools[p].gen = 0
                     /\ active_adapter(S, p) > 0 /\ S.issued[p] < MaxGen IN
         /\ queue_refusal(S, p, ok) \in {"other", "worker", "none"}
         /\ queue_refusal(S, p, ok) = "none" => ok
         /\ queue_refusal(S, p, ok) = "none" => free
         /\ free => queue_refusal(S, p, ok) = IF ok THEN "none" ELSE "worker"
<1>1. /\ S.pools[p].gen \in 0..MaxGen /\ active_adapter(S, p) \in 0..MaxGen
      /\ S.issued[p] \in 0..MaxGen /\ MaxGen \in Nat
  BY Lives, RegistrationAssumption
<1>2. S.trusted \in BOOLEAN /\ S.attached \in BOOLEAN
  BY Fields
<1> DEFINE busy == S.work[p] # NoWork \/ S.pools[p].gen > 0 \/ active_adapter(S, p) = 0
                   \/ S.issued[p] >= MaxGen
<1>3. ~busy <=> /\ S.work[p] = NoWork /\ S.pools[p].gen = 0
                /\ active_adapter(S, p) > 0 /\ S.issued[p] < MaxGen
  BY <1>1
<1>4. queue_refusal(S, p, ok) =
        CASE ~S.trusted -> "other"
          [] S.trusted /\ ~S.attached -> "worker"
          [] S.trusted /\ S.attached /\ busy -> "other"
          [] OTHER -> IF ok THEN "none" ELSE "worker"
  BY DEF queue_refusal
<1> HIDE DEF busy
<1>5. "other" # "none" /\ "worker" # "none"
  OBVIOUS
<1>6. CASE ~S.trusted
  BY <1>2, <1>3, <1>4, <1>5, <1>6
<1>7. CASE S.trusted /\ ~S.attached
  BY <1>2, <1>3, <1>4, <1>5, <1>7
<1>8. CASE S.trusted /\ S.attached /\ busy
  BY <1>2, <1>3, <1>4, <1>5, <1>8
<1>9. CASE S.trusted /\ S.attached /\ ~busy
  BY <1>2, <1>3, <1>4, <1>5, <1>9
<1> QED
  BY <1>2, <1>6, <1>7, <1>8, <1>9

\* The fields that scheduling work leaves alone.
SameButJobs(S, T) ==
  /\ T.trusted = S.trusted /\ T.attached = S.attached /\ T.point = S.point
  /\ T.adapters = S.adapters /\ T.owners = S.owners /\ T.pools = S.pools
  /\ T.evidence = S.evidence /\ T.revalidation = S.revalidation /\ T.pending = S.pending
  /\ T.candidates = S.candidates /\ T.discovery = S.discovery

\* Reserving the next generation of a pool without work.
LEMMA ReserveSound ==
  ASSUME NEW S, NEW K, NEW W, NEW X, Sound(S, K, W, X), NEW p \in Pool,
         S.work[p] = NoWork, S.issued[p] < MaxGen
  PROVE  LET T == [S EXCEPT !.issued[p] = next_generation(S, p)] IN
         /\ Sound(T, K, W, X) /\ SameButJobs(S, T) /\ T.work = S.work
         /\ T.issued[p] = S.issued[p] + 1
<1> DEFINE T == [S EXCEPT !.issued[p] = next_generation(S, p)]
           v == [S.issued EXCEPT ![p] = S.issued[p] + 1]
<1>1. S \in State /\ Owned(S)
  BY DEF Sound, Owned
<1>2. T = [S EXCEPT !.issued = v]
  BY <1>1 DEF State, next_generation
<1>3. S.issued \in [Adapter \cup Owner \cup Pool -> 0..MaxGen] /\ MaxGen \in Nat
  BY <1>1, Fields, RegistrationAssumption
<1>4. v \in [Adapter \cup Owner \cup Pool -> 0..MaxGen]
  BY <1>3
<1>5. v[p] = S.issued[p] + 1 /\ S.issued[p] \in Nat /\ \A k \in Pool : k # p => v[k] = S.issued[k]
  BY <1>3
<1> HIDE DEF T, v
<1>6. T \in State /\ T.issued = v /\ T.work = S.work
  BY <1>1, <1>2, <1>4 DEF State
<1>7. SameButJobs(S, T)
  BY <1>1, <1>2 DEF State, SameButJobs
<1>8. /\ T.adapters = S.adapters /\ T.owners = S.owners /\ T.pools = S.pools
      /\ T.evidence = S.evidence /\ T.revalidation = S.revalidation /\ T.pending = S.pending
      /\ T.candidates = S.candidates /\ T.discovery = S.discovery /\ T.trusted = S.trusted
  BY <1>7 DEF SameButJobs
<1>9. \A k \in Pool : \A n \in 0..MaxGen : n <= S.issued[k] => n <= T.issued[k]
  BY <1>3, <1>5, <1>6
<1>10. LivesOK(T)
  <2>1. \A k \in Pool : S.pools[k].gen \in 0..MaxGen
    BY <1>1, Lives
  <2> QED
    BY <1>1, <1>8, <1>9, <2>1 DEF Owned, LivesOK, active_adapter
<1>11. WorkOK(T)
  BY <1>1, <1>5, <1>6, <1>8 DEF Owned, WorkOK, GoodWork, active_adapter, Backs, active_discovery
<1>12. CandidatesOK(T)
  BY <1>1, <1>8 DEF Owned, CandidatesOK, GoodCandidate, Backs, active_discovery
<1>13. \A id \in PoolId : id[1] \in Pool /\ id[2] \in 0..MaxGen
  BY Identities
<1>14. RecipesOK(T)
  BY <1>1, <1>8, <1>9, <1>13 DEF Owned, RecipesOK, active_pool, Backs, active_discovery
<1>15. QueriesOK(T)
  <2>1. \A d \in S.discovery : d.pool \in {None} \cup PoolId
    BY <1>1, Fields, Parts
  <2> QED
    BY <1>1, <1>8, <1>9, <1>13, <2>1 DEF Owned, QueriesOK, active_discovery
<1>16. PendingOK(T)
  BY <1>1, <1>8 DEF Owned, PendingOK, active_pool, Backs, active_discovery
<1>17. Owned(T)
  BY <1>6, <1>10, <1>11, <1>12, <1>14, <1>15, <1>16 DEF Owned
<1>18. ASSUME T.trusted PROVE Grounded(T, K, W, X)
  <2>1. Grounded(S, K, W, X)
    BY <1>8, <1>18 DEF Sound
  <2>2. \A id \in PoolId, o \in OwnerId : AskedOf(S, id, o) => AskedOf(T, id, o) \/ id[1] \in W
    BY <1>8 DEF AskedOf
  <2> QED
    BY <1>1, <1>6, <1>8, <2>1, <2>2, GroundedFrame
<1> QED
  BY <1>5, <1>6, <1>7, <1>17, <1>18 DEF Sound, T

\* The work queue_cold_start schedules.
FreshWork(S, p) ==
  [gen |-> next_generation(S, p), adapter |-> active_adapter(S, p), owner |-> None,
   support |-> {}, evidence |-> {Stable}, revalidations |-> {}, baseline |-> S.point]

\* queue_cold_start refuses, only reserves, or schedules fresh work.
LEMMA ColdStartSound ==
  ASSUME NEW S, NEW K, NEW W, NEW X, Sound(S, K, W, X), NEW p \in Pool, NEW ok \in BOOLEAN
  PROVE  LET T == queue_cold_start(S, p, ok) IN
         /\ Sound(T, K, W, X) /\ SameButJobs(S, T)
         /\ queue_refusal(S, p, ok) = "none" =>
              T.work[p] = FreshWork(S, p) /\ FreshWork(S, p) \in Work /\ T.work[p] # NoWork
<1> DEFINE T == queue_cold_start(S, p, ok)
           R == [S EXCEPT !.issued[p] = next_generation(S, p)]
<1>1. S \in State /\ Owned(S)
  BY DEF Sound, Owned
<1>2. T = IF queue_refusal(S, p, TRUE) # "none" THEN S
          ELSE IF ~ok THEN R ELSE [R EXCEPT !.work[p] = FreshWork(S, p)]
  BY DEF queue_cold_start, FreshWork
<1>3. queue_refusal(S, p, ok) = "none" => queue_refusal(S, p, TRUE) = "none" /\ ok
  BY <1>1, RefusalCases, TRUE \in BOOLEAN
<1> HIDE DEF T
<1>4. CASE queue_refusal(S, p, TRUE) # "none"
  <2>1. SameButJobs(S, S)
    BY DEF SameButJobs
  <2> QED
    BY <1>2, <1>3, <1>4, <2>1 DEF T
<1>5. CASE queue_refusal(S, p, TRUE) = "none"
  <2>1. /\ S.trusted /\ S.attached /\ S.work[p] = NoWork /\ S.pools[p].gen = 0
        /\ active_adapter(S, p) > 0 /\ S.issued[p] < MaxGen
    BY <1>1, <1>5, RefusalCases, TRUE \in BOOLEAN
  <2>2. /\ Sound(R, K, W, X) /\ SameButJobs(S, R) /\ R.work = S.work
        /\ R.issued[p] = S.issued[p] + 1
    BY <2>1, ReserveSound
  <2> HIDE DEF R
  <2>3. CASE ~ok
    BY <1>2, <1>3, <1>5, <2>2, <2>3 DEF T
  <2>4. CASE ok
    <3> DEFINE w == FreshWork(S, p)
    <3>1. T = [R EXCEPT !.work[p] = w]
      BY <1>2, <1>5, <2>4
    <3>2. /\ S.issued[p] \in 0..MaxGen /\ active_adapter(S, p) \in 0..MaxGen /\ MaxGen \in Nat
          /\ S.point \in Block
      BY <1>1, Lives, Fields, RegistrationAssumption
    <3>3. S.issued[p] + 1 \in 1..MaxGen
      BY <2>1, <3>2
    <3>4. w \in Work
      BY <3>2, <3>3, EvidenceShape DEF FreshWork, Work, next_generation
    <3>5. /\ w.gen = S.issued[p] + 1 /\ w.adapter = active_adapter(S, p) /\ w.owner = None
          /\ w.support = {} /\ w.evidence = {Stable} /\ w.revalidations = {}
      BY DEF FreshWork, next_generation
    <3> HIDE DEF w
    <3>6. R.adapters = S.adapters /\ R.pools = S.pools
      BY <2>2 DEF SameButJobs
    <3>7. GoodWork(R, p, w)
      BY <2>1, <2>2, <3>3, <3>5, <3>6 DEF GoodWork, active_adapter
    <3>8. GroundedWork(p, w, K, X)
      BY <3>5, EvidenceShape DEF GroundedWork, OnChain
    <3>9. Sound(T, K, W, X)
      BY <2>2, <3>1, <3>4, <3>7, <3>8, PutWorkSound
    <3>10. R \in State
      BY <2>2 DEF Sound, Owned
    <3>11. SameButWork(R, T) /\ T.work = [R.work EXCEPT ![p] = w]
      BY <3>1, <3>4, <3>10, PutWorkShape
    <3>12. SameButJobs(S, T)
      BY <2>2, <3>11 DEF SameButWork, SameButJobs
    <3>13. R.work \in [Pool -> Work]
      BY <3>10, Fields
    <3>14. T.work[p] = w
      BY <3>11, <3>13
    <3>15. w # NoWork
      BY <3>3, <3>5, NoWorkType
    <3> QED
      BY <3>4, <3>9, <3>12, <3>14, <3>15 DEF T, w
  <2> QED
    BY <2>3, <2>4
<1> QED
  BY <1>4, <1>5

-----------------------------------------------------------------------------
(* Candidates become work. *)

\* A candidate of a sound record: good, and grounded in a trusted actor.
FitCandidate(S, c, K, X) ==
  c \in Cand /\ GoodCandidate(S, c) /\ (S.trusted => GroundedCandidate(c, K, X))

\* What the support of a candidate adds to work.
LEMMA SupportedFields ==
  ASSUME NEW w \in Work, NEW c \in Cand
  PROVE  LET v == supported(w, c) IN
         /\ v \in Work
         /\ v.gen = w.gen /\ v.adapter = w.adapter /\ v.baseline = w.baseline
         /\ v.evidence = w.evidence \cup c.evidence /\ v.support = w.support \cup {c.owner}
         /\ v.owner = (IF w.owner = None THEN c.owner ELSE w.owner)
         /\ v.revalidations = IF c.revalidate THEN w.revalidations \cup {c.owner} ELSE w.revalidations
<1> DEFINE v == supported(w, c)
           ow == IF w.owner = None THEN c.owner ELSE w.owner
           rv == IF c.revalidate THEN w.revalidations \cup {c.owner} ELSE w.revalidations
           ev == w.evidence \cup c.evidence
           su == w.support \cup {c.owner}
<1>1. v = [w EXCEPT !.evidence = ev, !.support = su, !.owner = ow, !.revalidations = rv]
  BY DEF supported
<1>2. /\ ow \in {None} \cup OwnerId /\ rv \in SUBSET OwnerId /\ ev \in SUBSET Evidence
      /\ su \in SUBSET OwnerId
  BY Parts
<1> HIDE DEF v, ow, rv, ev, su
<1>3. v \in Work
  BY <1>1, <1>2 DEF Work
<1>4. /\ v.gen = w.gen /\ v.adapter = w.adapter /\ v.baseline = w.baseline
      /\ v.evidence = ev /\ v.support = su /\ v.owner = ow /\ v.revalidations = rv
  BY <1>1 DEF Work
<1> QED
  BY <1>3, <1>4 DEF v, ow, rv, ev, su

\* merge_into_work changes the work of the candidate's pool.
LEMMA MergeShape ==
  ASSUME NEW S \in State, NEW c \in Cand
  PROVE  merge_into_work(S, c) = [S EXCEPT !.work[c.key] = supported(S.work[c.key], c)]
BY DEF merge_into_work, State

\* merge_into_work adds a fit candidate to the work of its pool.
LEMMA MergeSound ==
  ASSUME NEW S, NEW K, NEW W, NEW X, Sound(S, K, W, X), NEW c, FitCandidate(S, c, K, X),
         S.work[c.key] # NoWork
  PROVE  Sound(merge_into_work(S, c), K, W, X) /\ SameButJobs(S, merge_into_work(S, c))
<1>1. S \in State /\ Owned(S)
  BY DEF Sound, Owned
<1>2. c \in Cand /\ GoodCandidate(S, c)
  BY DEF FitCandidate
<1>3. c.owner \in OwnerId /\ c.key \in Pool /\ c.evidence \in SUBSET Evidence /\ c.owner # None
  BY <1>2, Parts, Identities
<1> DEFINE w == S.work[c.key]
           v == supported(w, c)
<1>4. w \in Work /\ GoodWork(S, c.key, w) /\ (S.trusted => GroundedWork(c.key, w, K, X))
  BY <1>3, WorkThere
<1>5. /\ v \in Work
      /\ v.gen = w.gen /\ v.adapter = w.adapter /\ v.baseline = w.baseline
      /\ v.evidence = w.evidence \cup c.evidence /\ v.support = w.support \cup {c.owner}
      /\ v.owner = (IF w.owner = None THEN c.owner ELSE w.owner)
      /\ v.revalidations = IF c.revalidate THEN w.revalidations \cup {c.owner} ELSE w.revalidations
  BY <1>2, <1>4, SupportedFields
<1>6. merge_into_work(S, c) = [S EXCEPT !.work[c.key] = v]
  BY <1>1, <1>2, MergeShape
<1> HIDE DEF w, v
<1>7. GoodWork(S, c.key, v)
  <2>1. /\ v.gen = S.issued[c.key] /\ v.gen > 0 /\ S.pools[c.key].gen = 0
        /\ v.adapter = active_adapter(S, c.key) /\ v.adapter > 0
    BY <1>4, <1>5 DEF GoodWork
  <2>2. v.evidence # {}
    BY <1>4, <1>5 DEF GoodWork
  <2>3. \A o \in v.support : Backs(S, o, c.key)
    BY <1>2, <1>4, <1>5 DEF GoodWork, GoodCandidate
  <2>4. v.owner = None <=> v.support = {}
    BY <1>3, <1>5
  <2>5. ASSUME NEW o \in v.revalidations
        PROVE  o \in v.support /\ evidence_contains_state_query_owner(v.evidence, o)
    BY <1>2, <1>4, <1>5, <2>5 DEF GoodWork, GoodCandidate, evidence_contains_state_query_owner
  <2> QED
    BY <2>1, <2>2, <2>3, <2>4, <2>5 DEF GoodWork
<1>8. ASSUME S.trusted PROVE GroundedWork(c.key, v, K, X)
  <2>1. GroundedWork(c.key, w, K, X) /\ GroundedCandidate(c, K, X)
    BY <1>4, <1>8 DEF FitCandidate
  <2>2. \A e \in v.evidence : OnChain(K, e)
    BY <1>5, <2>1 DEF GroundedWork, GroundedCandidate
  <2>3. ASSUME c.key \notin X, NEW e \in v.evidence
        PROVE  (e = Stable \/ e.owner \in v.support) /\ (e.kind = "query" => e.owner \in v.revalidations)
    <3>1. CASE e \in w.evidence
      BY <1>5, <2>1, <2>3, <3>1 DEF GroundedWork
    <3>2. CASE e \in c.evidence
      <4>1. (e = Stable \/ e.owner = c.owner) /\ (e.kind = "query" => c.revalidate)
        BY <2>1, <2>3, <3>2 DEF GroundedCandidate
      <4> QED
        BY <1>5, <4>1, EvidenceShape
    <3> QED
      BY <1>5, <2>3, <3>1, <3>2
  <2>4. ASSUME c.key \notin X
        PROVE  Stable \in v.evidence \/ \A o \in v.support : evidence_contains_owner(v.evidence, o)
    <3>1. Stable \in w.evidence \/ \A o \in w.support : evidence_contains_owner(w.evidence, o)
      BY <2>1, <2>4 DEF GroundedWork
    <3>2. PICK e \in c.evidence : TRUE
      BY <1>2 DEF GoodCandidate
    <3>3. e = Stable \/ e.owner = c.owner
      BY <2>1, <2>4, <3>2 DEF GroundedCandidate
    <3> QED
      BY <1>5, <3>1, <3>2, <3>3 DEF evidence_contains_owner
  <2> QED
    BY <2>2, <2>3, <2>4 DEF GroundedWork
<1>9. Sound([S EXCEPT !.work[c.key] = v], K, W, X)
  BY <1>3, <1>5, <1>7, <1>8, PutWorkSound
<1>10. SameButWork(S, [S EXCEPT !.work[c.key] = v])
  BY <1>1, <1>3, <1>5, PutWorkShape
<1> QED
  BY <1>6, <1>9, <1>10 DEF SameButWork, SameButJobs

\* The work that a candidate starts has the candidate's evidence alone.
LEMMA StartSound ==
  ASSUME NEW S, NEW K, NEW W, NEW X, Sound(S, K, W, X), NEW c, FitCandidate(S, c, K, X),
         NEW ok \in BOOLEAN, queue_refusal(S, c.key, ok) = "none"
  PROVE  LET T == [merge_into_work(queue_cold_start(S, c.key, ok), c) EXCEPT
                     !.work[c.key].evidence = c.evidence] IN
         Sound(T, K, W, X) /\ SameButJobs(S, T)
<1> DEFINE Q == queue_cold_start(S, c.key, ok)
           f == FreshWork(S, c.key)
           v == supported(f, c)
           u == [v EXCEPT !.evidence = c.evidence]
           T == [merge_into_work(Q, c) EXCEPT !.work[c.key].evidence = c.evidence]
<1>1. c \in Cand /\ GoodCandidate(S, c)
  BY DEF FitCandidate
<1>2. c.owner \in OwnerId /\ c.key \in Pool /\ c.evidence \in SUBSET Evidence /\ c.owner # None
  BY <1>1, Parts, Identities
<1>3. /\ Sound(Q, K, W, X) /\ SameButJobs(S, Q)
      /\ Q.work[c.key] = f /\ f \in Work /\ Q.work[c.key] # NoWork
  BY <1>2, ColdStartSound
<1>4. f.owner = None /\ f.support = {} /\ f.evidence = {Stable} /\ f.revalidations = {}
  BY DEF FreshWork
<1> HIDE DEF f, Q
<1>5. /\ v \in Work /\ v.gen = f.gen /\ v.adapter = f.adapter
      /\ v.support = {c.owner} /\ v.owner = c.owner
      /\ v.revalidations = IF c.revalidate THEN {c.owner} ELSE {}
  <2>1. /\ v \in Work /\ v.gen = f.gen /\ v.adapter = f.adapter
        /\ v.support = f.support \cup {c.owner}
        /\ v.owner = (IF f.owner = None THEN c.owner ELSE f.owner)
        /\ v.revalidations = IF c.revalidate THEN f.revalidations \cup {c.owner} ELSE f.revalidations
    BY <1>1, <1>3, SupportedFields
  <2> HIDE DEF v
  <2> QED
    BY <1>4, <2>1
<1>6. /\ Q \in State /\ Q.work \in [Pool -> Work]
      /\ GoodWork(Q, c.key, f)
  BY <1>2, <1>3, Fields DEF Sound, Owned, WorkOK
<1>7. merge_into_work(Q, c) = [Q EXCEPT !.work = [Q.work EXCEPT ![c.key] = v]]
  <2>1. merge_into_work(Q, c) = [Q EXCEPT !.work[c.key] = v]
    BY <1>1, <1>3, <1>6, MergeShape
  <2> HIDE DEF v
  <2> QED
    BY <1>6, <2>1 DEF State
<1> HIDE DEF v
<1>8. u \in Work /\ u.gen = f.gen /\ u.adapter = f.adapter /\ u.support = {c.owner}
      /\ u.owner = c.owner /\ u.evidence = c.evidence
      /\ u.revalidations = IF c.revalidate THEN {c.owner} ELSE {}
  <2>1. u \in Work
    BY <1>2, <1>5 DEF Work
  <2> QED
    BY <1>5, <2>1 DEF Work
<1>9. T = [Q EXCEPT !.work[c.key] = u]
  <2> DEFINE M == [Q.work EXCEPT ![c.key] = v]
             N == [Q EXCEPT !.work = M]
  <2>1. M[c.key] = v /\ N.work = M
    BY <1>2, <1>6 DEF State
  <2>2. [M EXCEPT ![c.key] = u] = [Q.work EXCEPT ![c.key] = u]
    BY <1>2, <1>6
  <2>3. T = [N EXCEPT !.work = [M EXCEPT ![c.key] = u]]
    <3>1. T = [N EXCEPT !.work[c.key].evidence = c.evidence]
      BY <1>7
    <3>2. [N EXCEPT !.work[c.key].evidence = c.evidence]
            = [N EXCEPT !.work = [N.work EXCEPT ![c.key] = [N.work[c.key] EXCEPT !.evidence = c.evidence]]]
      BY <1>6 DEF State
    <3> HIDE DEF M, N, T
    <3> QED
      BY <2>1, <3>1, <3>2
  <2> HIDE DEF M, T
  <2>4. T = [Q EXCEPT !.work = [M EXCEPT ![c.key] = u]]
    BY <1>6, <2>3 DEF State
  <2>5. [Q EXCEPT !.work[c.key] = u] = [Q EXCEPT !.work = [Q.work EXCEPT ![c.key] = u]]
    BY <1>6 DEF State
  <2> QED
    BY <2>2, <2>4, <2>5
<1> HIDE DEF T, u
<1>10. Q.owners = S.owners /\ Q.trusted = S.trusted
  BY <1>3 DEF SameButJobs
<1>11. GoodWork(Q, c.key, u)
  <2>1. Backs(Q, c.owner, c.key)
    BY <1>1, <1>10 DEF GoodCandidate, Backs, active_discovery
  <2>2. c.evidence # {} /\ (c.revalidate => evidence_contains_state_query_owner(c.evidence, c.owner))
    BY <1>1 DEF GoodCandidate
  <2> QED
    BY <1>2, <1>6, <1>8, <2>1, <2>2 DEF GoodWork
<1>12. ASSUME Q.trusted PROVE GroundedWork(c.key, u, K, X)
  <2>1. GroundedCandidate(c, K, X)
    BY <1>10, <1>12 DEF FitCandidate
  <2>2. \A e \in u.evidence : OnChain(K, e)
    BY <1>8, <2>1 DEF GroundedCandidate
  <2>3. ASSUME c.key \notin X, NEW e \in u.evidence
        PROVE  /\ e = Stable \/ e.owner \in u.support
               /\ e.kind = "query" => e.owner \in u.revalidations
    <3>1. (e = Stable \/ e.owner = c.owner) /\ (e.kind = "query" => c.revalidate)
      BY <1>8, <2>1, <2>3 DEF GroundedCandidate
    <3> QED
      BY <1>8, <3>1, EvidenceShape
  <2>4. ASSUME c.key \notin X
        PROVE  Stable \in u.evidence \/ \A o \in u.support : evidence_contains_owner(u.evidence, o)
    <3>1. PICK e \in c.evidence : TRUE
      BY <1>1 DEF GoodCandidate
    <3>2. e = Stable \/ e.owner = c.owner
      BY <2>1, <2>4, <3>1 DEF GroundedCandidate
    <3> QED
      BY <1>8, <3>1, <3>2 DEF evidence_contains_owner
  <2> QED
    BY <2>2, <2>3, <2>4 DEF GroundedWork
<1>13. Sound(T, K, W, X)
  BY <1>2, <1>3, <1>8, <1>9, <1>11, <1>12, PutWorkSound
<1>14. SameButWork(Q, T)
  BY <1>2, <1>6, <1>8, <1>9, PutWorkShape
<1>15. SameButJobs(S, T)
  BY <1>3, <1>14 DEF SameButWork, SameButJobs
<1> QED
  BY <1>13, <1>15 DEF T, Q

\* The turns of drain_factory_candidates over the first n candidates of S.
Drained(S, K, W, X, n) ==
  {x \in [state : State, stop : BOOLEAN, left : Seq(Cand)] :
     /\ Sound(x.state, K, W, X) /\ SameButJobs(S, x.state)
     /\ Len(x.left) <= n /\ \A j \in 1..Len(x.left) : FitCandidate(S, x.left[j], K, X)}

\* A candidate's fitness depends on the watchers and the trust alone.
LEMMA FitFrame ==
  ASSUME NEW S, NEW T, NEW c, NEW K, NEW X, FitCandidate(S, c, K, X),
         T.owners = S.owners, T.trusted => S.trusted
  PROVE  FitCandidate(T, c, K, X)
BY DEF FitCandidate, GoodCandidate, Backs, active_discovery

\* A turn may replace the state, and may leave the candidate in the queue.
LEMMA DrainedStep ==
  ASSUME NEW S, NEW K, NEW W, NEW X, NEW n \in Nat, NEW x \in Drained(S, K, W, X, n),
         NEW c, FitCandidate(S, c, K, X),
         NEW U, Sound(U, K, W, X), SameButJobs(S, U)
  PROVE  /\ x \in Drained(S, K, W, X, n + 1)
         /\ [x EXCEPT !.state = U] \in Drained(S, K, W, X, n + 1)
         /\ [x EXCEPT !.left = Append(x.left, c)] \in Drained(S, K, W, X, n + 1)
         /\ [x EXCEPT !.stop = TRUE, !.left = Append(x.left, c)] \in Drained(S, K, W, X, n + 1)
         /\ [x EXCEPT !.state = U, !.stop = TRUE, !.left = Append(x.left, c)]
              \in Drained(S, K, W, X, n + 1)
<1> DEFINE R == [state : State, stop : BOOLEAN, left : Seq(Cand)]
           L == Append(x.left, c)
<1>1. /\ x \in R /\ Sound(x.state, K, W, X) /\ SameButJobs(S, x.state)
      /\ Len(x.left) <= n /\ \A j \in 1..Len(x.left) : FitCandidate(S, x.left[j], K, X)
  BY DEF Drained
<1>2. x.left \in Seq(Cand) /\ c \in Cand
  BY <1>1 DEF FitCandidate
<1>3. /\ L \in Seq(Cand) /\ Len(L) = Len(x.left) + 1 /\ L[Len(L)] = c
      /\ \A j \in 1..Len(x.left) : L[j] = x.left[j]
  BY <1>2
<1> HIDE DEF L
<1>4. Len(x.left) \in Nat
  BY <1>2
<1>5. Len(L) <= n + 1 /\ \A j \in 1..Len(L) : FitCandidate(S, L[j], K, X)
  <2>1. Len(L) <= n + 1
    BY <1>1, <1>3, <1>4
  <2>2. ASSUME NEW j \in 1..Len(L) PROVE FitCandidate(S, L[j], K, X)
    <3>1. j \in 1..Len(x.left) \/ j = Len(L)
      BY <1>3, <1>4
    <3> QED
      BY <1>1, <1>3, <3>1
  <2> QED
    BY <2>1, <2>2
<1>6. U \in State /\ Len(x.left) <= n + 1
  BY <1>1, <1>4 DEF Sound, Owned
<1>7. ASSUME NEW y \in R,
             y.state = x.state \/ y.state = U, y.left = x.left \/ y.left = L
      PROVE  y \in Drained(S, K, W, X, n + 1)
  <2>1. Sound(y.state, K, W, X) /\ SameButJobs(S, y.state)
    BY <1>1, <1>7
  <2>2. Len(y.left) <= n + 1 /\ \A j \in 1..Len(y.left) : FitCandidate(S, y.left[j], K, X)
    BY <1>1, <1>5, <1>6, <1>7
  <2> QED
    BY <2>1, <2>2 DEF Drained
<1>8. x \in Drained(S, K, W, X, n + 1)
  BY <1>1, <1>7
<1>9. [x EXCEPT !.state = U] \in Drained(S, K, W, X, n + 1)
  <2> DEFINE y == [x EXCEPT !.state = U]
  <2>1. y \in R /\ y.state = U /\ y.left = x.left
    BY <1>1, <1>6
  <2> HIDE DEF y, R
  <2> QED
    BY <1>7, <2>1 DEF y
<1>10. [x EXCEPT !.left = L] \in Drained(S, K, W, X, n + 1)
  <2> DEFINE y == [x EXCEPT !.left = L]
  <2>1. y \in R /\ y.state = x.state /\ y.left = L
    BY <1>1, <1>3
  <2> HIDE DEF y, R
  <2> QED
    BY <1>7, <2>1 DEF y
<1>11. [x EXCEPT !.stop = TRUE, !.left = L] \in Drained(S, K, W, X, n + 1)
  <2> DEFINE y == [x EXCEPT !.stop = TRUE, !.left = L]
  <2>1. y \in R /\ y.state = x.state /\ y.left = L
    BY <1>1, <1>3
  <2> HIDE DEF y, R
  <2> QED
    BY <1>7, <2>1 DEF y
<1>12. [x EXCEPT !.state = U, !.stop = TRUE, !.left = L] \in Drained(S, K, W, X, n + 1)
  <2> DEFINE y == [x EXCEPT !.state = U, !.stop = TRUE, !.left = L]
  <2>1. y \in R /\ y.state = U /\ y.left = L
    BY <1>1, <1>3, <1>6
  <2> HIDE DEF y, R
  <2> QED
    BY <1>7, <2>1 DEF y
<1> QED
  BY <1>8, <1>9, <1>10, <1>11, <1>12 DEF L

\* One turn of drain_factory_candidates.
LEMMA DrainOne ==
  ASSUME NEW S, NEW K, NEW W, NEW X, NEW n \in Nat, NEW x \in Drained(S, K, W, X, n),
         NEW c, FitCandidate(S, c, K, X), NEW ok \in BOOLEAN
  PROVE  drain_one(x, c, ok) \in Drained(S, K, W, X, n + 1)
<1> DEFINE U == x.state
           Q == queue_cold_start(U, c.key, ok)
           L == Append(x.left, c)
           D == Drained(S, K, W, X, n + 1)
           ref == queue_refusal(U, c.key, ok)
           M == merge_into_work(U, c)
           N == [merge_into_work(Q, c) EXCEPT !.work[c.key].evidence = c.evidence]
<1>1. x \in [state : State, stop : BOOLEAN, left : Seq(Cand)] /\ Sound(U, K, W, X) /\ SameButJobs(S, U)
  BY DEF Drained
<1>2. FitCandidate(U, c, K, X)
  BY <1>1, FitFrame DEF SameButJobs
<1>3. c \in Cand /\ c.key \in Pool /\ U \in State
  BY <1>1, <1>2, Parts DEF FitCandidate
<1>4. Sound(Q, K, W, X) /\ SameButJobs(U, Q)
  BY <1>1, <1>3, ColdStartSound
<1>5. \A V, V2 : SameButJobs(S, V) /\ SameButJobs(V, V2) => SameButJobs(S, V2)
  BY DEF SameButJobs
<1>6. SameButJobs(S, Q)
  BY <1>1, <1>4, <1>5
<1>7. U.work[c.key] # NoWork => Sound(M, K, W, X) /\ SameButJobs(S, M)
  BY <1>1, <1>2, <1>5, MergeSound
<1>8. ref = "none" => Sound(N, K, W, X) /\ SameButJobs(S, N)
  BY <1>1, <1>2, <1>5, StartSound
<1>9. ref \in {"other", "worker", "none"}
  BY <1>3, RefusalCases
<1>10. drain_one(x, c, ok) =
         CASE x.stop -> [x EXCEPT !.left = L]
           [] ~x.stop /\ U.work[c.key] # NoWork -> [x EXCEPT !.state = M]
           [] ~x.stop /\ U.work[c.key] = NoWork /\ ~U.attached -> [x EXCEPT !.stop = TRUE, !.left = L]
           [] ~x.stop /\ U.work[c.key] = NoWork /\ U.attached
              /\ (~active_discovery(U, c.owner) \/ U.pools[c.key].gen > 0) -> x
           [] OTHER -> CASE ref = "other" -> x
                         [] ref = "worker" -> [x EXCEPT !.state = Q, !.stop = TRUE, !.left = L]
                         [] OTHER -> [x EXCEPT !.state = N]
  BY DEF drain_one
<1>11. /\ x \in D /\ [x EXCEPT !.left = L] \in D /\ [x EXCEPT !.stop = TRUE, !.left = L] \in D
  BY <1>1, DrainedStep
<1>12. [x EXCEPT !.state = Q, !.stop = TRUE, !.left = L] \in D
  BY <1>4, <1>6, DrainedStep
<1>13. U.work[c.key] # NoWork => [x EXCEPT !.state = M] \in D
  BY <1>7, DrainedStep
<1>14. ref = "none" => [x EXCEPT !.state = N] \in D
  BY <1>8, DrainedStep
<1>15. x.stop \in BOOLEAN /\ U.attached \in BOOLEAN
  BY <1>1, <1>3, Fields
<1> DEFINE x1 == [x EXCEPT !.left = L]
           x2 == [x EXCEPT !.stop = TRUE, !.left = L]
           x3 == [x EXCEPT !.state = Q, !.stop = TRUE, !.left = L]
           x4 == [x EXCEPT !.state = M]
           x5 == [x EXCEPT !.state = N]
           gone == ~active_discovery(U, c.owner) \/ U.pools[c.key].gen > 0
           free == U.work[c.key] = NoWork
<1>16. drain_one(x, c, ok) =
         CASE x.stop -> x1
           [] ~x.stop /\ ~free -> x4
           [] ~x.stop /\ free /\ ~U.attached -> x2
           [] ~x.stop /\ free /\ U.attached /\ gone -> x
           [] OTHER -> CASE ref = "other" -> x [] ref = "worker" -> x3 [] OTHER -> x5
  BY <1>10
<1>17. /\ x \in D /\ x1 \in D /\ x2 \in D /\ x3 \in D /\ (~free => x4 \in D) /\ (ref = "none" => x5 \in D)
  BY <1>11, <1>12, <1>13, <1>14
<1> HIDE DEF D, x1, x2, x3, x4, x5, gone, free, ref
<1>18. CASE x.stop
  BY <1>16, <1>17, <1>18 DEF D
<1>19. CASE ~x.stop /\ ~free
  BY <1>16, <1>17, <1>19 DEF D
<1>20. CASE ~x.stop /\ free /\ ~U.attached
  BY <1>16, <1>17, <1>20 DEF D
<1>21. CASE ~x.stop /\ free /\ U.attached /\ gone
  BY <1>16, <1>17, <1>21 DEF D
<1>22. CASE ~x.stop /\ free /\ U.attached /\ ~gone
  <2>1. drain_one(x, c, ok) = CASE ref = "other" -> x [] ref = "worker" -> x3 [] OTHER -> x5
    BY <1>16, <1>22
  <2>2. drain_one(x, c, ok) \in D
    BY <1>9, <1>17, <2>1
  <2> QED
    BY <2>2 DEF D
<1> QED
  BY <1>15, <1>18, <1>19, <1>20, <1>21, <1>22

\* The fields that draining the candidates leaves alone.
SameButQueue(S, T) ==
  /\ T.trusted = S.trusted /\ T.attached = S.attached /\ T.point = S.point
  /\ T.adapters = S.adapters /\ T.owners = S.owners /\ T.pools = S.pools
  /\ T.evidence = S.evidence /\ T.revalidation = S.revalidation /\ T.pending = S.pending
  /\ T.discovery = S.discovery

\* Another queue of fit candidates keeps the record sound.
LEMMA QueueSound ==
  ASSUME NEW S, NEW T \in State, NEW K, NEW W, NEW X, Sound(S, K, W, X),
         T.trusted = S.trusted, T.adapters = S.adapters, T.owners = S.owners,
         T.pools = S.pools, T.issued = S.issued, T.evidence = S.evidence,
         T.revalidation = S.revalidation, T.pending = S.pending, T.work = S.work,
         T.discovery = S.discovery,
         Len(T.candidates) <= MaxPending,
         \A j \in 1..Len(T.candidates) : FitCandidate(S, T.candidates[j], K, X)
  PROVE  Sound(T, K, W, X)
<1>1. CandidatesOK(T)
  BY DEF CandidatesOK, FitCandidate, GoodCandidate, Backs, active_discovery
<1>2. LivesOK(T)
  BY DEF Sound, Owned, LivesOK, active_adapter
<1>3. WorkOK(T)
  BY DEF Sound, Owned, WorkOK, GoodWork, active_adapter, Backs, active_discovery
<1>4. RecipesOK(T)
  BY DEF Sound, Owned, RecipesOK, active_pool, Backs, active_discovery
<1>5. QueriesOK(T)
  BY DEF Sound, Owned, QueriesOK, active_discovery
<1>6. PendingOK(T)
  BY DEF Sound, Owned, PendingOK, active_pool, Backs, active_discovery
<1>7. Owned(T)
  BY <1>1, <1>2, <1>3, <1>4, <1>5, <1>6 DEF Owned
<1>8. ASSUME T.trusted PROVE Grounded(T, K, W, X)
  <2>1. Grounded(S, K, W, X) /\ S.trusted
    BY <1>8 DEF Sound
  <2>2. \A id, o : AskedOf(T, id, o) <=> AskedOf(S, id, o)
    BY DEF AskedOf
  <2>3. \A id : GroundedPool(S, id, K, W, X) => GroundedPool(T, id, K, W, X)
    BY <2>2 DEF GroundedPool
  <2>4. PoolsGrounded(T, K, W, X)
    BY <2>1, <2>3 DEF Grounded, PoolsGrounded
  <2>5. WorkGrounded(T, K, X)
    BY <2>1 DEF Grounded, WorkGrounded
  <2>6. CandidatesGrounded(T, K, X)
    BY <2>1 DEF FitCandidate, CandidatesGrounded
  <2> QED
    BY <2>4, <2>5, <2>6 DEF Grounded
<1> QED
  BY <1>7, <1>8 DEF Sound

\* The recursion in drain_factory_candidates is one: every turn follows the one before.
LEMMA DrainTurns ==
  ASSUME NEW S, NEW K, NEW W, NEW X, Sound(S, K, W, X), NEW ok \in BOOLEAN
  PROVE  LET n == Len(S.candidates)
             x0 == [state |-> S, stop |-> FALSE, left |-> <<>>]
         IN  \E turn : /\ turn[0] = x0
                       /\ \A i \in 1..n : turn[i] = drain_one(turn[i - 1], S.candidates[i], ok)
                       /\ drain_factory_candidates(S, ok) =
                            [turn[n].state EXCEPT !.candidates = turn[n].left]
<1> DEFINE n == Len(S.candidates)
           x0 == [state |-> S, stop |-> FALSE, left |-> <<>>]
           cs == S.candidates
           Y == UNION {Drained(S, K, W, X, m) : m \in Nat}
           F == [i \in 1..n |-> [y \in Y |-> drain_one(y, cs[i], ok)]]
           turn == CHOOSE g : g = [i \in 0..n |-> IF i = 0 THEN x0 ELSE drain_one(g[i - 1], cs[i], ok)]
<1>1. S \in State /\ Owned(S) /\ cs \in Seq(Cand) /\ n \in Nat
  BY Fields DEF Sound, Owned
<1>2. \A i \in 1..n : FitCandidate(S, cs[i], K, X)
  BY <1>1 DEF FitCandidate, Sound, Owned, CandidatesOK, Grounded, CandidatesGrounded
<1>3. x0 \in Drained(S, K, W, X, 0)
  <2>1. x0 \in [state : State, stop : BOOLEAN, left : Seq(Cand)]
    BY <1>1
  <2>2. x0.state = S /\ x0.left = <<>> /\ Len(<<>>) = 0
    OBVIOUS
  <2>3. SameButJobs(S, S)
    BY DEF SameButJobs
  <2> HIDE DEF x0
  <2> QED
    BY <2>1, <2>2, <2>3 DEF Drained
<1>4. x0 \in Y
  BY <1>3
<1> HIDE DEF n, cs, x0
<1>5. ASSUME NEW i \in 1..n, NEW y \in Y PROVE drain_one(y, cs[i], ok) \in Y
  <2>1. PICK m \in Nat : y \in Drained(S, K, W, X, m)
    OBVIOUS
  <2>2. drain_one(y, cs[i], ok) \in Drained(S, K, W, X, m + 1)
    BY <1>2, <2>1, DrainOne
  <2> QED
    BY <2>2
<1> HIDE DEF Y
<1>6. F \in [1..n -> [Y -> Y]]
  BY <1>5
<1>7. PICK g : Iterates(g, n, Y, x0, F)
  <2> HIDE DEF F
  <2> QED
    BY <1>1, <1>4, <1>6, FoldExists
<1>8. /\ g \in [0..n -> Y] /\ g[0] = x0
      /\ \A i \in 1..n : g[i] = F[i][g[i - 1]]
  BY <1>7 DEF Iterates
<1>9. ASSUME NEW i \in 1..n PROVE g[i] = drain_one(g[i - 1], cs[i], ok)
  <2>1. i - 1 \in 0..n
    BY <1>1
  <2>2. g[i - 1] \in Y
    BY <1>8, <2>1
  <2> QED
    BY <1>8, <2>2
<1>10. g = [i \in 0..n |-> IF i = 0 THEN x0 ELSE drain_one(g[i - 1], cs[i], ok)]
  <2> DEFINE h == [i \in 0..n |-> IF i = 0 THEN x0 ELSE drain_one(g[i - 1], cs[i], ok)]
  <2>1. ASSUME NEW i \in 0..n PROVE g[i] = h[i]
    <3>1. CASE i = 0
      BY <1>8, <3>1
    <3>2. CASE i # 0
      <4>1. i \in 1..n
        BY <1>1, <3>2
      <4> QED
        BY <1>9, <3>2, <4>1
    <3> QED
      BY <3>1, <3>2
  <2>2. g = [i \in 0..n |-> g[i]] /\ h = [i \in 0..n |-> h[i]]
    BY <1>8
  <2> HIDE DEF h
  <2>3. g = h
    BY <2>1, <2>2
  <2> QED
    BY <2>3 DEF h
<1>11. turn = [i \in 0..n |-> IF i = 0 THEN x0 ELSE drain_one(turn[i - 1], cs[i], ok)]
  BY <1>10, Zenon
<1>12. drain_factory_candidates(S, ok) = [turn[n].state EXCEPT !.candidates = turn[n].left]
  BY Zenon DEF drain_factory_candidates, n, cs, x0
<1> HIDE DEF turn
<1>13. turn[0] = x0
  BY <1>1, <1>11
<1>14. ASSUME NEW i \in 1..n PROVE turn[i] = drain_one(turn[i - 1], cs[i], ok)
  <2>1. i \in 0..n /\ i # 0
    BY <1>1
  <2> QED
    BY <1>11, <2>1
<1> QED
  BY <1>12, <1>13, <1>14 DEF n, cs, x0

\* drain_factory_candidates keeps the record sound.
LEMMA DrainSound ==
  ASSUME NEW S, NEW K, NEW W, NEW X, Sound(S, K, W, X), NEW ok \in BOOLEAN
  PROVE  /\ Sound(drain_factory_candidates(S, ok), K, W, X)
         /\ SameButQueue(S, drain_factory_candidates(S, ok))
<1> DEFINE n == Len(S.candidates)
           x0 == [state |-> S, stop |-> FALSE, left |-> <<>>]
           T == drain_factory_candidates(S, ok)
<1>1. S \in State /\ Owned(S) /\ S.candidates \in Seq(Cand) /\ n \in Nat
  BY Fields DEF Sound, Owned
<1>2. \A i \in 1..n : FitCandidate(S, S.candidates[i], K, X)
  BY <1>1 DEF FitCandidate, Sound, Owned, CandidatesOK, Grounded, CandidatesGrounded
<1>3. x0 \in Drained(S, K, W, X, 0)
  <2>1. x0 \in [state : State, stop : BOOLEAN, left : Seq(Cand)]
    BY <1>1
  <2>2. x0.state = S /\ x0.left = <<>> /\ Len(<<>>) = 0
    OBVIOUS
  <2>3. SameButJobs(S, S)
    BY DEF SameButJobs
  <2> HIDE DEF x0
  <2> QED
    BY <2>1, <2>2, <2>3 DEF Drained
<1>4. PICK turn : /\ turn[0] = x0
                  /\ \A i \in 1..n : turn[i] = drain_one(turn[i - 1], S.candidates[i], ok)
                  /\ T = [turn[n].state EXCEPT !.candidates = turn[n].left]
  BY DrainTurns
<1> HIDE DEF n, x0, T
<1> DEFINE D == [i \in 0..n |-> Drained(S, K, W, X, i)]
<1>5. turn[0] \in D[0]
  BY <1>1, <1>3, <1>4
<1>6. ASSUME NEW i \in 1..n, turn[i - 1] \in D[i - 1] PROVE turn[i] \in D[i]
  <2>1. i - 1 \in 0..n /\ i \in 0..n /\ i - 1 \in Nat /\ (i - 1) + 1 = i
    BY <1>1
  <2>2. turn[i - 1] \in Drained(S, K, W, X, i - 1)
    BY <1>6, <2>1
  <2>3. drain_one(turn[i - 1], S.candidates[i], ok) \in Drained(S, K, W, X, (i - 1) + 1)
    BY <1>2, <2>1, <2>2, DrainOne
  <2>4. turn[i] \in Drained(S, K, W, X, i)
    BY <1>4, <2>1, <2>3
  <2> QED
    BY <2>1, <2>4
<1> HIDE DEF D
<1>7. turn[n] \in D[n]
  BY <1>1, <1>5, <1>6, FoldKeeps
<1>8. turn[n] \in Drained(S, K, W, X, n)
  BY <1>1, <1>7 DEF D
<1> DEFINE U == turn[n].state
           L == turn[n].left
<1>9. /\ U \in State /\ L \in Seq(Cand) /\ Sound(U, K, W, X) /\ SameButJobs(S, U)
      /\ Len(L) <= n /\ \A j \in 1..Len(L) : FitCandidate(S, L[j], K, X)
  BY <1>8 DEF Drained
<1>10. T = [U EXCEPT !.candidates = L]
  BY <1>4
<1> HIDE DEF U, L
<1>11. T \in State /\ T.candidates = L
  BY <1>9, <1>10 DEF State
<1>12. /\ T.trusted = U.trusted /\ T.attached = U.attached /\ T.point = U.point
       /\ T.adapters = U.adapters /\ T.owners = U.owners /\ T.pools = U.pools
       /\ T.issued = U.issued
       /\ T.evidence = U.evidence /\ T.revalidation = U.revalidation /\ T.pending = U.pending
       /\ T.work = U.work /\ T.discovery = U.discovery
  BY <1>9, <1>10 DEF State
<1>13. SameButQueue(S, T)
  BY <1>9, <1>12 DEF SameButJobs, SameButQueue
<1>14. T.owners = S.owners /\ T.trusted = S.trusted
  BY <1>13 DEF SameButQueue
<1>15. Len(L) <= MaxPending
  <2>1. n <= MaxPending /\ MaxPending \in Nat
    BY <1>1, RegistrationAssumption DEF Owned, CandidatesOK, n
  <2>2. Len(L) \in Nat
    BY <1>9
  <2> QED
    BY <1>1, <1>9, <2>1, <2>2
<1>16. Sound(T, K, W, X)
  <2>1. \A j \in 1..Len(L) : FitCandidate(U, L[j], K, X)
    BY <1>9, <1>12, <1>14, FitFrame
  <2> QED
    BY <1>9, <1>11, <1>12, <1>15, <2>1, QueueSound
<1> QED
  BY <1>13, <1>16 DEF T

-----------------------------------------------------------------------------
(* Evidence of one pool, and candidates reported. *)

\* Evidence E and recipes R take the place of what is kept for id.
Records(S, T, id, E, R) ==
  /\ T.evidence = [S.evidence EXCEPT ![id] = E] /\ T.revalidation = [S.revalidation EXCEPT ![id] = R]
  /\ T.trusted = S.trusted /\ T.attached = S.attached /\ T.point = S.point
  /\ T.adapters = S.adapters /\ T.owners = S.owners /\ T.pools = S.pools /\ T.issued = S.issued
  /\ T.pending = S.pending /\ T.candidates = S.candidates /\ T.work = S.work
  /\ T.discovery = S.discovery

\* An EXCEPT of the two fields records.
LEMMA RecordsShape ==
  ASSUME NEW S \in State, NEW id \in PoolId, NEW E \in SUBSET Evidence, NEW R \in SUBSET OwnerId
  PROVE  LET T == [S EXCEPT !.evidence[id] = E, !.revalidation[id] = R] IN
         T \in State /\ Records(S, T, id, E, R)
<1> DEFINE T == [S EXCEPT !.evidence[id] = E, !.revalidation[id] = R]
           ev == [S.evidence EXCEPT ![id] = E]
           rv == [S.revalidation EXCEPT ![id] = R]
<1>1. T = [S EXCEPT !.evidence = ev, !.revalidation = rv]
  BY DEF State
<1>2. ev \in [PoolId -> SUBSET Evidence] /\ rv \in [PoolId -> SUBSET OwnerId]
  BY Fields
<1> HIDE DEF T, ev, rv
<1>3. T \in State
  BY <1>1, <1>2 DEF State
<1>4. /\ T.evidence = ev /\ T.revalidation = rv
      /\ T.trusted = S.trusted /\ T.attached = S.attached /\ T.point = S.point
      /\ T.adapters = S.adapters /\ T.owners = S.owners /\ T.pools = S.pools /\ T.issued = S.issued
      /\ T.pending = S.pending /\ T.candidates = S.candidates /\ T.work = S.work
      /\ T.discovery = S.discovery
  BY <1>1 DEF State
<1> QED
  BY <1>3, <1>4 DEF T, ev, rv, Records

\* Recipes of issued generations, backed by queries among the evidence, keep ownership.
LEMMA RecordsOwned ==
  ASSUME NEW S, NEW T \in State, Owned(S), NEW id \in PoolId, NEW E, NEW R,
         Records(S, T, id, E, R), R # {} => id[2] <= S.issued[id[1]],
         active_pool(S, id) => \A o \in R : /\ Backs(S, o, id[1])
                                            /\ evidence_contains_state_query_owner(E, o)
  PROVE  Owned(T)
<1>1. S \in State
  BY DEF Owned
<1>2. /\ T.evidence[id] = E /\ T.revalidation[id] = R
      /\ \A i \in PoolId : i # id =>
           T.evidence[i] = S.evidence[i] /\ T.revalidation[i] = S.revalidation[i]
  BY <1>1, Fields DEF Records
<1>3. /\ T.adapters = S.adapters /\ T.owners = S.owners /\ T.pools = S.pools /\ T.issued = S.issued
      /\ T.pending = S.pending /\ T.candidates = S.candidates /\ T.work = S.work
      /\ T.discovery = S.discovery
  BY DEF Records
<1>4. RecipesOK(T)
  <2> SUFFICES ASSUME NEW i \in PoolId
               PROVE  /\ T.revalidation[i] # {} => i[2] <= T.issued[i[1]]
                      /\ active_pool(T, i) => \A o \in T.revalidation[i] :
                           /\ Backs(T, o, i[1])
                           /\ evidence_contains_state_query_owner(T.evidence[i], o)
    BY DEF RecipesOK
  <2>1. CASE i = id
    BY <1>2, <1>3, <2>1 DEF active_pool, Backs, active_discovery
  <2>2. CASE i # id
    BY <1>2, <1>3, <2>2 DEF Owned, RecipesOK, active_pool, Backs, active_discovery
  <2> QED
    BY <2>1, <2>2
<1>5. LivesOK(T)
  BY <1>3 DEF Owned, LivesOK, active_adapter
<1>6. WorkOK(T)
  BY <1>3 DEF Owned, WorkOK, GoodWork, active_adapter, Backs, active_discovery
<1>7. CandidatesOK(T)
  BY <1>3 DEF Owned, CandidatesOK, GoodCandidate, Backs, active_discovery
<1>8. QueriesOK(T)
  BY <1>3 DEF Owned, QueriesOK, active_discovery
<1>9. PendingOK(T)
  BY <1>3 DEF Owned, PendingOK, active_pool, Backs, active_discovery
<1> QED
  BY <1>4, <1>5, <1>6, <1>7, <1>8, <1>9 DEF Owned

\* Where the pool itself is grounded after the change, everything is.
LEMMA RecordsGrounded ==
  ASSUME NEW S, NEW T, Owned(S), NEW id \in PoolId, NEW E, NEW R,
         Records(S, T, id, E, R), NEW K, NEW W, NEW X,
         WorkGrounded(S, K, X), CandidatesGrounded(S, K, X),
         \A q \in Pool : S.pools[q].gen > 0 /\ <<q, S.pools[q].gen>> # id =>
           GroundedPool(S, <<q, S.pools[q].gen>>, K, W, X),
         active_pool(S, id) => GroundedPool(T, id, K, W, X)
  PROVE  Grounded(T, K, W, X)
<1>1. S \in State
  BY DEF Owned
<1>2. \A i \in PoolId : i # id =>
        T.evidence[i] = S.evidence[i] /\ T.revalidation[i] = S.revalidation[i]
  BY <1>1, Fields DEF Records
<1>3. /\ T.pools = S.pools /\ T.pending = S.pending /\ T.candidates = S.candidates
      /\ T.work = S.work /\ T.discovery = S.discovery
  BY DEF Records
<1>4. PoolsGrounded(T, K, W, X)
  <2> SUFFICES ASSUME NEW q \in Pool, S.pools[q].gen > 0
               PROVE  GroundedPool(T, <<q, S.pools[q].gen>>, K, W, X)
    BY <1>3 DEF PoolsGrounded
  <2>1. S.pools[q].gen \in 1..MaxGen
    BY <1>1, Lives
  <2> DEFINE i == <<q, S.pools[q].gen>>
  <2>2. i \in PoolId /\ i[1] = q /\ i[2] = S.pools[q].gen
    BY <2>1, Identities
  <2>3. CASE i = id
    <3>1. active_pool(S, id)
      BY <2>2, <2>3 DEF active_pool
    <3> QED
      BY <2>3, <3>1
  <2>4. CASE i # id
    <3>1. GroundedPool(S, i, K, W, X)
      BY <2>4
    <3> HIDE DEF i
    <3>2. \A o : AskedOf(T, i, o) <=> AskedOf(S, i, o)
      BY <1>3 DEF AskedOf
    <3>3. GroundedPool(T, i, K, W, X)
      BY <1>2, <2>2, <2>4, <3>1, <3>2 DEF GroundedPool
    <3> QED
      BY <3>3 DEF i
  <2> QED
    BY <2>3, <2>4
<1>5. WorkGrounded(T, K, X) /\ CandidatesGrounded(T, K, X)
  BY <1>3 DEF WorkGrounded, CandidatesGrounded
<1> QED
  BY <1>4, <1>5 DEF Grounded

\* The watchers and the point stay, and trust is never gained.
SameWatch(S, T) == T.owners = S.owners /\ T.point = S.point /\ (T.trusted => S.trusted)

\* What a candidate adds to the evidence of a pool that is served already.
LEMMA RetainActive ==
  ASSUME NEW S, NEW K, NEW W, NEW X, Sound(S, K, W, X), NEW c, FitCandidate(S, c, K, X),
         S.pools[c.key].gen > 0
  PROVE  LET id == <<c.key, S.pools[c.key].gen>>
             T == [S EXCEPT !.evidence[id] = @ \cup c.evidence,
                            !.revalidation[id] = IF c.revalidate THEN @ \cup {c.owner} ELSE @]
         IN  Sound(T, K, W, X) /\ SameWatch(S, T)
<1> DEFINE id == <<c.key, S.pools[c.key].gen>>
           E == S.evidence[id] \cup c.evidence
           R == IF c.revalidate THEN S.revalidation[id] \cup {c.owner} ELSE S.revalidation[id]
           T == [S EXCEPT !.evidence[id] = E, !.revalidation[id] = R]
<1>1. S \in State /\ Owned(S) /\ c \in Cand /\ GoodCandidate(S, c)
  BY DEF Sound, Owned, FitCandidate
<1>2. /\ c.owner \in OwnerId /\ c.key \in Pool /\ c.evidence \in SUBSET Evidence
      /\ c.revalidate \in BOOLEAN /\ S.pools[c.key].gen \in 1..MaxGen
  BY <1>1, Parts, Lives
<1>3. id \in PoolId /\ id[1] = c.key /\ id[2] = S.pools[c.key].gen
  BY <1>2, Identities
<1>4. active_pool(S, id)
  BY <1>3 DEF active_pool
<1> HIDE DEF id
<1>5. E \in SUBSET Evidence /\ R \in SUBSET OwnerId
  BY <1>1, <1>2, <1>3, Fields
<1>6. T \in State /\ Records(S, T, id, E, R)
  <2> HIDE DEF E, R
  <2> QED
    BY <1>1, <1>3, <1>5, RecordsShape
<1>7. \A o \in R : Backs(S, o, id[1]) /\ evidence_contains_state_query_owner(E, o)
  <2>1. \A o \in S.revalidation[id] :
          Backs(S, o, id[1]) /\ evidence_contains_state_query_owner(S.evidence[id], o)
    BY <1>1, <1>3, <1>4 DEF Owned, RecipesOK
  <2>2. /\ Backs(S, c.owner, id[1])
        /\ c.revalidate => evidence_contains_state_query_owner(c.evidence, c.owner)
    BY <1>1, <1>3 DEF GoodCandidate
  <2> QED
    BY <2>1, <2>2 DEF evidence_contains_state_query_owner
<1>8. id[2] <= S.issued[id[1]]
  BY <1>1, <1>2, <1>3 DEF Owned, LivesOK
<1>9. /\ E = S.evidence[id] \cup c.evidence
      /\ S.revalidation[id] \subseteq R /\ (c.revalidate => c.owner \in R)
  OBVIOUS
<1> HIDE DEF T, E, R
<1>10. Owned(T)
  BY <1>1, <1>3, <1>6, <1>7, <1>8, RecordsOwned
<1>11. T.trusted = S.trusted /\ T.owners = S.owners /\ T.point = S.point
       /\ T.pending = S.pending /\ T.discovery = S.discovery
       /\ T.evidence[id] = E /\ T.revalidation[id] = R
  BY <1>1, <1>3, <1>6, Fields DEF Records
<1>12. ASSUME T.trusted PROVE Grounded(T, K, W, X)
  <2>1. Grounded(S, K, W, X) /\ GroundedCandidate(c, K, X)
    BY <1>11, <1>12 DEF Sound, FitCandidate
  <2>2. GroundedPool(S, id, K, W, X)
    BY <1>2, <2>1 DEF Grounded, PoolsGrounded, id
  <2>3. \A o : AskedOf(T, id, o) <=> AskedOf(S, id, o)
    BY <1>11 DEF AskedOf
  <2>4. GroundedPool(T, id, K, W, X)
    <3>1. T.evidence[id] # {}
      BY <1>9, <1>11, <2>2 DEF GroundedPool
    <3>2. ASSUME id[1] \notin X, NEW e \in T.evidence[id]
          PROVE  /\ e.kind = "query" => e.owner \in T.revalidation[id]
                 /\ ~OnChain(K, e) => e.kind = "query" /\ (id[1] \in W \/ AskedOf(T, id, e.owner))
      <4>1. CASE e \in S.evidence[id]
        BY <1>9, <1>11, <2>2, <2>3, <3>2, <4>1 DEF GroundedPool
      <4>2. CASE e \in c.evidence
        <5>1. /\ OnChain(K, e) /\ (e = Stable \/ e.owner = c.owner)
              /\ e.kind = "query" => c.revalidate
          BY <1>3, <2>1, <3>2, <4>2 DEF GroundedCandidate
        <5> QED
          BY <1>9, <1>11, <5>1, EvidenceShape
      <4> QED
        BY <1>9, <1>11, <3>2, <4>1, <4>2
    <3> QED
      BY <3>1, <3>2 DEF GroundedPool
  <2> QED
    BY <1>1, <1>3, <1>6, <2>1, <2>4, RecordsGrounded DEF Grounded, PoolsGrounded
<1> QED
  BY <1>10, <1>11, <1>12 DEF Sound, SameWatch, T, E, R, id

\* What a second report adds to a candidate.
LEMMA MergedCandidate ==
  ASSUME NEW k \in Cand, NEW c \in Cand
  PROVE  LET m == merge_candidates(k, c) IN
         /\ m \in Cand /\ m.owner = k.owner /\ m.key = k.key
         /\ m.evidence = k.evidence \cup c.evidence
         /\ m.revalidate = (k.revalidate \/ c.revalidate)
<1> DEFINE m == merge_candidates(k, c)
           ev == k.evidence \cup c.evidence
           rv == k.revalidate \/ c.revalidate
<1>1. m = [k EXCEPT !.evidence = ev, !.revalidate = rv]
  BY DEF merge_candidates
<1>2. ev \in SUBSET Evidence /\ rv \in BOOLEAN
  BY Parts
<1> HIDE DEF m, ev, rv
<1>3. m \in Cand
  BY <1>1, <1>2 DEF Cand
<1>4. m.owner = k.owner /\ m.key = k.key /\ m.evidence = ev /\ m.revalidate = rv
  BY <1>1 DEF Cand
<1> QED
  BY <1>3, <1>4 DEF m, ev, rv

\* Two fit candidates of one owner and pool merge into a fit candidate.
LEMMA MergedFit ==
  ASSUME NEW S, NEW K, NEW X, NEW k, NEW c, FitCandidate(S, k, K, X), FitCandidate(S, c, K, X),
         k.owner = c.owner, k.key = c.key
  PROVE  FitCandidate(S, merge_candidates(k, c), K, X)
<1> DEFINE m == merge_candidates(k, c)
<1>1. k \in Cand /\ c \in Cand /\ GoodCandidate(S, k) /\ GoodCandidate(S, c)
  BY DEF FitCandidate
<1>2. /\ m \in Cand /\ m.owner = k.owner /\ m.key = k.key
      /\ m.evidence = k.evidence \cup c.evidence /\ m.revalidate = (k.revalidate \/ c.revalidate)
  BY <1>1, MergedCandidate
<1> HIDE DEF m
<1>3. GoodCandidate(S, m)
  BY <1>1, <1>2 DEF GoodCandidate, evidence_contains_state_query_owner
<1>4. ASSUME S.trusted PROVE GroundedCandidate(m, K, X)
  <2>1. GroundedCandidate(k, K, X) /\ GroundedCandidate(c, K, X)
    BY <1>4 DEF FitCandidate
  <2> QED
    BY <1>2, <2>1 DEF GroundedCandidate
<1> QED
  BY <1>2, <1>3, <1>4 DEF FitCandidate, m

\* The candidates of a sound record are fit.
LEMMA QueueFit ==
  ASSUME NEW S, NEW K, NEW W, NEW X, Sound(S, K, W, X)
  PROVE  /\ S.candidates \in Seq(Cand) /\ Len(S.candidates) \in Nat
         /\ Len(S.candidates) <= MaxPending
         /\ \A i \in 1..Len(S.candidates) : FitCandidate(S, S.candidates[i], K, X)
<1>1. S \in State
  BY DEF Sound, Owned
<1>2. S.candidates \in Seq(Cand)
  BY <1>1, Fields
<1> QED
  BY <1>2 DEF FitCandidate, Sound, Owned, CandidatesOK, Grounded, CandidatesGrounded

\* Another queue of fit candidates, as an EXCEPT.
LEMMA PutQueueSound ==
  ASSUME NEW S, NEW K, NEW W, NEW X, Sound(S, K, W, X), NEW q \in Seq(Cand),
         Len(q) <= MaxPending, \A i \in 1..Len(q) : FitCandidate(S, q[i], K, X)
  PROVE  Sound([S EXCEPT !.candidates = q], K, W, X) /\ SameWatch(S, [S EXCEPT !.candidates = q])
<1> DEFINE T == [S EXCEPT !.candidates = q]
<1>1. S \in State
  BY DEF Sound, Owned
<1>2. T \in State
  BY <1>1 DEF State
<1>3. /\ T.trusted = S.trusted /\ T.adapters = S.adapters /\ T.owners = S.owners
      /\ T.pools = S.pools /\ T.issued = S.issued /\ T.evidence = S.evidence
      /\ T.revalidation = S.revalidation /\ T.pending = S.pending /\ T.work = S.work
      /\ T.discovery = S.discovery /\ T.candidates = q /\ T.point = S.point
  BY <1>1 DEF State
<1> HIDE DEF T
<1>4. Sound(T, K, W, X)
  BY <1>2, <1>3, QueueSound
<1> QED
  BY <1>3, <1>4 DEF SameWatch, T

\* retain_factory_candidate keeps the record sound.
LEMMA RetainOne ==
  ASSUME NEW S, NEW K, NEW W, NEW X, Sound(S, K, W, X), NEW c, FitCandidate(S, c, K, X)
  PROVE  /\ Sound(retain_factory_candidate(S, c), K, W, X)
         /\ SameWatch(S, retain_factory_candidate(S, c))
<1> DEFINE id == <<c.key, S.pools[c.key].gen>>
           same == {i \in DOMAIN S.candidates :
                      S.candidates[i].owner = c.owner /\ S.candidates[i].key = c.key}
           n == Len(S.candidates)
           T1 == [S EXCEPT !.evidence[id] = @ \cup c.evidence,
                           !.revalidation[id] = IF c.revalidate THEN @ \cup {c.owner} ELSE @]
           T2 == [S EXCEPT !.candidates[Min(same)] = merge_candidates(@, c)]
           T3 == [S EXCEPT !.candidates = Append(@, c)]
           T4 == mark_untrusted(S)
           T == retain_factory_candidate(S, c)
<1>1. S \in State /\ Owned(S) /\ c \in Cand /\ c.key \in Pool
  BY Parts DEF Sound, Owned, FitCandidate
<1>2. S.pools[c.key].gen \in 0..MaxGen
  BY <1>1, Lives
<1>3. /\ S.candidates \in Seq(Cand) /\ n \in Nat /\ n <= MaxPending
      /\ \A i \in 1..n : FitCandidate(S, S.candidates[i], K, X)
  BY QueueFit
<1>4. T = CASE S.pools[c.key].gen > 0 -> T1
            [] S.pools[c.key].gen = 0 /\ same # {} -> T2
            [] OTHER -> IF n < MaxPending THEN T3 ELSE T4
  BY DEF retain_factory_candidate
<1>5. CASE S.pools[c.key].gen > 0
  <2>1. Sound(T1, K, W, X) /\ SameWatch(S, T1)
    BY <1>5, RetainActive
  <2>2. T = T1
    <3> HIDE DEF T, T1, T2, T3, T4, same, n
    <3> QED
      BY <1>2, <1>4, <1>5
  <2> QED
    BY <2>1, <2>2
<1>6. CASE S.pools[c.key].gen = 0 /\ same # {}
  <2>1. same \subseteq 1..n /\ same \subseteq Nat
    BY <1>3
  <2>2. Min(same) \in same
    <3>1. \E x \in same : \A y \in same : x <= y
      BY <1>6, <2>1, LeastNat
    <3> HIDE DEF same
    <3> QED
      BY <3>1, Zenon DEF Min
  <2> DEFINE m == Min(same)
             k == S.candidates[m]
             v == merge_candidates(k, c)
             q == [S.candidates EXCEPT ![m] = v]
  <2>3. m \in 1..n /\ k.owner = c.owner /\ k.key = c.key
    BY <2>1, <2>2
  <2>4. FitCandidate(S, v, K, X)
    BY <1>3, <2>3, MergedFit
  <2>5. T2 = [S EXCEPT !.candidates = q]
    <3> HIDE DEF same
    <3> QED
      BY <1>1 DEF State
  <2>6. T = T2
    <3> HIDE DEF T, T1, T2, T3, T4, same, n
    <3> QED
      BY <1>2, <1>4, <1>6
  <2>7. v \in Cand
    BY <2>4 DEF FitCandidate
  <2> HIDE DEF m, k, v, same, T2, T
  <2>8. q \in Seq(Cand) /\ Len(q) = n /\ \A i \in 1..n : q[i] = IF i = m THEN v ELSE S.candidates[i]
    BY <1>3, <2>3, <2>7
  <2> HIDE DEF q
  <2>9. \A i \in 1..Len(q) : FitCandidate(S, q[i], K, X)
    BY <1>3, <2>4, <2>8
  <2>10. Sound(T2, K, W, X) /\ SameWatch(S, T2)
    BY <1>3, <2>5, <2>8, <2>9, PutQueueSound
  <2> QED
    BY <2>6, <2>10 DEF T
<1>7. CASE S.pools[c.key].gen = 0 /\ same = {}
  <2>1. T = IF n < MaxPending THEN T3 ELSE T4
    <3> HIDE DEF T, T1, T2, T3, T4, same, n
    <3> QED
      BY <1>2, <1>4, <1>7
  <2>2. CASE n < MaxPending
    <3> DEFINE q == Append(S.candidates, c)
    <3>1. /\ q \in Seq(Cand) /\ Len(q) = n + 1 /\ q[n + 1] = c
          /\ \A i \in 1..n : q[i] = S.candidates[i]
      BY <1>1, <1>3
    <3> HIDE DEF q
    <3>2. Len(q) <= MaxPending
      BY <1>3, <2>2, <3>1, RegistrationAssumption
    <3>3. ASSUME NEW i \in 1..Len(q) PROVE FitCandidate(S, q[i], K, X)
      <4>1. i \in 1..n \/ i = n + 1
        BY <1>3, <3>1
      <4> QED
        BY <1>3, <3>1, <4>1
    <3>4. Sound([S EXCEPT !.candidates = q], K, W, X) /\ SameWatch(S, [S EXCEPT !.candidates = q])
      BY <3>1, <3>2, <3>3, PutQueueSound
    <3> QED
      BY <2>1, <2>2, <3>4 DEF q
  <2>3. CASE ~(n < MaxPending)
    <3>1. Sound(T4, K, W, X)
      BY <1>1, UntrustedSound
    <3>2. SameWatch(S, T4)
      BY <1>1, UntrustedShape DEF SameWatch
    <3> HIDE DEF T, T3, T4
    <3> QED
      BY <2>1, <2>3, <3>1, <3>2 DEF T
  <2> QED
    BY <2>2, <2>3
<1> QED
  BY <1>2, <1>5, <1>6, <1>7

\* retain_factory_candidates keeps the record sound.
LEMMA RetainAll ==
  ASSUME NEW S, NEW K, NEW W, NEW X, Sound(S, K, W, X), NEW A, NEW cs \in Seq(A),
         \A i \in 1..Len(cs) : FitCandidate(S, cs[i], K, X)
  PROVE  /\ Sound(retain_factory_candidates(S, cs), K, W, X)
         /\ SameWatch(S, retain_factory_candidates(S, cs))
<1> DEFINE n == Len(cs)
           Y == {T \in State : Sound(T, K, W, X) /\ SameWatch(S, T)}
           F == [i \in 1..n |-> [y \in Y |-> retain_factory_candidate(y, cs[i])]]
           turn == CHOOSE g : g = [i \in 0..n |-> IF i = 0 THEN S
                                                  ELSE retain_factory_candidate(g[i - 1], cs[i])]
<1>1. n \in Nat /\ S \in State
  BY DEF Sound, Owned
<1>2. S \in Y
  BY <1>1 DEF SameWatch
<1> HIDE DEF n
<1>3. ASSUME NEW i \in 1..n, NEW y \in Y PROVE retain_factory_candidate(y, cs[i]) \in Y
  <2> DEFINE z == retain_factory_candidate(y, cs[i])
  <2>1. FitCandidate(S, cs[i], K, X)
    BY DEF n
  <2>2. FitCandidate(y, cs[i], K, X)
    BY <2>1, FitFrame DEF SameWatch
  <2>3. Sound(z, K, W, X) /\ SameWatch(y, z)
    BY <2>2, RetainOne
  <2> HIDE DEF z
  <2>4. SameWatch(S, z) /\ z \in State
    BY <2>3 DEF SameWatch, Sound, Owned
  <2> QED
    BY <2>3, <2>4 DEF z
<1> HIDE DEF Y
<1>4. F \in [1..n -> [Y -> Y]]
  BY <1>3
<1>5. PICK g : Iterates(g, n, Y, S, F)
  <2> HIDE DEF F
  <2> QED
    BY <1>1, <1>2, <1>4, FoldExists
<1>6. g \in [0..n -> Y] /\ g[0] = S /\ \A i \in 1..n : g[i] = F[i][g[i - 1]]
  BY <1>5 DEF Iterates
<1>7. ASSUME NEW i \in 1..n PROVE g[i] = retain_factory_candidate(g[i - 1], cs[i])
  <2>1. i - 1 \in 0..n
    BY <1>1
  <2>2. g[i - 1] \in Y
    BY <1>6, <2>1
  <2> QED
    BY <1>6, <2>2
<1>8. g = [i \in 0..n |-> IF i = 0 THEN S ELSE retain_factory_candidate(g[i - 1], cs[i])]
  <2> DEFINE h == [i \in 0..n |-> IF i = 0 THEN S ELSE retain_factory_candidate(g[i - 1], cs[i])]
  <2>1. ASSUME NEW i \in 0..n PROVE g[i] = h[i]
    <3>1. CASE i = 0
      BY <1>6, <3>1
    <3>2. CASE i # 0
      <4>1. i \in 1..n
        BY <1>1, <3>2
      <4> QED
        BY <1>7, <3>2, <4>1
    <3> QED
      BY <3>1, <3>2
  <2>2. g = [i \in 0..n |-> g[i]] /\ h = [i \in 0..n |-> h[i]]
    BY <1>6
  <2> HIDE DEF h
  <2>3. g = h
    BY <2>1, <2>2
  <2> QED
    BY <2>3 DEF h
<1>9. turn = [i \in 0..n |-> IF i = 0 THEN S ELSE retain_factory_candidate(turn[i - 1], cs[i])]
  BY <1>8, Zenon
<1>10. retain_factory_candidates(S, cs) = turn[n]
  BY Zenon DEF retain_factory_candidates, n
<1> HIDE DEF turn
<1> DEFINE D == [i \in 0..n |-> Y]
<1>11. turn[0] \in D[0]
  BY <1>1, <1>2, <1>9
<1>12. ASSUME NEW i \in 1..n, turn[i - 1] \in D[i - 1] PROVE turn[i] \in D[i]
  <2>1. i - 1 \in 0..n /\ i \in 0..n /\ i # 0
    BY <1>1
  <2>2. turn[i - 1] \in Y
    BY <1>12, <2>1
  <2>3. turn[i] = retain_factory_candidate(turn[i - 1], cs[i])
    BY <1>9, <2>1
  <2> QED
    BY <1>3, <2>1, <2>2, <2>3
<1> HIDE DEF D
<1>13. turn[n] \in D[n]
  BY <1>1, <1>11, <1>12, FoldKeeps
<1>14. turn[n] \in Y
  BY <1>1, <1>13 DEF D
<1> QED
  BY <1>10, <1>14 DEF Y

-----------------------------------------------------------------------------
(* Queries, and those asked again. *)

\* Pending revalidations Pe and queries Di take the place of those there were.
Asks(S, T, Pe, Di) ==
  /\ T.pending = Pe /\ T.discovery = Di
  /\ T.trusted = S.trusted /\ T.attached = S.attached /\ T.point = S.point
  /\ T.adapters = S.adapters /\ T.owners = S.owners /\ T.pools = S.pools /\ T.issued = S.issued
  /\ T.evidence = S.evidence /\ T.revalidation = S.revalidation
  /\ T.candidates = S.candidates /\ T.work = S.work

\* An EXCEPT of the two fields.
LEMMA AsksShape ==
  ASSUME NEW S \in State, NEW Pe \in SUBSET (PoolId \X OwnerId), NEW Di \in SUBSET Query
  PROVE  LET T == [S EXCEPT !.pending = Pe, !.discovery = Di] IN
         T \in State /\ Asks(S, T, Pe, Di)
<1> DEFINE T == [S EXCEPT !.pending = Pe, !.discovery = Di]
<1>1. T \in State
  BY DEF State
<1>2. Asks(S, T, Pe, Di)
  BY DEF State, Asks
<1> QED
  BY <1>1, <1>2

\* Each field alone.
LEMMA AsksEither ==
  ASSUME NEW S \in State, NEW Pe \in SUBSET (PoolId \X OwnerId), NEW Di \in SUBSET Query
  PROVE  /\ [S EXCEPT !.pending = Pe] \in State
         /\ Asks(S, [S EXCEPT !.pending = Pe], Pe, S.discovery)
         /\ [S EXCEPT !.discovery = Di] \in State
         /\ Asks(S, [S EXCEPT !.discovery = Di], S.pending, Di)
<1>1. [S EXCEPT !.pending = Pe] \in State /\ [S EXCEPT !.discovery = Di] \in State
  BY DEF State
<1>2. Asks(S, [S EXCEPT !.pending = Pe], Pe, S.discovery)
  BY DEF State, Asks
<1>3. Asks(S, [S EXCEPT !.discovery = Di], S.pending, Di)
  BY DEF State, Asks
<1> QED
  BY <1>1, <1>2, <1>3

\* Questions to active watchers about pools of their family keep ownership.
LEMMA AsksOwned ==
  ASSUME NEW S, NEW T \in State, Owned(S), NEW Pe, NEW Di, Asks(S, T, Pe, Di),
         \A x \in Pe : active_pool(S, x[1]) /\ Backs(S, x[2], x[1][1]),
         \A d \in Di : /\ active_discovery(S, d.owner)
                       /\ d.pool # None => /\ AdapterOf[d.owner[1]] = AdapterOf[d.pool[1]]
                                           /\ d.pool[2] <= S.issued[d.pool[1]]
  PROVE  Owned(T)
<1>1. /\ T.adapters = S.adapters /\ T.owners = S.owners /\ T.pools = S.pools /\ T.issued = S.issued
      /\ T.evidence = S.evidence /\ T.revalidation = S.revalidation
      /\ T.candidates = S.candidates /\ T.work = S.work /\ T.pending = Pe /\ T.discovery = Di
  BY DEF Asks
<1>2. LivesOK(T)
  BY <1>1 DEF Owned, LivesOK, active_adapter
<1>3. WorkOK(T)
  BY <1>1 DEF Owned, WorkOK, GoodWork, active_adapter, Backs, active_discovery
<1>4. CandidatesOK(T)
  BY <1>1 DEF Owned, CandidatesOK, GoodCandidate, Backs, active_discovery
<1>5. RecipesOK(T)
  BY <1>1 DEF Owned, RecipesOK, active_pool, Backs, active_discovery
<1>6. QueriesOK(T)
  BY <1>1 DEF QueriesOK, active_discovery
<1>7. PendingOK(T)
  BY <1>1 DEF PendingOK, active_pool, Backs, active_discovery
<1> QED
  BY <1>2, <1>3, <1>4, <1>5, <1>6, <1>7 DEF Owned

\* The questions of a sound record are in order.
LEMMA QuestionsThere ==
  ASSUME NEW S, Owned(S)
  PROVE  /\ \A x \in S.pending : /\ x[1] \in PoolId /\ x[2] \in OwnerId /\ x = <<x[1], x[2]>>
                                 /\ active_pool(S, x[1]) /\ Backs(S, x[2], x[1][1])
         /\ \A d \in S.discovery :
              /\ d \in Query /\ active_discovery(S, d.owner)
              /\ d.pool # None => /\ AdapterOf[d.owner[1]] = AdapterOf[d.pool[1]]
                                  /\ d.pool[2] <= S.issued[d.pool[1]]
<1>1. S.pending \in SUBSET (PoolId \X OwnerId) /\ S.discovery \in SUBSET Query
  BY Fields DEF Owned
<1> QED
  BY <1>1 DEF Owned, PendingOK, QueriesOK

\* queue_discovery keeps the record sound.
LEMMA QueueDiscoverySound ==
  ASSUME NEW S, NEW K, NEW W, NEW X, Sound(S, K, W, X), NEW o \in OwnerId,
         NEW limit \in Limits \cup {None}, active_discovery(S, o)
  PROVE  /\ Sound(queue_discovery(S, o, limit, None), K, W, X)
         /\ SameWatch(S, queue_discovery(S, o, limit, None))
<1> DEFINE d0 == [owner |-> o, baseline |-> S.point, limit |-> limit, pool |-> None]
           Di == S.discovery \cup {d0}
           T == queue_discovery(S, o, limit, None)
<1>1. S \in State /\ Owned(S)
  BY DEF Sound, Owned
<1>2. S.point \in Block /\ S.discovery \in SUBSET Query /\ S.pending \in SUBSET (PoolId \X OwnerId)
  BY <1>1, Fields
<1>3. d0 \in Query /\ d0.owner = o /\ d0.pool = None
  BY <1>2 DEF Query
<1> HIDE DEF d0
<1>4. T = [S EXCEPT !.discovery = Di]
  BY DEF queue_discovery, d0
<1>5. T \in State /\ Asks(S, T, S.pending, Di)
  <2>1. Di \in SUBSET Query
    BY <1>2, <1>3
  <2> HIDE DEF T, Di
  <2> QED
    BY <1>1, <1>2, <1>4, <2>1, AsksEither
<1> HIDE DEF T
<1>6. Owned(T)
  BY <1>1, <1>3, <1>5, AsksOwned, QuestionsThere
<1>7. ASSUME T.trusted PROVE Grounded(T, K, W, X)
  <2>1. Grounded(S, K, W, X)
    BY <1>5, <1>7 DEF Sound, Asks
  <2>2. \A id \in PoolId, p \in OwnerId : AskedOf(S, id, p) => AskedOf(T, id, p) \/ id[1] \in W
    BY <1>5 DEF AskedOf, Asks
  <2> QED
    BY <1>1, <1>5, <2>1, <2>2, GroundedFrame DEF Asks
<1> QED
  BY <1>5, <1>6, <1>7 DEF Sound, SameWatch, Asks, T

\* The turns of drain_revalidations over the pending keys of S.
Revalidates(S, K, W, X) ==
  {x \in [state : State, stop : BOOLEAN] :
     /\ Sound(x.state, K, W, X) /\ SameWatch(S, x.state)
     /\ x.state.pools = S.pools /\ x.state.issued = S.issued}

\* One turn of drain_revalidations: a key is asked, or waits, or trust is lost.
LEMMA RevalidateOne ==
  ASSUME NEW S, NEW K, NEW W, NEW X, Owned(S), NEW x \in Revalidates(S, K, W, X),
         NEW key \in S.pending, NEW ok \in BOOLEAN
  PROVE  revalidate_one(x, key, ok) \in Revalidates(S, K, W, X)
<1> DEFINE U == x.state
           D == Revalidates(S, K, W, X)
           unpend == [U EXCEPT !.pending = @ \ {key}]
           Q == queue_discovery(unpend, key[2], None, key[1])
           M == mark_untrusted(U)
           R == [state : State, stop : BOOLEAN]
<1>1. /\ x \in R /\ x.stop \in BOOLEAN /\ U \in State /\ Sound(U, K, W, X) /\ Owned(U)
      /\ SameWatch(S, U) /\ U.pools = S.pools /\ U.issued = S.issued
  BY DEF Revalidates, Sound
<1>2. /\ key[1] \in PoolId /\ key[2] \in OwnerId /\ key = <<key[1], key[2]>>
      /\ active_pool(S, key[1]) /\ Backs(S, key[2], key[1][1])
  BY QuestionsThere
<1>3. active_pool(U, key[1]) /\ Backs(U, key[2], key[1][1]) /\ active_discovery(U, key[2])
  BY <1>1, <1>2 DEF SameWatch, active_pool, Backs, active_discovery
<1>4. key[1][2] <= U.issued[key[1][1]]
  BY <1>1, <1>2, <1>3, Identities DEF Owned, LivesOK, active_pool
<1>5. M \in State /\ Sound(M, K, W, X) /\ SameWatch(S, M) /\ M.pools = S.pools /\ M.issued = S.issued
  BY <1>1, UntrustedSound, UntrustedShape DEF SameWatch
<1>6. Q \in State /\ Sound(Q, K, W, X) /\ SameWatch(S, Q) /\ Q.pools = S.pools /\ Q.issued = S.issued
  <2> DEFINE d0 == [owner |-> key[2], baseline |-> U.point, limit |-> None, pool |-> key[1]]
             Pe == U.pending \ {key}
             Di == U.discovery \cup {d0}
  <2>1. /\ U.point \in Block /\ U.discovery \in SUBSET Query
        /\ U.pending \in SUBSET (PoolId \X OwnerId)
    BY <1>1, Fields
  <2>2. d0 \in Query /\ d0.owner = key[2] /\ d0.pool = key[1]
    BY <1>2, <2>1 DEF Query
  <2>3. Q = [U EXCEPT !.pending = Pe, !.discovery = Di]
    <3>1. unpend = [U EXCEPT !.pending = Pe]
      OBVIOUS
    <3> HIDE DEF unpend, Pe
    <3>2. unpend.discovery = U.discovery /\ unpend.point = U.point
      BY <1>1, <3>1 DEF State
    <3>3. Q = [unpend EXCEPT !.discovery = Di]
      BY <3>2 DEF queue_discovery
    <3> HIDE DEF Di, Q
    <3> QED
      BY <1>1, <3>1, <3>3 DEF State
  <2> HIDE DEF d0, Q
  <2>4. Pe \in SUBSET (PoolId \X OwnerId) /\ Di \in SUBSET Query
    BY <2>1, <2>2
  <2> HIDE DEF Pe, Di
  <2>5. Q \in State /\ Asks(U, Q, Pe, Di)
    BY <1>1, <2>3, <2>4, AsksShape
  <2>6. \A z \in Pe : active_pool(U, z[1]) /\ Backs(U, z[2], z[1][1])
    BY <1>1, QuestionsThere DEF Pe
  <2>7. \A d \in Di : /\ active_discovery(U, d.owner)
                      /\ d.pool # None => /\ AdapterOf[d.owner[1]] = AdapterOf[d.pool[1]]
                                          /\ d.pool[2] <= U.issued[d.pool[1]]
    <3> SUFFICES ASSUME NEW d \in Di
                 PROVE  /\ active_discovery(U, d.owner)
                        /\ d.pool # None => /\ AdapterOf[d.owner[1]] = AdapterOf[d.pool[1]]
                                            /\ d.pool[2] <= U.issued[d.pool[1]]
      OBVIOUS
    <3>1. CASE d = d0
      BY <1>3, <1>4, <2>2, <3>1 DEF Backs
    <3>2. CASE d \in U.discovery
      BY <1>1, <3>2, QuestionsThere
    <3> QED
      BY <3>1, <3>2 DEF Di
  <2>8. Owned(Q)
    BY <1>1, <2>5, <2>6, <2>7, AsksOwned
  <2>9. /\ Q.trusted = U.trusted /\ Q.owners = U.owners /\ Q.pools = U.pools /\ Q.point = U.point
        /\ Q.issued = U.issued /\ Q.evidence = U.evidence /\ Q.revalidation = U.revalidation
        /\ Q.candidates = U.candidates /\ Q.work = U.work /\ Q.pending = Pe /\ Q.discovery = Di
    BY <2>5 DEF Asks
  <2>10. ASSUME Q.trusted PROVE Grounded(Q, K, W, X)
    <3>1. Grounded(U, K, W, X)
      BY <1>1, <2>9, <2>10 DEF Sound
    <3>2. ASSUME NEW id \in PoolId, NEW o \in OwnerId, AskedOf(U, id, o) PROVE AskedOf(Q, id, o)
      <4>1. CASE <<id, o>> = key
        <5>1. id = key[1] /\ o = key[2]
          BY <4>1
        <5>2. d0 \in Q.discovery
          BY <2>9 DEF Di
        <5> QED
          BY <2>2, <5>1, <5>2 DEF AskedOf
      <4>2. CASE <<id, o>> # key
        BY <2>9, <3>2, <4>2 DEF AskedOf, Pe, Di
      <4> QED
        BY <4>1, <4>2
    <3> QED
      BY <1>1, <2>5, <2>9, <3>1, <3>2, GroundedFrame
  <2> QED
    BY <1>1, <2>5, <2>8, <2>9, <2>10 DEF Sound, SameWatch
<1>7. revalidate_one(x, key, ok) =
        CASE x.stop -> x
          [] ~x.stop /\ ~active_pool(U, key[1]) -> [x EXCEPT !.state = unpend]
          [] ~x.stop /\ active_pool(U, key[1])
             /\ (~active_discovery(U, key[2]) \/ ~U.trusted) -> [x EXCEPT !.state = M, !.stop = TRUE]
          [] OTHER -> IF ok THEN [x EXCEPT !.state = Q] ELSE [x EXCEPT !.stop = TRUE]
  BY DEF revalidate_one
<1> DEFINE y0 == [x EXCEPT !.state = unpend]
           y1 == [x EXCEPT !.state = M, !.stop = TRUE]
           y2 == [x EXCEPT !.state = Q]
           y3 == [x EXCEPT !.stop = TRUE]
<1> HIDE DEF Q, M
<1>8. y1 \in R /\ y1.state = M /\ y2 \in R /\ y2.state = Q /\ y3 \in R /\ y3.state = U
  BY <1>1, <1>5, <1>6
<1> HIDE DEF y0, y1, y2, y3, U
<1>9. x \in D /\ y1 \in D /\ y2 \in D /\ y3 \in D
  BY <1>1, <1>5, <1>6, <1>8 DEF Revalidates
<1>10. revalidate_one(x, key, ok) \in {x, y1, y2, y3}
  <2>1. revalidate_one(x, key, ok) =
          CASE x.stop -> x
            [] ~x.stop /\ ~active_pool(U, key[1]) -> y0
            [] ~x.stop /\ active_pool(U, key[1])
               /\ (~active_discovery(U, key[2]) \/ ~U.trusted) -> y1
            [] OTHER -> IF ok THEN y2 ELSE y3
    BY <1>7 DEF y0, y1, y2, y3
  <2>2. U.trusted \in BOOLEAN
    BY <1>1, Fields
  <2>3. CASE x.stop
    BY <2>1, <2>3
  <2>4. CASE ~x.stop /\ ~U.trusted
    BY <1>3, <2>1, <2>4
  <2>5. CASE ~x.stop /\ U.trusted
    BY <1>3, <2>1, <2>5
  <2> QED
    BY <1>1, <2>2, <2>3, <2>4, <2>5
<1> QED
  BY <1>9, <1>10

\* There are finitely many identities.
LEMMA FiniteIds == IsFiniteSet(PoolId) /\ IsFiniteSet(OwnerId) /\ IsFiniteSet(PoolId \X OwnerId)
<1>1. IsFiniteSet(1..MaxGen)
  BY RegistrationAssumption, FS_Interval, 1 \in Int, MaxGen \in Int
<1>2. IsFiniteSet(PoolId) /\ IsFiniteSet(OwnerId)
  BY <1>1, RegistrationAssumption, FS_Product DEF PoolId, OwnerId
<1> QED
  BY <1>2, FS_Product

\* drain_revalidations keeps the record sound.
LEMMA RevalidateAll ==
  ASSUME NEW S, NEW K, NEW W, NEW X, Sound(S, K, W, X), NEW ok \in BOOLEAN
  PROVE  /\ Sound(drain_revalidations(S, ok), K, W, X)
         /\ SameWatch(S, drain_revalidations(S, ok))
<1> DEFINE keys == SetToSeq(S.pending)
           n == Len(keys)
           x0 == [state |-> S, stop |-> FALSE]
           Y == Revalidates(S, K, W, X)
           F == [i \in 1..n |-> [y \in Y |-> revalidate_one(y, keys[i], ok)]]
           turn == CHOOSE g : g = [i \in 0..n |-> IF i = 0 THEN x0
                                                  ELSE revalidate_one(g[i - 1], keys[i], ok)]
<1>1. S \in State /\ Owned(S) /\ S.pending \in SUBSET (PoolId \X OwnerId)
  BY Fields DEF Sound, Owned
<1>2. IsFiniteSet(S.pending)
  BY <1>1, FiniteIds, FS_Subset
<1>3. keys \in Seq(S.pending)
  BY <1>2, SetToSeqShape
<1>4. n \in Nat /\ \A i \in 1..n : keys[i] \in S.pending
  BY <1>3
<1>5. x0 \in Y
  <2>1. x0 \in [state : State, stop : BOOLEAN] /\ x0.state = S
    BY <1>1
  <2> HIDE DEF x0
  <2> QED
    BY <2>1 DEF Revalidates, SameWatch
<1> HIDE DEF n, keys, x0
<1>6. ASSUME NEW i \in 1..n, NEW y \in Y PROVE revalidate_one(y, keys[i], ok) \in Y
  BY <1>1, <1>4, RevalidateOne
<1> HIDE DEF Y
<1>7. F \in [1..n -> [Y -> Y]]
  BY <1>6
<1>8. PICK g : Iterates(g, n, Y, x0, F)
  <2> HIDE DEF F
  <2> QED
    BY <1>4, <1>5, <1>7, FoldExists
<1>9. g \in [0..n -> Y] /\ g[0] = x0 /\ \A i \in 1..n : g[i] = F[i][g[i - 1]]
  BY <1>8 DEF Iterates
<1>10. ASSUME NEW i \in 1..n PROVE g[i] = revalidate_one(g[i - 1], keys[i], ok)
  <2>1. i - 1 \in 0..n
    BY <1>4
  <2>2. g[i - 1] \in Y
    BY <1>9, <2>1
  <2> QED
    BY <1>9, <2>2
<1>11. g = [i \in 0..n |-> IF i = 0 THEN x0 ELSE revalidate_one(g[i - 1], keys[i], ok)]
  <2> DEFINE h == [i \in 0..n |-> IF i = 0 THEN x0 ELSE revalidate_one(g[i - 1], keys[i], ok)]
  <2>1. ASSUME NEW i \in 0..n PROVE g[i] = h[i]
    <3>1. CASE i = 0
      BY <1>9, <3>1
    <3>2. CASE i # 0
      <4>1. i \in 1..n
        BY <1>4, <3>2
      <4> QED
        BY <1>10, <3>2, <4>1
    <3> QED
      BY <3>1, <3>2
  <2>2. g = [i \in 0..n |-> g[i]] /\ h = [i \in 0..n |-> h[i]]
    BY <1>9
  <2> HIDE DEF h
  <2>3. g = h
    BY <2>1, <2>2
  <2> QED
    BY <2>3 DEF h
<1>12. turn = [i \in 0..n |-> IF i = 0 THEN x0 ELSE revalidate_one(turn[i - 1], keys[i], ok)]
  BY <1>11, Zenon
<1>13. drain_revalidations(S, ok) = IF S.attached THEN turn[n].state ELSE S
  BY Zenon DEF drain_revalidations, n, keys, x0
<1> HIDE DEF turn
<1> DEFINE D == [i \in 0..n |-> Y]
<1>14. turn[0] \in D[0]
  BY <1>4, <1>5, <1>12
<1>15. ASSUME NEW i \in 1..n, turn[i - 1] \in D[i - 1] PROVE turn[i] \in D[i]
  <2>1. i - 1 \in 0..n /\ i \in 0..n /\ i # 0
    BY <1>4
  <2>2. turn[i - 1] \in Y
    BY <1>15, <2>1
  <2>3. turn[i] = revalidate_one(turn[i - 1], keys[i], ok)
    BY <1>12, <2>1
  <2> QED
    BY <1>6, <2>1, <2>2, <2>3
<1> HIDE DEF D
<1>16. turn[n] \in D[n]
  BY <1>4, <1>14, <1>15, FoldKeeps
<1>17. turn[n] \in Y
  BY <1>4, <1>16 DEF D
<1>18. Sound(turn[n].state, K, W, X) /\ SameWatch(S, turn[n].state)
  BY <1>17 DEF Y, Revalidates
<1>19. SameWatch(S, S)
  BY DEF SameWatch
<1> QED
  BY <1>13, <1>18, <1>19

-----------------------------------------------------------------------------
(* Adapters and watchers. *)

\* Sound depends on these fields; the others, the worker and the point, are free.
LEMMA GroundedSame ==
  ASSUME NEW S, NEW T, NEW K, NEW W, NEW X, Grounded(S, K, W, X),
         T.pools = S.pools, T.evidence = S.evidence, T.revalidation = S.revalidation,
         T.pending = S.pending, T.discovery = S.discovery, T.candidates = S.candidates,
         T.work = S.work
  PROVE  Grounded(T, K, W, X)
<1>1. \A id, o : AskedOf(T, id, o) <=> AskedOf(S, id, o)
  BY DEF AskedOf
<1>2. \A id : GroundedPool(S, id, K, W, X) => GroundedPool(T, id, K, W, X)
  BY <1>1 DEF GroundedPool
<1>3. PoolsGrounded(T, K, W, X)
  BY <1>2 DEF Grounded, PoolsGrounded
<1>4. WorkGrounded(T, K, X) /\ CandidatesGrounded(T, K, X)
  BY DEF Grounded, WorkGrounded, CandidatesGrounded
<1> QED
  BY <1>3, <1>4 DEF Grounded

\* A family that is registered anew has nothing under its name yet.
LEMMA AddAdapterSound ==
  ASSUME NEW S, NEW K, NEW W, NEW X, Sound(S, K, W, X), NEW a \in Adapter,
         S.adapters[a] = 0, S.issued[a] < MaxGen
  PROVE  LET T == [S EXCEPT !.adapters[a] = next_generation(S, a), !.issued[a] = @ + 1] IN
         Sound(T, K, W, X) /\ SameWatch(S, T)
<1> DEFINE T == [S EXCEPT !.adapters[a] = next_generation(S, a), !.issued[a] = @ + 1]
           ad == [S.adapters EXCEPT ![a] = S.issued[a] + 1]
           is == [S.issued EXCEPT ![a] = S.issued[a] + 1]
<1>1. S \in State /\ Owned(S)
  BY DEF Sound, Owned
<1>2. T = [S EXCEPT !.adapters = ad, !.issued = is]
  BY <1>1 DEF State, next_generation
<1>3. /\ S.adapters \in [Adapter -> 0..MaxGen] /\ MaxGen \in Nat
      /\ S.issued \in [Adapter \cup Owner \cup Pool -> 0..MaxGen]
  BY <1>1, Fields, RegistrationAssumption
<1>4. ad \in [Adapter -> 0..MaxGen] /\ is \in [Adapter \cup Owner \cup Pool -> 0..MaxGen]
  BY <1>3
<1>5. /\ \A b \in Adapter : b # a => ad[b] = S.adapters[b]
      /\ \A p \in Pool : is[p] = S.issued[p]
  BY <1>3, RegistrationAssumption
<1> HIDE DEF T, ad, is
<1>6. T \in State
  BY <1>1, <1>2, <1>4 DEF State
<1>7. /\ T.adapters = ad /\ T.issued = is
      /\ T.trusted = S.trusted /\ T.point = S.point /\ T.owners = S.owners /\ T.pools = S.pools
      /\ T.evidence = S.evidence /\ T.revalidation = S.revalidation /\ T.pending = S.pending
      /\ T.candidates = S.candidates /\ T.work = S.work /\ T.discovery = S.discovery
  BY <1>1, <1>2 DEF State
<1>8. \A k \in Owner \cup Pool : AdapterOf[k] \in Adapter
  BY RegistrationAssumption
<1>9. LivesOK(T)
  BY <1>1, <1>5, <1>7, <1>8 DEF Owned, LivesOK, active_adapter
<1>10. WorkOK(T)
  BY <1>1, <1>5, <1>7, <1>8 DEF Owned, WorkOK, GoodWork, active_adapter, Backs, active_discovery
<1>11. CandidatesOK(T)
  BY <1>1, <1>7 DEF Owned, CandidatesOK, GoodCandidate, Backs, active_discovery
<1>12. RecipesOK(T)
  BY <1>1, <1>5, <1>7, Identities DEF Owned, RecipesOK, active_pool, Backs, active_discovery
<1>13. QueriesOK(T)
  <2>1. \A d \in S.discovery : d.pool \in {None} \cup PoolId
    BY <1>1, Fields, Parts
  <2> QED
    BY <1>1, <1>5, <1>7, <2>1, Identities DEF Owned, QueriesOK, active_discovery
<1>14. PendingOK(T)
  BY <1>1, <1>7 DEF Owned, PendingOK, active_pool, Backs, active_discovery
<1>15. Owned(T)
  BY <1>6, <1>9, <1>10, <1>11, <1>12, <1>13, <1>14 DEF Owned
<1> QED
  BY <1>7, <1>15, GroundedSame DEF Sound, SameWatch, T

\* A family without pools and watchers goes with its work.
LEMMA RemoveAdapterSound ==
  ASSUME NEW S, NEW K, NEW W, NEW X, Sound(S, K, W, X), NEW a \in Adapter,
         pools_for_adapter(S, a) = {}, discovery_for_adapter(S, a) = {}
  PROVE  LET T == [detach_pool_work(S, {p \in Pool : AdapterOf[p] = a}) EXCEPT !.adapters[a] = 0] IN
         Sound(T, K, W, X) /\ SameWatch(S, T)
<1> DEFINE P == {p \in Pool : AdapterOf[p] = a}
           R == detach_pool_work(S, P)
           T == [R EXCEPT !.adapters[a] = 0]
           ad == [R.adapters EXCEPT ![a] = 0]
<1>1. S \in State
  BY DEF Sound, Owned
<1>2. /\ R \in State /\ SameButWork(S, R)
      /\ R.work = [p \in Pool |-> IF p \in P THEN NoWork ELSE S.work[p]]
  BY <1>1, DetachShape
<1>3. Sound(R, K, W, X) /\ Owned(R)
  BY DetachSound DEF Sound
<1> HIDE DEF R
<1>4. T = [R EXCEPT !.adapters = ad]
  BY <1>2 DEF State
<1>5. ad \in [Adapter -> 0..MaxGen] /\ \A b \in Adapter : b # a => ad[b] = R.adapters[b]
  BY <1>2, Fields, RegistrationAssumption
<1> HIDE DEF T, ad
<1>6. T \in State
  BY <1>2, <1>4, <1>5 DEF State
<1>7. /\ T.adapters = ad /\ T.issued = R.issued
      /\ T.trusted = R.trusted /\ T.point = R.point /\ T.owners = R.owners /\ T.pools = R.pools
      /\ T.evidence = R.evidence /\ T.revalidation = R.revalidation /\ T.pending = R.pending
      /\ T.candidates = R.candidates /\ T.work = R.work /\ T.discovery = R.discovery
  BY <1>2, <1>4 DEF State
<1>8. \A k \in Owner \cup Pool : AdapterOf[k] \in Adapter
  BY RegistrationAssumption
<1>9. /\ \A o \in Owner : R.owners[o].gen > 0 => AdapterOf[o] # a
      /\ \A p \in Pool : R.pools[p].gen > 0 => AdapterOf[p] # a
      /\ \A p \in Pool : R.work[p] # NoWork => AdapterOf[p] # a
  BY <1>2 DEF SameButWork, pools_for_adapter, discovery_for_adapter
<1>10. LivesOK(T)
  BY <1>3, <1>5, <1>7, <1>8, <1>9 DEF Owned, LivesOK, active_adapter
<1>11. WorkOK(T)
  BY <1>3, <1>5, <1>7, <1>8, <1>9 DEF Owned, WorkOK, GoodWork, active_adapter, Backs, active_discovery
<1>12. CandidatesOK(T)
  BY <1>3, <1>7 DEF Owned, CandidatesOK, GoodCandidate, Backs, active_discovery
<1>13. RecipesOK(T)
  BY <1>3, <1>7 DEF Owned, RecipesOK, active_pool, Backs, active_discovery
<1>14. QueriesOK(T)
  BY <1>3, <1>7 DEF Owned, QueriesOK, active_discovery
<1>15. PendingOK(T)
  BY <1>3, <1>7 DEF Owned, PendingOK, active_pool, Backs, active_discovery
<1>16. Owned(T)
  BY <1>6, <1>10, <1>11, <1>12, <1>13, <1>14, <1>15 DEF Owned
<1>17. SameWatch(S, T)
  BY <1>2, <1>7 DEF SameWatch, SameButWork
<1>18. Sound(T, K, W, X)
  BY <1>3, <1>7, <1>16, GroundedSame DEF Sound
<1> QED
  BY <1>17, <1>18 DEF T, R

\* A new watcher is nobody's yet.
LEMMA AddWatcherSound ==
  ASSUME NEW S, NEW K, NEW W, NEW X, Sound(S, K, W, X), NEW k \in Owner,
         S.owners[k].gen = 0, active_adapter(S, k) > 0, S.issued[k] < MaxGen
  PROVE  LET T == [S EXCEPT !.owners[k] = [gen |-> next_generation(S, k),
                                           adapter |-> active_adapter(S, k)],
                            !.issued[k] = @ + 1] IN
         Sound(T, K, W, X) /\ T.point = S.point /\ T.trusted = S.trusted
<1> DEFINE new == [gen |-> S.issued[k] + 1, adapter |-> active_adapter(S, k)]
           T == [S EXCEPT !.owners[k] = [gen |-> next_generation(S, k),
                                         adapter |-> active_adapter(S, k)],
                          !.issued[k] = @ + 1]
           ow == [S.owners EXCEPT ![k] = new]
           is == [S.issued EXCEPT ![k] = S.issued[k] + 1]
<1>1. S \in State /\ Owned(S)
  BY DEF Sound, Owned
<1>2. T = [S EXCEPT !.owners = ow, !.issued = is]
  BY <1>1 DEF State, next_generation
<1>3. /\ S.owners \in [Owner -> Life] /\ MaxGen \in Nat
      /\ S.issued \in [Adapter \cup Owner \cup Pool -> 0..MaxGen]
      /\ active_adapter(S, k) \in 0..MaxGen
  BY <1>1, Fields, Lives, RegistrationAssumption
<1>4. is \in [Adapter \cup Owner \cup Pool -> 0..MaxGen]
  BY <1>3
<1>5. new \in Life /\ new.adapter = active_adapter(S, k)
  BY <1>3 DEF Life
<1> HIDE DEF new
<1>6. /\ ow \in [Owner -> Life] /\ ow[k] = new
      /\ \A o \in Owner : o # k => ow[o] = S.owners[o]
  BY <1>3, <1>5
<1>7. \A p \in Pool : is[p] = S.issued[p]
  BY <1>3, RegistrationAssumption
<1> HIDE DEF T, ow, is
<1>8. T \in State
  BY <1>1, <1>2, <1>4, <1>6 DEF State
<1>9. /\ T.owners = ow /\ T.issued = is
      /\ T.trusted = S.trusted /\ T.point = S.point /\ T.adapters = S.adapters /\ T.pools = S.pools
      /\ T.evidence = S.evidence /\ T.revalidation = S.revalidation /\ T.pending = S.pending
      /\ T.candidates = S.candidates /\ T.work = S.work /\ T.discovery = S.discovery
  BY <1>1, <1>2 DEF State
<1>10. \A o \in OwnerId : active_discovery(S, o) => active_discovery(T, o)
  BY <1>6, <1>9, Identities DEF active_discovery
<1>11. \A o \in OwnerId : \A p : Backs(S, o, p) => Backs(T, o, p)
  BY <1>10 DEF Backs
<1>12. LivesOK(T)
  <2>1. \A o \in Owner : active_adapter(T, o) = active_adapter(S, o)
    BY <1>9 DEF active_adapter
  <2>2. \A p \in Pool : active_adapter(T, p) = active_adapter(S, p)
    BY <1>9 DEF active_adapter
  <2> QED
    BY <1>1, <1>5, <1>6, <1>7, <1>9, <2>1, <2>2 DEF Owned, LivesOK
<1>13. WorkOK(T)
  <2>1. \A p \in Pool : S.work[p].support \subseteq OwnerId
    BY <1>1, Fields, Parts
  <2>2. \A p \in Pool : active_adapter(T, p) = active_adapter(S, p)
    BY <1>9 DEF active_adapter
  <2>3. \A p \in Pool : GoodWork(S, p, S.work[p]) => GoodWork(T, p, S.work[p])
    BY <1>7, <1>9, <1>11, <2>1, <2>2 DEF GoodWork
  <2> QED
    BY <1>1, <1>9, <2>3 DEF Owned, WorkOK
<1>14. CandidatesOK(T)
  <2>1. S.candidates \in Seq(Cand)
    BY <1>1, Fields
  <2>2. \A i \in 1..Len(S.candidates) : S.candidates[i].owner \in OwnerId
    BY <2>1, Parts
  <2>3. \A i \in 1..Len(S.candidates) : GoodCandidate(S, S.candidates[i]) => GoodCandidate(T, S.candidates[i])
    BY <1>11, <2>2 DEF GoodCandidate
  <2> QED
    BY <1>1, <1>9, <2>3 DEF Owned, CandidatesOK
<1>15. RecipesOK(T)
  <2>1. \A id \in PoolId : S.revalidation[id] \subseteq OwnerId
    BY <1>1, Fields
  <2> QED
    BY <1>1, <1>7, <1>9, <1>11, <2>1, Identities DEF Owned, RecipesOK, active_pool
<1>16. QueriesOK(T)
  <2>1. \A d \in S.discovery : d.pool \in {None} \cup PoolId /\ d.owner \in OwnerId
    BY <1>1, Fields, Parts
  <2> QED
    BY <1>1, <1>7, <1>9, <1>10, <2>1, Identities DEF Owned, QueriesOK
<1>17. PendingOK(T)
  <2>1. \A x \in S.pending : x[2] \in OwnerId
    BY <1>1, QuestionsThere
  <2> QED
    BY <1>1, <1>9, <1>11, <2>1 DEF Owned, PendingOK, active_pool
<1>18. Owned(T)
  BY <1>8, <1>12, <1>13, <1>14, <1>15, <1>16, <1>17 DEF Owned
<1> QED
  BY <1>9, <1>18, GroundedSame DEF Sound, T

\* The actor without family a: gone are its watchers, ids its pools.
Cascades(S, T, a, gone, ids) ==
  /\ T.adapters = [S.adapters EXCEPT ![a] = 0]
  /\ T.owners = [o \in Owner |-> IF AdapterOf[o] = a THEN Absent ELSE S.owners[o]]
  /\ T.pools = [p \in Pool |-> IF AdapterOf[p] = a THEN Absent ELSE S.pools[p]]
  /\ T.work = [p \in Pool |-> IF AdapterOf[p] = a THEN NoWork ELSE S.work[p]]
  /\ T.evidence = [i \in PoolId |-> IF i \in ids THEN {} ELSE S.evidence[i]]
  /\ T.revalidation = [i \in PoolId |-> IF i \in ids THEN {} ELSE S.revalidation[i]]
  /\ T.pending = {x \in S.pending : x[1] \notin ids}
  /\ T.discovery = {d \in S.discovery : d.owner \notin gone}
  /\ T.candidates = retain(S.candidates, {c \in Range(S.candidates) : c.owner \notin gone})
  /\ T.trusted = S.trusted /\ T.point = S.point /\ T.issued = S.issued

\* What remove_adapter_cascade makes of the record, field by field.
LEMMA CascadeShape ==
  ASSUME NEW S \in State, NEW a \in Adapter, NEW gone, NEW ids
  PROVE  LET T == [detach_pool_work(S, {p \in Pool : AdapterOf[p] = a}) EXCEPT
                    !.adapters[a] = 0,
                    !.owners = [o \in Owner |-> IF AdapterOf[o] = a THEN Absent ELSE @[o]],
                    !.pools = [p \in Pool |-> IF AdapterOf[p] = a THEN Absent ELSE @[p]],
                    !.evidence = [i \in PoolId |-> IF i \in ids THEN {} ELSE @[i]],
                    !.revalidation = [i \in PoolId |-> IF i \in ids THEN {} ELSE @[i]],
                    !.pending = {x \in @ : x[1] \notin ids},
                    !.discovery = {d \in @ : d.owner \notin gone},
                    !.candidates = retain(@, {c \in Range(@) : c.owner \notin gone})] IN
         T \in State /\ Cascades(S, T, a, gone, ids)
<1> DEFINE P == {p \in Pool : AdapterOf[p] = a}
           R == detach_pool_work(S, P)
           ad == [S.adapters EXCEPT ![a] = 0]
           ow == [o \in Owner |-> IF AdapterOf[o] = a THEN Absent ELSE S.owners[o]]
           po == [p \in Pool |-> IF AdapterOf[p] = a THEN Absent ELSE S.pools[p]]
           ev == [i \in PoolId |-> IF i \in ids THEN {} ELSE S.evidence[i]]
           rv == [i \in PoolId |-> IF i \in ids THEN {} ELSE S.revalidation[i]]
           pe == {x \in S.pending : x[1] \notin ids}
           di == {d \in S.discovery : d.owner \notin gone}
           ca == retain(S.candidates, {c \in Range(S.candidates) : c.owner \notin gone})
           T == [R EXCEPT
                    !.adapters[a] = 0,
                    !.owners = [o \in Owner |-> IF AdapterOf[o] = a THEN Absent ELSE @[o]],
                    !.pools = [p \in Pool |-> IF AdapterOf[p] = a THEN Absent ELSE @[p]],
                    !.evidence = [i \in PoolId |-> IF i \in ids THEN {} ELSE @[i]],
                    !.revalidation = [i \in PoolId |-> IF i \in ids THEN {} ELSE @[i]],
                    !.pending = {x \in @ : x[1] \notin ids},
                    !.discovery = {d \in @ : d.owner \notin gone},
                    !.candidates = retain(@, {c \in Range(@) : c.owner \notin gone})]
<1>1. /\ R \in State /\ SameButWork(S, R)
      /\ R.work = [p \in Pool |-> IF p \in P THEN NoWork ELSE S.work[p]]
  BY DetachShape
<1> HIDE DEF R
<1>2. /\ R.trusted = S.trusted /\ R.point = S.point /\ R.adapters = S.adapters /\ R.owners = S.owners
      /\ R.pools = S.pools /\ R.issued = S.issued /\ R.evidence = S.evidence
      /\ R.revalidation = S.revalidation /\ R.pending = S.pending /\ R.candidates = S.candidates
      /\ R.discovery = S.discovery
      /\ R.work = [p \in Pool |-> IF AdapterOf[p] = a THEN NoWork ELSE S.work[p]]
  BY <1>1 DEF SameButWork
<1>3. T = [R EXCEPT !.adapters = ad, !.owners = ow, !.pools = po, !.evidence = ev,
                    !.revalidation = rv, !.pending = pe, !.discovery = di, !.candidates = ca]
  BY <1>1, <1>2 DEF State
<1>4. /\ ad \in [Adapter -> 0..MaxGen] /\ ow \in [Owner -> Life] /\ po \in [Pool -> Life]
      /\ ev \in [PoolId -> SUBSET Evidence] /\ rv \in [PoolId -> SUBSET OwnerId]
      /\ pe \in SUBSET (PoolId \X OwnerId) /\ di \in SUBSET Query
  BY Fields, AbsentLife, RegistrationAssumption
<1>5. ca \in Seq(Cand)
  BY Fields, RetainShape
<1> HIDE DEF T, ad, ow, po, ev, rv, pe, di, ca
<1>6. T \in State
  BY <1>1, <1>3, <1>4, <1>5 DEF State
<1>7. /\ T.adapters = ad /\ T.owners = ow /\ T.pools = po /\ T.evidence = ev
      /\ T.revalidation = rv /\ T.pending = pe /\ T.discovery = di /\ T.candidates = ca
      /\ T.trusted = R.trusted /\ T.point = R.point /\ T.issued = R.issued /\ T.work = R.work
  BY <1>1, <1>3 DEF State
<1>8. Cascades(S, T, a, gone, ids)
  BY <1>2, <1>7 DEF Cascades, ad, ow, po, ev, rv, pe, di, ca
<1> QED
  BY <1>6, <1>8 DEF T, R

\* The cascade leaves nothing of the family behind.
LEMMA CascadeSound ==
  ASSUME NEW S, NEW T \in State, NEW K, NEW W, NEW X, Sound(S, K, W, X), NEW a \in Adapter,
         Cascades(S, T, a, {<<o, S.owners[o].gen>> : o \in discovery_for_adapter(S, a)},
                           {<<p, S.pools[p].gen>> : p \in pools_for_adapter(S, a)})
  PROVE  Sound(T, K, W, X)
<1> DEFINE gone == {<<o, S.owners[o].gen>> : o \in discovery_for_adapter(S, a)}
           ids == {<<p, S.pools[p].gen>> : p \in pools_for_adapter(S, a)}
<1>1. S \in State /\ Owned(S)
  BY DEF Sound, Owned
<1>2. \A o \in OwnerId : active_discovery(S, o) /\ AdapterOf[o[1]] = a => o \in gone
  <2> SUFFICES ASSUME NEW o \in OwnerId, active_discovery(S, o), AdapterOf[o[1]] = a
               PROVE  o \in gone
    OBVIOUS
  <2>1. o[1] \in Owner /\ o[2] \in 1..MaxGen /\ o = <<o[1], o[2]>> /\ S.owners[o[1]].gen = o[2]
    BY Identities DEF active_discovery
  <2>2. o[1] \in discovery_for_adapter(S, a)
    BY <2>1 DEF discovery_for_adapter
  <2> QED
    BY <2>1, <2>2
<1>3. \A i \in PoolId : active_pool(S, i) /\ AdapterOf[i[1]] = a => i \in ids
  <2> SUFFICES ASSUME NEW i \in PoolId, active_pool(S, i), AdapterOf[i[1]] = a
               PROVE  i \in ids
    OBVIOUS
  <2>1. i[1] \in Pool /\ i[2] \in 1..MaxGen /\ i = <<i[1], i[2]>> /\ S.pools[i[1]].gen = i[2]
    BY Identities DEF active_pool
  <2>2. i[1] \in pools_for_adapter(S, a)
    BY <2>1 DEF pools_for_adapter
  <2> QED
    BY <2>1, <2>2
<1>4. \A i \in ids : AdapterOf[i[1]] = a
  BY DEF pools_for_adapter
<1>5. Cascades(S, T, a, gone, ids)
  OBVIOUS
<1> HIDE DEF gone, ids
<1>6. /\ \A o \in Owner : AdapterOf[o] # a => T.owners[o] = S.owners[o]
      /\ \A o \in Owner : AdapterOf[o] = a => T.owners[o].gen = 0
      /\ \A p \in Pool : AdapterOf[p] # a => T.pools[p] = S.pools[p] /\ T.work[p] = S.work[p]
      /\ \A p \in Pool : AdapterOf[p] = a => T.pools[p].gen = 0 /\ T.work[p] = NoWork
      /\ \A b \in Adapter : b # a => T.adapters[b] = S.adapters[b]
      /\ T.issued = S.issued /\ T.trusted = S.trusted
  BY <1>1, <1>5, Fields, AbsentLife DEF Cascades
<1>7. \A i \in PoolId : AdapterOf[i[1]] # a =>
        T.evidence[i] = S.evidence[i] /\ T.revalidation[i] = S.revalidation[i]
  BY <1>4, <1>5 DEF Cascades
<1>8. \A k \in Owner \cup Pool : AdapterOf[k] \in Adapter
  BY RegistrationAssumption
<1>9. \A o \in OwnerId, p \in Pool : Backs(S, o, p) /\ AdapterOf[p] # a => Backs(T, o, p)
  BY <1>6, Identities DEF Backs, active_discovery
<1>10. \A o \in OwnerId : active_discovery(S, o) /\ o \notin gone =>
         active_discovery(T, o) /\ AdapterOf[o[1]] # a
  BY <1>2, <1>6, Identities DEF active_discovery
<1>11. \A p \in Pool : AdapterOf[p] # a => active_adapter(T, p) = active_adapter(S, p)
  BY <1>6, <1>8 DEF active_adapter
<1>12. \A o \in Owner : AdapterOf[o] # a => active_adapter(T, o) = active_adapter(S, o)
  BY <1>6, <1>8 DEF active_adapter
<1>13. LivesOK(T)
  <2>1. \A p \in Pool : S.issued[p] \in 0..MaxGen
    BY <1>1, Lives
  <2> QED
    BY <1>1, <1>6, <1>11, <1>12, <2>1 DEF Owned, LivesOK
<1>14. WorkOK(T)
  <2> SUFFICES ASSUME NEW p \in Pool, T.work[p] # NoWork PROVE GoodWork(T, p, T.work[p])
    BY DEF WorkOK
  <2>1. AdapterOf[p] # a /\ T.work[p] = S.work[p] /\ T.pools[p] = S.pools[p]
    BY <1>6
  <2>2. GoodWork(S, p, S.work[p])
    BY <1>1, <2>1 DEF Owned, WorkOK
  <2>3. S.work[p].support \subseteq OwnerId
    BY <1>1, Fields, Parts
  <2> QED
    BY <1>6, <1>9, <1>11, <2>1, <2>2, <2>3 DEF GoodWork
<1> DEFINE KK == {c \in Range(S.candidates) : c.owner \notin gone}
<1>15. /\ S.candidates \in Seq(Cand) /\ Len(S.candidates) <= MaxPending
       /\ \A i \in 1..Len(S.candidates) : FitCandidate(S, S.candidates[i], K, X)
  BY QueueFit
<1>16. /\ T.candidates \in Seq(Cand) /\ Len(T.candidates) <= Len(S.candidates)
       /\ \A i \in 1..Len(T.candidates) :
            /\ T.candidates[i] \in KK
            /\ \E j \in 1..Len(S.candidates) : S.candidates[j] = T.candidates[i]
  <2>1. T.candidates = retain(S.candidates, KK)
    BY <1>5 DEF Cascades
  <2> HIDE DEF KK
  <2> QED
    BY <1>15, <2>1, RetainShape
<1>17. \A i \in 1..Len(T.candidates) :
         T.candidates[i].owner \notin gone /\ FitCandidate(S, T.candidates[i], K, X)
  BY <1>15, <1>16
<1>18. \A i \in 1..Len(T.candidates) : FitCandidate(T, T.candidates[i], K, X)
  <2> SUFFICES ASSUME NEW i \in 1..Len(T.candidates) PROVE FitCandidate(T, T.candidates[i], K, X)
    OBVIOUS
  <2> DEFINE c == T.candidates[i]
  <2>1. c.owner \notin gone /\ FitCandidate(S, c, K, X)
    BY <1>17
  <2> HIDE DEF c
  <2>2. c \in Cand /\ c.owner \in OwnerId /\ GoodCandidate(S, c)
    BY <2>1, Parts DEF FitCandidate
  <2>3. GoodCandidate(T, c)
    BY <1>10, <2>1, <2>2 DEF GoodCandidate, Backs
  <2>4. FitCandidate(T, c, K, X)
    BY <1>6, <2>1, <2>2, <2>3 DEF FitCandidate
  <2> QED
    BY <2>4 DEF c
<1>19. CandidatesOK(T)
  <2>1. Len(T.candidates) \in Nat /\ Len(S.candidates) \in Nat /\ MaxPending \in Nat
    BY <1>15, <1>16, RegistrationAssumption
  <2>2. Len(T.candidates) <= MaxPending
    BY <1>15, <1>16, <2>1
  <2> QED
    BY <1>18, <2>2 DEF CandidatesOK, FitCandidate
<1>20. RecipesOK(T)
  <2> SUFFICES ASSUME NEW i \in PoolId
               PROVE  /\ T.revalidation[i] # {} => i[2] <= T.issued[i[1]]
                      /\ active_pool(T, i) => \A o \in T.revalidation[i] :
                           /\ Backs(T, o, i[1])
                           /\ evidence_contains_state_query_owner(T.evidence[i], o)
    BY DEF RecipesOK
  <2>1. i[1] \in Pool /\ i[2] \in 1..MaxGen
    BY Identities
  <2>2. T.revalidation[i] \subseteq S.revalidation[i] /\ S.revalidation[i] \subseteq OwnerId
    BY <1>1, <1>5, Fields DEF Cascades
  <2>3. T.revalidation[i] # {} => i[2] <= T.issued[i[1]]
    BY <1>1, <1>6, <2>2 DEF Owned, RecipesOK
  <2>4. ASSUME active_pool(T, i), NEW o \in T.revalidation[i]
        PROVE  Backs(T, o, i[1]) /\ evidence_contains_state_query_owner(T.evidence[i], o)
    <3>1. AdapterOf[i[1]] # a /\ active_pool(S, i)
      BY <1>6, <2>1, <2>4 DEF active_pool
    <3>2. Backs(S, o, i[1]) /\ evidence_contains_state_query_owner(S.evidence[i], o)
      BY <1>1, <2>2, <2>4, <3>1 DEF Owned, RecipesOK
    <3> QED
      BY <1>7, <1>9, <2>1, <2>2, <2>4, <3>1, <3>2
  <2> QED
    BY <2>3, <2>4
<1>21. QueriesOK(T)
  <2>1. \A d \in T.discovery : d \in S.discovery /\ d.owner \notin gone
    BY <1>5 DEF Cascades
  <2>2. \A d \in S.discovery : d.owner \in OwnerId
    BY <1>1, Fields, Parts
  <2> QED
    BY <1>1, <1>6, <1>10, <2>1, <2>2 DEF Owned, QueriesOK
<1>22. PendingOK(T)
  <2> SUFFICES ASSUME NEW x \in T.pending PROVE active_pool(T, x[1]) /\ Backs(T, x[2], x[1][1])
    BY DEF PendingOK
  <2>1. x \in S.pending /\ x[1] \notin ids
    BY <1>5 DEF Cascades
  <2>2. x[1] \in PoolId /\ x[2] \in OwnerId /\ active_pool(S, x[1]) /\ Backs(S, x[2], x[1][1])
    BY <1>1, <2>1, QuestionsThere
  <2>3. AdapterOf[x[1][1]] # a /\ x[1][1] \in Pool
    BY <1>3, <2>1, <2>2, Identities
  <2> QED
    BY <1>6, <1>9, <2>2, <2>3 DEF active_pool
<1>23. Owned(T)
  BY <1>13, <1>14, <1>19, <1>20, <1>21, <1>22 DEF Owned
<1>24. ASSUME T.trusted PROVE Grounded(T, K, W, X)
  <2>1. Grounded(S, K, W, X)
    BY <1>6, <1>24 DEF Sound
  <2>2. PoolsGrounded(T, K, W, X)
    <3> SUFFICES ASSUME NEW q \in Pool, T.pools[q].gen > 0
                 PROVE  GroundedPool(T, <<q, T.pools[q].gen>>, K, W, X)
      BY DEF PoolsGrounded
    <3>1. AdapterOf[q] # a /\ T.pools[q] = S.pools[q] /\ S.pools[q].gen \in 1..MaxGen
      BY <1>1, <1>6, Lives
    <3> DEFINE i == <<q, S.pools[q].gen>>
    <3>2. i \in PoolId /\ i[1] = q /\ i[2] = S.pools[q].gen
      BY <3>1, Identities
    <3>3. GroundedPool(S, i, K, W, X)
      BY <2>1, <3>1 DEF Grounded, PoolsGrounded
    <3>4. active_pool(S, i)
      BY <3>2 DEF active_pool
    <3> HIDE DEF i
    <3>5. T.evidence[i] = S.evidence[i] /\ T.revalidation[i] = S.revalidation[i]
      BY <1>7, <3>1, <3>2
    <3>6. \A o \in S.revalidation[i] : o \in OwnerId /\ active_discovery(S, o) /\ AdapterOf[o[1]] # a
      <4>1. S.revalidation[i] \subseteq OwnerId
        BY <1>1, <3>2, Fields
      <4> QED
        BY <1>1, <3>1, <3>2, <3>4, <4>1 DEF Owned, RecipesOK, Backs
    <3>7. \A o \in S.revalidation[i] : AskedOf(S, i, o) => AskedOf(T, i, o)
      <4> SUFFICES ASSUME NEW o \in S.revalidation[i], AskedOf(S, i, o) PROVE AskedOf(T, i, o)
        OBVIOUS
      <4>1. o \in OwnerId /\ AdapterOf[o[1]] # a
        BY <3>6
      <4>2. CASE <<i, o>> \in S.pending
        <5>1. i \notin ids
          BY <1>4, <3>1, <3>2
        <5>2. <<i, o>> \in T.pending
          BY <1>5, <4>2, <5>1 DEF Cascades
        <5> QED
          BY <5>2 DEF AskedOf
      <4>3. CASE \E d \in S.discovery : d.pool = i /\ d.owner = o
        <5>1. PICK d \in S.discovery : d.pool = i /\ d.owner = o
          BY <4>3
        <5>2. o \notin gone
          BY <4>1 DEF gone, discovery_for_adapter
        <5>3. d \in T.discovery
          BY <1>5, <5>1, <5>2 DEF Cascades
        <5> QED
          BY <5>1, <5>3 DEF AskedOf
      <4> QED
        BY <4>2, <4>3 DEF AskedOf
    <3>8. GroundedPool(T, i, K, W, X)
      BY <3>3, <3>5, <3>7 DEF GroundedPool
    <3> QED
      BY <3>1, <3>8 DEF i
  <2>3. WorkGrounded(T, K, X)
    <3> SUFFICES ASSUME NEW p \in Pool, T.work[p] # NoWork PROVE GroundedWork(p, T.work[p], K, X)
      BY DEF WorkGrounded
    <3>1. T.work[p] = S.work[p]
      BY <1>6
    <3> QED
      BY <2>1, <3>1 DEF Grounded, WorkGrounded
  <2>4. CandidatesGrounded(T, K, X)
    BY <1>18, <1>24 DEF FitCandidate, CandidatesGrounded
  <2> QED
    BY <2>2, <2>3, <2>4 DEF Grounded
<1> QED
  BY <1>23, <1>24 DEF Sound

\* The actor without watcher o, of key k.
Unwatches(S, T, k, o) ==
  /\ T.owners = [S.owners EXCEPT ![k] = Absent]
  /\ T.candidates = retain(S.candidates, {c \in Range(S.candidates) : c.owner # o})
  /\ T.discovery = {d \in S.discovery : d.owner # o}
  /\ T.work = [p \in Pool |-> IF p \in {q \in Pool : S.work[q].support = {o}} THEN NoWork
                              ELSE without_supporter(S.work[p], o)]
  /\ T.pending = {x \in S.pending : x[2] # o}
  /\ T.revalidation = [i \in PoolId |-> S.revalidation[i] \ {o}]
  /\ T.evidence = [i \in PoolId |-> evidence_without_owner(S.evidence[i], o)]
  /\ T.trusted = S.trusted /\ T.point = S.point /\ T.issued = S.issued
  /\ T.adapters = S.adapters /\ T.pools = S.pools

\* What losing a supporter leaves of a work that has others.
LEMMA WithoutSupporter ==
  ASSUME NEW w \in Work, NEW o \in OwnerId
  PROVE  LET v == without_supporter(w, o)
             E == evidence_without_owner(w.evidence, o)
         IN  /\ v \in Work
             /\ o \notin w.support => v = w
             /\ o \in w.support =>
                  /\ v.gen = w.gen /\ v.adapter = w.adapter
                  /\ v.support = w.support \ {o} /\ v.revalidations = w.revalidations \ {o}
                  /\ v.evidence = (IF E = {} THEN w.evidence ELSE E)
                  /\ w.support \ {o} # {} => v.owner = w.owner \/ v.owner \in OwnerId
<1> DEFINE v == without_supporter(w, o)
           E == evidence_without_owner(w.evidence, o)
           rest == w.support \ {o}
           ev == IF E = {} THEN w.evidence ELSE E
           ow == IF w.owner # o THEN w.owner ELSE IF rest = {} THEN None ELSE CHOOSE x \in rest : TRUE
           rv == w.revalidations \ {o}
<1>1. CASE o \notin w.support
  BY <1>1 DEF without_supporter
<1>2. CASE o \in w.support
  <2>1. v = [w EXCEPT !.support = rest, !.revalidations = rv, !.evidence = ev, !.owner = ow]
    BY <1>2 DEF without_supporter, Work
  <2>2. rest # {} => (CHOOSE x \in rest : TRUE) \in rest
    BY Zenon
  <2>3. ow \in {None} \cup OwnerId /\ (rest # {} => ow = w.owner \/ ow \in OwnerId)
    BY <2>2, Parts
  <2>4. rest \in SUBSET OwnerId /\ rv \in SUBSET OwnerId /\ ev \in SUBSET Evidence
    BY Parts DEF evidence_without_owner
  <2> HIDE DEF v, E, rest, ev, ow, rv
  <2>5. v \in Work
    BY <2>1, <2>3, <2>4 DEF Work
  <2>6. /\ v.gen = w.gen /\ v.adapter = w.adapter /\ v.support = rest /\ v.revalidations = rv
        /\ v.evidence = ev /\ v.owner = ow
    BY <2>1 DEF Work
  <2> QED
    BY <1>2, <2>3, <2>5, <2>6 DEF v, E, rest, ev, rv
<1> QED
  BY <1>1, <1>2

\* The record remove_factory_watcher makes.
LEMMA UnwatchShape ==
  ASSUME NEW S \in State, NEW k \in Owner, NEW o \in OwnerId
  PROVE  LET T == [S EXCEPT
                 !.owners[k] = Absent,
                 !.candidates = retain(@, {c \in Range(@) : c.owner # o}),
                 !.discovery = {d \in @ : d.owner # o},
                 !.work = [p \in Pool |-> IF p \in {q \in Pool : S.work[q].support = {o}} THEN NoWork
                                          ELSE without_supporter(@[p], o)],
                 !.pending = {x \in @ : x[2] # o},
                 !.revalidation = [i \in PoolId |-> @[i] \ {o}],
                 !.evidence = [i \in PoolId |-> evidence_without_owner(@[i], o)]] IN
         T \in State /\ Unwatches(S, T, k, o)
<1> DEFINE lost == {q \in Pool : S.work[q].support = {o}}
           ow == [S.owners EXCEPT ![k] = Absent]
           ca == retain(S.candidates, {c \in Range(S.candidates) : c.owner # o})
           di == {d \in S.discovery : d.owner # o}
           wo == [p \in Pool |-> IF p \in lost THEN NoWork ELSE without_supporter(S.work[p], o)]
           pe == {x \in S.pending : x[2] # o}
           rv == [i \in PoolId |-> S.revalidation[i] \ {o}]
           ev == [i \in PoolId |-> evidence_without_owner(S.evidence[i], o)]
           T == [S EXCEPT
                 !.owners[k] = Absent,
                 !.candidates = retain(@, {c \in Range(@) : c.owner # o}),
                 !.discovery = {d \in @ : d.owner # o},
                 !.work = [p \in Pool |-> IF p \in lost THEN NoWork ELSE without_supporter(@[p], o)],
                 !.pending = {x \in @ : x[2] # o},
                 !.revalidation = [i \in PoolId |-> @[i] \ {o}],
                 !.evidence = [i \in PoolId |-> evidence_without_owner(@[i], o)]]
<1>1. T = [S EXCEPT !.owners = ow, !.candidates = ca, !.discovery = di, !.work = wo,
                    !.pending = pe, !.revalidation = rv, !.evidence = ev]
  BY DEF State
<1>2. /\ ow \in [Owner -> Life] /\ di \in SUBSET Query /\ pe \in SUBSET (PoolId \X OwnerId)
      /\ rv \in [PoolId -> SUBSET OwnerId]
  BY Fields, AbsentLife
<1>3. ev \in [PoolId -> SUBSET Evidence]
  BY Fields DEF evidence_without_owner
<1>4. wo \in [Pool -> Work]
  <2>1. \A p \in Pool : S.work[p] \in Work
    BY Fields
  <2>2. \A p \in Pool : without_supporter(S.work[p], o) \in Work
    BY <2>1, WithoutSupporter
  <2> QED
    BY <2>2, NoWorkType
<1>5. ca \in Seq(Cand)
  BY Fields, RetainShape
<1> HIDE DEF T, ow, ca, di, wo, pe, rv, ev
<1>6. T \in State
  BY <1>1, <1>2, <1>3, <1>4, <1>5 DEF State
<1>7. /\ T.owners = ow /\ T.candidates = ca /\ T.discovery = di /\ T.work = wo
      /\ T.pending = pe /\ T.revalidation = rv /\ T.evidence = ev
      /\ T.trusted = S.trusted /\ T.point = S.point /\ T.issued = S.issued
      /\ T.adapters = S.adapters /\ T.pools = S.pools
  BY <1>1 DEF State
<1>8. Unwatches(S, T, k, o)
  BY <1>7 DEF Unwatches, ow, ca, di, wo, pe, rv, ev
<1> QED
  BY <1>6, <1>8 DEF T

\* A watcher that no pool's registration hangs on goes without a trace.
LEMMA UnwatchSound ==
  ASSUME NEW S, NEW T \in State, NEW K, NEW W, NEW X, Sound(S, K, W, X), NEW k \in Owner,
         S.trusted, S.owners[k].gen > 0, Unwatches(S, T, k, <<k, S.owners[k].gen>>),
         \A i \in PoolId : evidence_contains_owner(S.evidence[i], <<k, S.owners[k].gen>>) =>
           evidence_without_owner(S.evidence[i], <<k, S.owners[k].gen>>) # {}
  PROVE  Sound(T, K, W, X)
<1> DEFINE o == <<k, S.owners[k].gen>>
<1>1. S \in State /\ Owned(S) /\ Grounded(S, K, W, X)
  BY DEF Sound, Owned
<1>2. S.owners[k].gen \in 1..MaxGen /\ o \in OwnerId /\ o[1] = k /\ o # None
  <2>1. S.owners[k].gen \in 0..MaxGen
    BY <1>1, Lives
  <2>2. o \in OwnerId /\ o[1] = k
    BY <2>1 DEF OwnerId
  <2> QED
    BY <2>1, <2>2, Identities
<1>3. \A x \in OwnerId : active_discovery(S, x) /\ x # o => x[1] # k
  BY Identities DEF active_discovery
<1>4. /\ Unwatches(S, T, k, o)
      /\ \A i \in PoolId : evidence_contains_owner(S.evidence[i], o) =>
           evidence_without_owner(S.evidence[i], o) # {}
  OBVIOUS
<1> HIDE DEF o
<1>5. /\ T.owners[k].gen = 0 /\ \A x \in Owner : x # k => T.owners[x] = S.owners[x]
      /\ T.issued = S.issued /\ T.trusted = S.trusted /\ T.adapters = S.adapters /\ T.pools = S.pools
  BY <1>1, <1>4, Fields, AbsentLife DEF Unwatches
<1>6. \A x \in OwnerId : active_discovery(S, x) /\ x # o => active_discovery(T, x)
  BY <1>3, <1>5, Identities DEF active_discovery
<1>7. \A x \in OwnerId, p \in Pool : Backs(S, x, p) /\ x # o => Backs(T, x, p)
  BY <1>6 DEF Backs
<1>8. \A i \in PoolId : /\ T.revalidation[i] = S.revalidation[i] \ {o}
                        /\ T.evidence[i] = {e \in S.evidence[i] : e.owner # o}
  BY <1>4 DEF Unwatches, evidence_without_owner
<1>9. LivesOK(T)
  BY <1>1, <1>5 DEF Owned, LivesOK, active_adapter
<1>10. ASSUME NEW p \in Pool, T.work[p] # NoWork
       PROVE  GoodWork(T, p, T.work[p]) /\ GroundedWork(p, T.work[p], K, X)
  <2> DEFINE w == S.work[p]
             v == T.work[p]
             E == evidence_without_owner(w.evidence, o)
  <2>1. w \in Work /\ w.support # {o} /\ v = without_supporter(w, o)
    <3>1. v = IF p \in {q \in Pool : S.work[q].support = {o}} THEN NoWork ELSE without_supporter(w, o)
      BY <1>4 DEF Unwatches
    <3> QED
      BY <1>1, <1>10, <3>1, Fields
  <2>2. w # NoWork
    <3>1. ASSUME w = NoWork PROVE FALSE
      <4>1. o \notin w.support
        BY <3>1, NoWorkType
      <4>2. v = w
        BY <1>2, <2>1, <4>1, WithoutSupporter
      <4> QED
        BY <1>10, <3>1, <4>2
    <3> QED
      BY <3>1
  <2>3. GoodWork(S, p, w) /\ GroundedWork(p, w, K, X)
    BY <2>2, WorkThere
  <2>4. /\ w.support \subseteq OwnerId /\ w.evidence \subseteq Evidence
        /\ \A x \in w.support : x # o => Backs(T, x, p)
    <3>1. w.support \subseteq OwnerId /\ w.evidence \subseteq Evidence
      BY <2>1, Parts
    <3> QED
      BY <1>7, <2>3, <3>1 DEF GoodWork
  <2>5. active_adapter(T, p) = active_adapter(S, p)
    BY <1>5 DEF active_adapter
  <2>6. CASE o \notin w.support
    <3>1. v = w
      BY <1>2, <2>1, <2>6, WithoutSupporter
    <3>2. \A x \in w.support : Backs(T, x, p)
      BY <2>4, <2>6
    <3> HIDE DEF w, v
    <3>3. GoodWork(T, p, v)
      BY <1>5, <2>3, <2>5, <3>1, <3>2 DEF GoodWork
    <3> QED
      BY <2>3, <3>1, <3>3 DEF w, v
  <2>7. CASE o \in w.support
    <3>1. /\ v \in Work /\ v.gen = w.gen /\ v.adapter = w.adapter
          /\ v.support = w.support \ {o} /\ v.revalidations = w.revalidations \ {o}
          /\ v.evidence = (IF E = {} THEN w.evidence ELSE E)
          /\ w.support \ {o} # {} => v.owner = w.owner \/ v.owner \in OwnerId
      BY <1>2, <2>1, <2>7, WithoutSupporter
    <3>2. PICK x \in w.support : x # o
      BY <2>1, <2>7
    <3>3. w.owner # None
      BY <2>3, <2>7 DEF GoodWork
    <3>4. v.owner # None /\ v.support # {}
      BY <3>1, <3>2, <3>3, Identities
    <3>5. E = {e \in w.evidence : e.owner # o} /\ w.evidence # {} /\ v.evidence \subseteq w.evidence
      BY <2>3, <3>1 DEF evidence_without_owner, GoodWork
    <3> HIDE DEF E, w, v
    <3>6. \A y \in v.revalidations :
            y \in v.support /\ evidence_contains_state_query_owner(v.evidence, y)
      <4> SUFFICES ASSUME NEW y \in v.revalidations
                   PROVE  y \in v.support /\ evidence_contains_state_query_owner(v.evidence, y)
        OBVIOUS
      <4>1. y \in w.revalidations /\ y # o
        BY <3>1
      <4>2. y \in w.support /\ evidence_contains_state_query_owner(w.evidence, y)
        BY <2>3, <4>1 DEF GoodWork
      <4>3. PICK e \in w.evidence : e.kind = "query" /\ e.owner = y
        BY <4>2 DEF evidence_contains_state_query_owner
      <4>4. e \in v.evidence
        BY <3>1, <3>5, <4>1, <4>3
      <4> QED
        BY <3>1, <4>1, <4>2, <4>3, <4>4 DEF evidence_contains_state_query_owner
    <3>7. v.evidence # {}
      BY <3>1, <3>5
    <3>8. \A y \in v.support : Backs(T, y, p)
      BY <2>4, <3>1
    <3>9. GoodWork(T, p, v)
      BY <1>5, <2>3, <2>5, <3>1, <3>4, <3>6, <3>7, <3>8 DEF GoodWork
    <3>10. \A e \in v.evidence : OnChain(K, e)
      BY <2>3, <3>5 DEF GroundedWork
    <3>11. ASSUME p \notin X
           PROVE  /\ \A e \in v.evidence : /\ e = Stable \/ e.owner \in v.support
                                           /\ e.kind = "query" => e.owner \in v.revalidations
                  /\ Stable \in v.evidence \/ \A y \in v.support : evidence_contains_owner(v.evidence, y)
      <4>1. /\ \A e \in w.evidence : /\ e = Stable \/ e.owner \in w.support
                                     /\ e.kind = "query" => e.owner \in w.revalidations
            /\ Stable \in w.evidence \/ \A y \in w.support : evidence_contains_owner(w.evidence, y)
        BY <2>3, <3>11 DEF GroundedWork
      <4>2. Stable.owner # o
        BY <1>2, EvidenceShape
      <4>3. E # {}
        <5>1. CASE Stable \in w.evidence
          BY <3>5, <4>2, <5>1
        <5>2. CASE Stable \notin w.evidence
          <6>1. evidence_contains_owner(w.evidence, x)
            BY <3>2, <4>1, <5>2
          <6>2. PICK e \in w.evidence : e.owner = x
            BY <6>1 DEF evidence_contains_owner
          <6> QED
            BY <3>2, <3>5, <6>2
        <5> QED
          BY <5>1, <5>2
      <4>4. v.evidence = {e \in w.evidence : e.owner # o}
        BY <3>1, <3>5, <4>3
      <4>5. \A e \in v.evidence : /\ e = Stable \/ e.owner \in v.support
                                  /\ e.kind = "query" => e.owner \in v.revalidations
        BY <3>1, <4>1, <4>4
      <4>6. ASSUME Stable \notin v.evidence, NEW y \in v.support
            PROVE  evidence_contains_owner(v.evidence, y)
        <5>1. Stable \notin w.evidence /\ y \in w.support /\ y # o
          BY <3>1, <4>2, <4>4, <4>6
        <5>2. PICK e \in w.evidence : e.owner = y
          BY <4>1, <5>1 DEF evidence_contains_owner
        <5>3. e \in v.evidence
          BY <4>4, <5>1, <5>2
        <5> QED
          BY <5>2, <5>3 DEF evidence_contains_owner
      <4> QED
        BY <4>5, <4>6
    <3>12. GroundedWork(p, v, K, X)
      BY <3>10, <3>11 DEF GroundedWork
    <3> QED
      BY <3>9, <3>12 DEF v
  <2> QED
    BY <2>6, <2>7
<1>11. WorkOK(T) /\ WorkGrounded(T, K, X)
  BY <1>10 DEF WorkOK, WorkGrounded
<1> DEFINE KK == {c \in Range(S.candidates) : c.owner # o}
<1>12. /\ S.candidates \in Seq(Cand) /\ Len(S.candidates) <= MaxPending
       /\ \A i \in 1..Len(S.candidates) : FitCandidate(S, S.candidates[i], K, X)
  BY QueueFit
<1>13. /\ T.candidates \in Seq(Cand) /\ Len(T.candidates) <= Len(S.candidates)
       /\ \A i \in 1..Len(T.candidates) :
            /\ T.candidates[i] \in KK
            /\ \E j \in 1..Len(S.candidates) : S.candidates[j] = T.candidates[i]
  <2>1. T.candidates = retain(S.candidates, KK)
    BY <1>4 DEF Unwatches
  <2> HIDE DEF KK
  <2> QED
    BY <1>12, <2>1, RetainShape
<1>14. \A i \in 1..Len(T.candidates) :
         T.candidates[i].owner # o /\ FitCandidate(S, T.candidates[i], K, X)
  BY <1>12, <1>13
<1>15. \A i \in 1..Len(T.candidates) : FitCandidate(T, T.candidates[i], K, X)
  <2> SUFFICES ASSUME NEW i \in 1..Len(T.candidates) PROVE FitCandidate(T, T.candidates[i], K, X)
    OBVIOUS
  <2> DEFINE c == T.candidates[i]
  <2>1. c.owner # o /\ FitCandidate(S, c, K, X)
    BY <1>14
  <2> HIDE DEF c
  <2>2. c \in Cand /\ c.owner \in OwnerId /\ c.key \in Pool /\ GoodCandidate(S, c)
    BY <2>1, Parts DEF FitCandidate
  <2>3. GoodCandidate(T, c)
    BY <1>7, <2>1, <2>2 DEF GoodCandidate
  <2>4. FitCandidate(T, c, K, X)
    BY <1>5, <2>1, <2>2, <2>3 DEF FitCandidate
  <2> QED
    BY <2>4 DEF c
<1>16. CandidatesOK(T)
  <2>1. Len(T.candidates) \in Nat /\ Len(S.candidates) \in Nat /\ MaxPending \in Nat
    BY <1>12, <1>13, RegistrationAssumption
  <2>2. Len(T.candidates) <= MaxPending
    BY <1>12, <1>13, <2>1
  <2> QED
    BY <1>15, <2>2 DEF CandidatesOK, FitCandidate
<1>17. RecipesOK(T)
  <2> SUFFICES ASSUME NEW i \in PoolId
               PROVE  /\ T.revalidation[i] # {} => i[2] <= T.issued[i[1]]
                      /\ active_pool(T, i) => \A x \in T.revalidation[i] :
                           /\ Backs(T, x, i[1])
                           /\ evidence_contains_state_query_owner(T.evidence[i], x)
    BY DEF RecipesOK
  <2>1. i[1] \in Pool /\ S.revalidation[i] \subseteq OwnerId
    BY <1>1, Identities, Fields
  <2>2. T.revalidation[i] # {} => i[2] <= T.issued[i[1]]
    BY <1>1, <1>5, <1>8 DEF Owned, RecipesOK
  <2>3. ASSUME active_pool(T, i), NEW x \in T.revalidation[i]
        PROVE  Backs(T, x, i[1]) /\ evidence_contains_state_query_owner(T.evidence[i], x)
    <3>1. x \in S.revalidation[i] /\ x # o /\ active_pool(S, i)
      BY <1>5, <1>8, <2>3 DEF active_pool
    <3>2. Backs(S, x, i[1]) /\ evidence_contains_state_query_owner(S.evidence[i], x)
      BY <1>1, <3>1 DEF Owned, RecipesOK
    <3>3. evidence_contains_state_query_owner(T.evidence[i], x)
      BY <1>8, <3>1, <3>2 DEF evidence_contains_state_query_owner
    <3> QED
      BY <1>7, <2>1, <3>1, <3>2, <3>3
  <2> QED
    BY <2>2, <2>3
<1>18. QueriesOK(T)
  <2>1. \A d \in T.discovery : d \in S.discovery /\ d.owner # o
    BY <1>4 DEF Unwatches
  <2>2. \A d \in S.discovery : d.owner \in OwnerId
    BY <1>1, Fields, Parts
  <2> QED
    BY <1>1, <1>5, <1>6, <2>1, <2>2 DEF Owned, QueriesOK
<1>19. PendingOK(T)
  <2> SUFFICES ASSUME NEW x \in T.pending PROVE active_pool(T, x[1]) /\ Backs(T, x[2], x[1][1])
    BY DEF PendingOK
  <2>1. x \in S.pending /\ x[2] # o
    BY <1>4 DEF Unwatches
  <2>2. x[1] \in PoolId /\ x[2] \in OwnerId /\ active_pool(S, x[1]) /\ Backs(S, x[2], x[1][1])
    BY <1>1, <2>1, QuestionsThere
  <2> QED
    BY <1>5, <1>7, <2>1, <2>2, Identities DEF active_pool
<1>20. Owned(T)
  BY <1>9, <1>11, <1>16, <1>17, <1>18, <1>19 DEF Owned
<1>21. PoolsGrounded(T, K, W, X)
  <2> SUFFICES ASSUME NEW q \in Pool, T.pools[q].gen > 0
               PROVE  GroundedPool(T, <<q, T.pools[q].gen>>, K, W, X)
    BY DEF PoolsGrounded
  <2>1. T.pools[q] = S.pools[q] /\ S.pools[q].gen \in 1..MaxGen
    BY <1>1, <1>5, Lives
  <2> DEFINE i == <<q, S.pools[q].gen>>
  <2>2. i \in PoolId
    BY <2>1, Identities
  <2>3. GroundedPool(S, i, K, W, X)
    BY <1>1, <2>1 DEF Grounded, PoolsGrounded
  <2> HIDE DEF i
  <2>4. T.evidence[i] # {}
    <3>1. S.evidence[i] # {}
      BY <2>3 DEF GroundedPool
    <3> QED
      BY <1>4, <1>8, <2>2, <3>1 DEF evidence_contains_owner, evidence_without_owner
  <2>5. \A x : x # o /\ AskedOf(S, i, x) => AskedOf(T, i, x)
    <3> SUFFICES ASSUME NEW x, x # o, AskedOf(S, i, x) PROVE AskedOf(T, i, x)
      OBVIOUS
    <3>1. CASE <<i, x>> \in S.pending
      BY <1>4, <3>1 DEF Unwatches, AskedOf
    <3>2. CASE \E d \in S.discovery : d.pool = i /\ d.owner = x
      BY <1>4, <3>2 DEF Unwatches, AskedOf
    <3> QED
      BY <3>1, <3>2 DEF AskedOf
  <2>6. GroundedPool(T, i, K, W, X)
    BY <1>8, <2>2, <2>3, <2>4, <2>5 DEF GroundedPool
  <2> QED
    BY <2>1, <2>6 DEF i
<1>22. CandidatesGrounded(T, K, X)
  BY <1>5, <1>15 DEF FitCandidate, CandidatesGrounded
<1> QED
  BY <1>11, <1>20, <1>21, <1>22 DEF Sound, Grounded

-----------------------------------------------------------------------------
(* Pools: prepared, committed, removed; questions withdrawn. *)

\* install changes what is kept for one pool.
LEMMA InstallShape ==
  ASSUME NEW S \in State, NEW p \in Pool, NEW gen \in 1..MaxGen, NEW E \in SUBSET Evidence
  PROVE  LET T == install(S, p, gen, E) IN
         /\ T \in State
         /\ T.pools = [S.pools EXCEPT ![p] = [gen |-> gen, adapter |-> active_adapter(S, p)]]
         /\ T.issued = [S.issued EXCEPT ![p] = gen]
         /\ T.evidence = [S.evidence EXCEPT ![<<p, gen>>] = E]
         /\ T.trusted = S.trusted /\ T.attached = S.attached /\ T.point = S.point
         /\ T.adapters = S.adapters /\ T.owners = S.owners
         /\ T.revalidation = S.revalidation /\ T.pending = S.pending
         /\ T.candidates = S.candidates /\ T.work = S.work /\ T.discovery = S.discovery
<1> DEFINE T == install(S, p, gen, E)
           po == [S.pools EXCEPT ![p] = [gen |-> gen, adapter |-> active_adapter(S, p)]]
           is == [S.issued EXCEPT ![p] = gen]
           ev == [S.evidence EXCEPT ![<<p, gen>>] = E]
<1>1. T = [S EXCEPT !.pools = po, !.issued = is, !.evidence = ev]
  BY DEF State, install
<1>2. [gen |-> gen, adapter |-> active_adapter(S, p)] \in Life
  BY Lives DEF Life
<1>3. /\ po \in [Pool -> Life] /\ is \in [Adapter \cup Owner \cup Pool -> 0..MaxGen]
      /\ ev \in [PoolId -> SUBSET Evidence]
  BY <1>2, Fields, Identities
<1> HIDE DEF T, po, is, ev
<1>4. T \in State
  BY <1>1, <1>3 DEF State
<1>5. /\ T.pools = po /\ T.issued = is /\ T.evidence = ev
      /\ T.trusted = S.trusted /\ T.attached = S.attached /\ T.point = S.point
      /\ T.adapters = S.adapters /\ T.owners = S.owners
      /\ T.revalidation = S.revalidation /\ T.pending = S.pending
      /\ T.candidates = S.candidates /\ T.work = S.work /\ T.discovery = S.discovery
  BY <1>1 DEF State
<1> QED
  BY <1>4, <1>5 DEF T, po, is, ev

\* A pool whose state the caller prepared rests on stable evidence.
LEMMA AddPoolSound ==
  ASSUME NEW S, NEW K, NEW W, NEW X, Sound(S, K, W, X), NEW p \in Pool,
         S.pools[p].gen = 0, S.work[p] = NoWork, active_adapter(S, p) > 0, S.issued[p] < MaxGen
  PROVE  LET T == install(S, p, next_generation(S, p), {Stable}) IN
         Sound(T, K, W, X) /\ SameWatch(S, T)
<1> DEFINE gen == next_generation(S, p)
           E == {Stable}
           T == install(S, p, gen, E)
<1>1. S \in State /\ Owned(S)
  BY DEF Sound, Owned
<1>2. gen \in 1..MaxGen /\ gen > S.issued[p]
  <2>1. S.issued[p] \in 0..MaxGen /\ MaxGen \in Nat
    BY <1>1, Lives, RegistrationAssumption
  <2> QED
    BY <2>1 DEF next_generation
<1>3. E \in SUBSET Evidence /\ E # {}
  BY EvidenceShape
<1> HIDE DEF gen, E
<1>4. /\ T \in State
      /\ T.pools = [S.pools EXCEPT ![p] = [gen |-> gen, adapter |-> active_adapter(S, p)]]
      /\ T.issued = [S.issued EXCEPT ![p] = gen]
      /\ T.evidence = [S.evidence EXCEPT ![<<p, gen>>] = E]
      /\ T.trusted = S.trusted /\ T.point = S.point
      /\ T.adapters = S.adapters /\ T.owners = S.owners
      /\ T.revalidation = S.revalidation /\ T.pending = S.pending
      /\ T.candidates = S.candidates /\ T.work = S.work /\ T.discovery = S.discovery
  BY <1>1, <1>2, <1>3, InstallShape
<1> HIDE DEF T
<1>5. <<p, gen>> \in PoolId /\ <<p, gen>>[1] = p /\ <<p, gen>>[2] = gen
  BY <1>2, Identities
<1>6. S.revalidation[<<p, gen>>] = {}
  <2>1. S.issued[p] \in 0..MaxGen /\ ~(gen <= S.issued[p])
    BY <1>1, <1>2, Lives
  <2> QED
    BY <1>1, <1>5, <2>1 DEF Owned, RecipesOK
<1>7. S.revalidation = [S.revalidation EXCEPT ![<<p, gen>>] = {}] /\ S.work = [S.work EXCEPT ![p] = NoWork]
  BY <1>1, <1>6, Fields
<1>8. Installs(S, T, p, gen, E, {})
  BY <1>4, <1>7 DEF Installs
<1>9. gen >= S.issued[p]
  <2>1. S.issued[p] \in 0..MaxGen
    BY <1>1, Lives
  <2> QED
    BY <1>2, <2>1
<1>10. Owned(T)
  BY <1>1, <1>2, <1>3, <1>4, <1>8, <1>9, InstallsOwned
<1>11. ASSUME T.trusted PROVE Grounded(T, K, W, X)
  <2>1. Grounded(S, K, W, X)
    BY <1>4, <1>11 DEF Sound
  <2>2. \A e \in E : OnChain(K, e) /\ e.kind # "query"
    BY EvidenceShape DEF OnChain, E
  <2> QED
    BY <1>1, <1>2, <1>3, <1>4, <1>8, <2>1, <2>2, InstallsGrounded
<1> QED
  BY <1>4, <1>10, <1>11 DEF Sound, SameWatch, T, gen, E

\* commit_scheduled_pool installs the pool with the evidence and recipes of its work.
LEMMA CommitSound ==
  ASSUME NEW S, NEW K, NEW W, NEW X, Sound(S, K, W, X), NEW p \in Pool, S.work[p] # NoWork
  PROVE  LET w == S.work[p]
             T == [detach_pool_work(install(S, p, w.gen, w.evidence), {p}) EXCEPT
                     !.revalidation[<<p, w.gen>>] = w.revalidations]
         IN  Sound(T, K, W, X) /\ SameWatch(S, T)
<1> DEFINE w == S.work[p]
           gen == w.gen
           E == w.evidence
           R == w.revalidations
           U == install(S, p, gen, E)
           V == detach_pool_work(U, {p})
           rv == [V.revalidation EXCEPT ![<<p, gen>>] = R]
           T == [V EXCEPT !.revalidation[<<p, gen>>] = R]
<1>1. S \in State /\ Owned(S)
  BY DEF Sound, Owned
<1>2. w \in Work /\ GoodWork(S, p, w) /\ (S.trusted => GroundedWork(p, w, K, X))
  BY WorkThere
<1>3. gen \in 1..MaxGen /\ E \in SUBSET Evidence /\ R \in SUBSET OwnerId
  <2>1. w.gen \in 0..MaxGen /\ w.gen > 0 /\ E \in SUBSET Evidence /\ R \in SUBSET OwnerId
    BY <1>2, Parts DEF GoodWork
  <2> QED
    BY <2>1
<1> HIDE DEF w, gen, E, R
<1>4. /\ U \in State
      /\ U.pools = [S.pools EXCEPT ![p] = [gen |-> gen, adapter |-> active_adapter(S, p)]]
      /\ U.issued = [S.issued EXCEPT ![p] = gen]
      /\ U.evidence = [S.evidence EXCEPT ![<<p, gen>>] = E]
      /\ U.trusted = S.trusted /\ U.attached = S.attached /\ U.point = S.point
      /\ U.adapters = S.adapters /\ U.owners = S.owners
      /\ U.revalidation = S.revalidation /\ U.pending = S.pending
      /\ U.candidates = S.candidates /\ U.work = S.work /\ U.discovery = S.discovery
  BY <1>1, <1>3, InstallShape
<1> HIDE DEF U
<1>5. /\ V \in State /\ SameButWork(U, V)
      /\ V.work = [q \in Pool |-> IF q \in {p} THEN NoWork ELSE U.work[q]]
  BY <1>4, DetachShape
<1> HIDE DEF V
<1>6. T = [V EXCEPT !.revalidation = rv]
  BY <1>5 DEF State
<1>7. rv \in [PoolId -> SUBSET OwnerId]
  BY <1>3, <1>5, Fields, Identities
<1> HIDE DEF rv, T
<1>8. T \in State
  BY <1>5, <1>6, <1>7 DEF State
<1>9. /\ T.revalidation = rv /\ T.trusted = V.trusted /\ T.point = V.point /\ T.pools = V.pools
      /\ T.issued = V.issued /\ T.evidence = V.evidence /\ T.adapters = V.adapters
      /\ T.owners = V.owners /\ T.pending = V.pending /\ T.candidates = V.candidates
      /\ T.work = V.work /\ T.discovery = V.discovery
  BY <1>5, <1>6 DEF State
<1>10. V.work = [S.work EXCEPT ![p] = NoWork]
  BY <1>1, <1>4, <1>5, Fields
<1>11. rv = [S.revalidation EXCEPT ![<<p, gen>>] = R]
  BY <1>4, <1>5 DEF rv, SameButWork
<1>12. Installs(S, T, p, gen, E, R) /\ T.trusted = S.trusted /\ T.point = S.point /\ T.owners = S.owners
  BY <1>4, <1>5, <1>9, <1>10, <1>11 DEF Installs, SameButWork
<1>13. /\ S.pools[p].gen = 0 /\ gen = S.issued[p] /\ active_adapter(S, p) > 0 /\ E # {}
       /\ \A o \in R : Backs(S, o, p) /\ evidence_contains_state_query_owner(E, o)
  BY <1>2 DEF GoodWork, gen, E, R
<1>14. gen >= S.issued[p]
  BY <1>3, <1>13
<1>15. Owned(T)
  BY <1>1, <1>3, <1>8, <1>12, <1>13, <1>14, InstallsOwned
<1>16. ASSUME T.trusted PROVE Grounded(T, K, W, X)
  <2>1. Grounded(S, K, W, X) /\ GroundedWork(p, w, K, X)
    BY <1>2, <1>12, <1>16 DEF Sound
  <2>2. /\ \A e \in E : OnChain(K, e)
        /\ p \notin X => \A e \in E : e.kind = "query" => e.owner \in R
    BY <2>1 DEF GroundedWork, E, R
  <2> QED
    BY <1>1, <1>3, <1>8, <1>12, <1>13, <2>1, <2>2, InstallsGrounded
<1>17. Sound(T, K, W, X) /\ SameWatch(S, T)
  BY <1>12, <1>15, <1>16 DEF Sound, SameWatch
<1> QED
  BY <1>17 DEF T, V, U, R, E, gen, w

\* remove_pool_serialized keeps the record sound.
LEMMA RemoveSound ==
  ASSUME NEW S, NEW K, NEW W, NEW X, Sound(S, K, W, X), NEW id \in PoolId, active_pool(S, id)
  PROVE  /\ Sound(remove_pool_serialized(S, id), K, W, X)
         /\ SameWatch(S, remove_pool_serialized(S, id))
<1> DEFINE T == remove_pool_serialized(S, id)
<1>1. S \in State /\ Owned(S)
  BY DEF Sound, Owned
<1>2. T \in State /\ Removes(S, T, id)
  BY <1>1, RemoveShape
<1> HIDE DEF T
<1>3. Owned(T)
  BY <1>1, <1>2, RemovesOwned
<1>4. ASSUME T.trusted PROVE Grounded(T, K, W, X)
  <2>1. Grounded(S, K, W, X)
    BY <1>2, <1>4 DEF Sound, Removes
  <2>2. /\ WorkGrounded(S, K, X) /\ CandidatesGrounded(S, K, X)
        /\ \A q \in Pool : S.pools[q].gen > 0 => GroundedPool(S, <<q, S.pools[q].gen>>, K, W, X)
    BY <2>1 DEF Grounded, PoolsGrounded
  <2> QED
    BY <1>1, <1>2, <2>2, RemovesGrounded
<1>5. SameWatch(S, T)
  BY <1>2 DEF Removes, SameWatch
<1> QED
  BY <1>3, <1>4, <1>5 DEF Sound, T

\* The worker that is attached takes the candidates and the revalidations that waited.
LEMMA AttachSound ==
  ASSUME NEW S, NEW K, NEW W, NEW X, Sound(S, K, W, X), NEW ok \in BOOLEAN
  PROVE  LET T == drain_revalidations(
                    drain_factory_candidates([S EXCEPT !.attached = TRUE], ok), ok) IN
         Sound(T, K, W, X) /\ SameWatch(S, T)
<1> DEFINE A == [S EXCEPT !.attached = TRUE]
           B == drain_factory_candidates(A, ok)
           T == drain_revalidations(B, ok)
<1>1. S \in State /\ Owned(S)
  BY DEF Sound, Owned
<1>2. A \in State
  BY <1>1 DEF State
<1>3. /\ A.trusted = S.trusted /\ A.point = S.point /\ A.adapters = S.adapters
      /\ A.owners = S.owners /\ A.pools = S.pools /\ A.issued = S.issued
      /\ A.evidence = S.evidence /\ A.revalidation = S.revalidation /\ A.pending = S.pending
      /\ A.candidates = S.candidates /\ A.work = S.work /\ A.discovery = S.discovery
  BY <1>1 DEF State
<1> HIDE DEF A
<1>4. Owned(A)
  BY <1>1, <1>2, <1>3, OwnedFrame
<1>5. S.trusted => Grounded(A, K, W, X)
  BY <1>3, GroundedSame DEF Sound
<1>6. Sound(A, K, W, X)
  BY <1>3, <1>4, <1>5 DEF Sound
<1>7. Sound(B, K, W, X) /\ SameButQueue(A, B)
  BY <1>6, DrainSound
<1> HIDE DEF B
<1>8. Sound(T, K, W, X) /\ SameWatch(B, T)
  BY <1>7, RevalidateAll
<1> HIDE DEF T
<1>9. SameWatch(S, T)
  BY <1>3, <1>7, <1>8 DEF SameWatch, SameButQueue
<1> QED
  BY <1>8, <1>9 DEF T, B, A

\* A caller that cancels a revalidation has withdrawn the question.
LEMMA CancelSound ==
  ASSUME NEW S, NEW K, NEW W, NEW X, Sound(S, K, W, X), NEW d \in S.discovery
  PROVE  LET T == [S EXCEPT !.discovery = @ \ {d}]
             W2 == W \cup (IF d.pool = None THEN {} ELSE {d.pool[1]})
         IN  Sound(T, K, W2, X) /\ SameWatch(S, T)
<1> DEFINE T == [S EXCEPT !.discovery = @ \ {d}]
           W2 == W \cup (IF d.pool = None THEN {} ELSE {d.pool[1]})
           Di == S.discovery \ {d}
<1>1. S \in State /\ Owned(S)
  BY DEF Sound, Owned
<1>2. Di \in SUBSET Query /\ S.pending \in SUBSET (PoolId \X OwnerId)
  BY <1>1, Fields
<1>3. T = [S EXCEPT !.discovery = Di]
  BY <1>1 DEF State
<1>4. T \in State /\ Asks(S, T, S.pending, Di)
  BY <1>1, <1>2, <1>3, AsksEither
<1> HIDE DEF T
<1>5. Owned(T)
  <2>1. Di \subseteq S.discovery
    OBVIOUS
  <2> HIDE DEF Di
  <2> QED
    BY <1>1, <1>4, <2>1, QuestionsThere, AsksOwned
<1>6. ASSUME S.trusted PROVE Grounded(T, K, W2, X)
  <2>1. \A id \in PoolId, o \in OwnerId : AskedOf(S, id, o) => AskedOf(T, id, o) \/ id[1] \in W2
    <3> SUFFICES ASSUME NEW id \in PoolId, NEW o \in OwnerId, AskedOf(S, id, o), ~AskedOf(T, id, o)
                 PROVE  id[1] \in W2
      OBVIOUS
    <3>1. T.pending = S.pending /\ T.discovery = S.discovery \ {d}
      BY <1>4 DEF Asks
    <3>2. d.pool = id
      BY <3>1 DEF AskedOf
    <3>3. id # None
      BY Identities
    <3> QED
      BY <3>2, <3>3
  <2>2. Grounded(S, K, W, X)
    BY <1>6 DEF Sound
  <2>3. /\ T.pools = S.pools /\ T.evidence = S.evidence /\ T.revalidation = S.revalidation
        /\ T.candidates = S.candidates /\ T.work = S.work
    BY <1>4 DEF Asks
  <2>4. W \subseteq W2
    OBVIOUS
  <2> HIDE DEF W2
  <2> QED
    BY <1>1, <1>4, <2>1, <2>2, <2>3, <2>4, GroundedFrame
<1>7. SameWatch(S, T) /\ T.trusted = S.trusted
  BY <1>4 DEF Asks, SameWatch
<1> HIDE DEF W2
<1>8. Sound(T, K, W2, X)
  BY <1>5, <1>6, <1>7 DEF Sound
<1> QED
  BY <1>7, <1>8 DEF T, W2

\* What is said of fewer pools is said still when more retries lost their owners.
LEMMA SoundMore ==
  ASSUME NEW S, NEW K, NEW W, NEW X, NEW X2, Sound(S, K, W, X), X \subseteq X2
  PROVE  Sound(S, K, W, X2)
<1>1. S \in State /\ Owned(S)
  BY DEF Sound, Owned
<1>2. ASSUME S.trusted PROVE Grounded(S, K, W, X2)
  <2>1. Grounded(S, K, W, X) /\ W \subseteq W
    BY <1>2 DEF Sound
  <2>2. \A id \in PoolId, o \in OwnerId : AskedOf(S, id, o) => AskedOf(S, id, o) \/ id[1] \in W
    OBVIOUS
  <2> QED
    BY <1>1, <2>1, <2>2, GroundedFrame
<1> QED
  BY <1>1, <1>2 DEF Sound

-----------------------------------------------------------------------------
(* A stale cold start goes back to one of its owners. *)

\* A finite set with at most one element has no other.
LEMMA AtMostOne ==
  ASSUME NEW A, IsFiniteSet(A), NEW a \in A, ~(Cardinality(A) > 1)
  PROVE  A = {a}
<1>1. ASSUME NEW y \in A, y # a PROVE FALSE
  <2>1. IsFiniteSet({a}) /\ Cardinality({a}) = 1
    BY FS_Singleton
  <2>2. IsFiniteSet({a} \cup {y}) /\ Cardinality({a} \cup {y}) = 2
    BY <1>1, <2>1, FS_AddElement
  <2>3. {a} \cup {y} \subseteq A
    BY <1>1
  <2>4. Cardinality({a} \cup {y}) <= Cardinality(A) /\ Cardinality(A) \in Nat
    BY <2>3, FS_Subset, FS_CardinalityType
  <2> QED
    BY <2>2, <2>4
<1> QED
  BY <1>1

\* The work's evidence as a candidate of the heir; p is in X2 when the work had
\* other supporters.
LEMMA RetrySound ==
  ASSUME NEW S, NEW K, NEW W, NEW X, NEW X2, Sound(S, K, W, X), X \subseteq X2,
         NEW p \in Pool, S.work[p] # NoWork, Cardinality(S.work[p].support) > 1 => p \in X2,
         NEW heir \in S.work[p].support, NEW ok \in BOOLEAN
  PROVE  LET w == S.work[p]
             c == Candidate(heir, p, w.evidence, heir \in w.revalidations)
             T == drain_factory_candidates(
                    retain_factory_candidate(detach_pool_work(S, {p}), c), ok)
         IN  Sound(T, K, W, X2) /\ SameWatch(S, T)
<1> DEFINE w == S.work[p]
           again == heir \in w.revalidations
           c == Candidate(heir, p, w.evidence, again)
           D == detach_pool_work(S, {p})
           U == retain_factory_candidate(D, c)
           T == drain_factory_candidates(U, ok)
<1>1. S \in State /\ Owned(S)
  BY DEF Sound, Owned
<1>2. w \in Work /\ GoodWork(S, p, w) /\ (S.trusted => GroundedWork(p, w, K, X))
  BY WorkThere
<1>3. /\ w.support \subseteq OwnerId /\ w.evidence \in SUBSET Evidence /\ w.evidence # {}
      /\ again \in BOOLEAN
  BY <1>2, Parts DEF GoodWork
<1>4. IsFiniteSet(w.support)
  BY <1>3, FiniteIds, FS_Subset
<1>5. /\ c \in Cand /\ c.owner = heir /\ c.key = p /\ c.evidence = w.evidence
      /\ c.revalidate = again
  BY <1>3 DEF Candidate, Cand
<1>6. D \in State /\ SameButWork(S, D)
  BY <1>1, DetachShape
<1>7. Sound(D, K, W, X2)
  <2>1. Sound(D, K, W, X)
    BY DetachSound
  <2> HIDE DEF D
  <2> QED
    BY <2>1, SoundMore
<1> HIDE DEF c, D
<1>8. GoodCandidate(D, c)
  <2>1. Backs(S, heir, p) /\ (again => evidence_contains_state_query_owner(w.evidence, heir))
    BY <1>2 DEF GoodWork
  <2>2. Backs(D, heir, p)
    BY <1>6, <2>1 DEF SameButWork, Backs, active_discovery
  <2> QED
    BY <1>3, <1>5, <2>1, <2>2 DEF GoodCandidate
<1>9. ASSUME D.trusted PROVE GroundedCandidate(c, K, X2)
  <2>1. GroundedWork(p, w, K, X)
    BY <1>2, <1>6, <1>9 DEF SameButWork
  <2>2. \A e \in c.evidence : OnChain(K, e)
    BY <1>5, <2>1 DEF GroundedWork
  <2>3. ASSUME c.key \notin X2, NEW e \in c.evidence
        PROVE  (e = Stable \/ e.owner = c.owner) /\ (e.kind = "query" => c.revalidate)
    <3>1. p \notin X /\ ~(Cardinality(w.support) > 1)
      BY <1>5, <2>3
    <3>2. w.support = {heir}
      BY <1>4, <3>1, AtMostOne
    <3>3. (e = Stable \/ e.owner \in w.support) /\ (e.kind = "query" => e.owner \in w.revalidations)
      BY <1>5, <2>1, <2>3, <3>1 DEF GroundedWork
    <3>4. e = Stable => e.kind # "query"
      BY EvidenceShape
    <3>5. e.kind = "query" => e.owner = heir
      BY <3>2, <3>3, <3>4
    <3>6. e.kind = "query" => again
      BY <3>3, <3>5
    <3> HIDE DEF w, again
    <3> QED
      BY <1>5, <3>2, <3>3, <3>6
  <2> QED
    BY <2>2, <2>3 DEF GroundedCandidate
<1>10. FitCandidate(D, c, K, X2)
  BY <1>5, <1>8, <1>9 DEF FitCandidate
<1>11. Sound(U, K, W, X2) /\ SameWatch(D, U)
  BY <1>7, <1>10, RetainOne
<1> HIDE DEF U
<1>12. Sound(T, K, W, X2) /\ SameButQueue(U, T)
  BY <1>11, DrainSound
<1> HIDE DEF T
<1>13. SameWatch(S, T)
  BY <1>6, <1>11, <1>12 DEF SameWatch, SameButQueue, SameButWork
<1> QED
  BY <1>12, <1>13 DEF T, U, D, c

-----------------------------------------------------------------------------
(* Ancestry. *)

\* The recursion in Lineage is one.
LEMMA LineageStep ==
  \A b \in Block : Lineage[b] = IF b = Genesis THEN {b} ELSE {b} \cup Lineage[Parent[b]]
<1> DEFINE Closed(Z) == \A x \in Z : x # Genesis => Parent[x] \in Z
           Up(b) == {c \in Block : \A Z \in SUBSET Block : b \in Z /\ Closed(Z) => c \in Z}
           g == [b \in Block |-> Up(b)]
<1>1. \A b \in Block : Parent[b] \in Block
  BY RegistrationAssumption
<1>2. \A b \in Block : b \in Up(b)
  OBVIOUS
<1>3. \A b \in Block : Up(b) \in SUBSET Block
  OBVIOUS
<1>4. ASSUME NEW b \in Block PROVE Closed(Up(b))
  <2> SUFFICES ASSUME NEW x \in Up(b), x # Genesis PROVE Parent[x] \in Up(b)
    OBVIOUS
  <2>1. x \in Block /\ Parent[x] \in Block
    BY <1>1
  <2>2. ASSUME NEW Z \in SUBSET Block, b \in Z, Closed(Z) PROVE Parent[x] \in Z
    <3>1. x \in Z
      BY <2>2
    <3> QED
      BY <2>2, <3>1
  <2> QED
    BY <2>1, <2>2
<1>5. ASSUME NEW b \in Block PROVE Up(b) = IF b = Genesis THEN {b} ELSE {b} \cup Up(Parent[b])
  <2>1. CASE b = Genesis
    <3>1. {b} \in SUBSET Block /\ b \in {b} /\ Closed({b})
      BY <2>1
    <3>2. Up(b) \subseteq {b}
      BY <3>1
    <3> QED
      BY <1>2, <2>1, <3>2
  <2>2. CASE b # Genesis
    <3> DEFINE Z0 == {b} \cup Up(Parent[b])
    <3>1. Parent[b] \in Block
      BY <1>1
    <3>2. Z0 \in SUBSET Block /\ b \in Z0
      BY <3>1, <1>3
    <3>3. Closed(Z0)
      <4> SUFFICES ASSUME NEW x \in Z0, x # Genesis PROVE Parent[x] \in Z0
        OBVIOUS
      <4>1. CASE x = b
        <5>1. Parent[b] \in Up(Parent[b])
          BY <3>1, <1>2
        <5> QED
          BY <4>1, <5>1
      <4>2. CASE x \in Up(Parent[b])
        <5>1. Closed(Up(Parent[b]))
          BY <1>4, <3>1
        <5> QED
          BY <4>2, <5>1
      <4> QED
        BY <4>1, <4>2
    <3>4. Up(b) \subseteq Z0
      <4> HIDE DEF Z0
      <4> QED
        BY <3>2, <3>3
    <3>5. Parent[b] \in Up(b)
      BY <1>2, <1>4, <2>2
    <3>6. Up(Parent[b]) \subseteq Up(b)
      <4>1. Up(b) \in SUBSET Block /\ Closed(Up(b))
        BY <1>3, <1>4
      <4> SUFFICES ASSUME NEW c \in Up(Parent[b]) PROVE c \in Up(b)
        OBVIOUS
      <4>2. \A Z \in SUBSET Block : Parent[b] \in Z /\ Closed(Z) => c \in Z
        OBVIOUS
      <4> HIDE DEF Up, Closed
      <4> QED
        BY <3>5, <4>1, <4>2
    <3> QED
      BY <1>2, <2>2, <3>4, <3>6
  <2> QED
    BY <2>1, <2>2
<1> HIDE DEF Up
<1>6. \A b \in Block : Parent[b] \in Block /\ g[b] = Up(b)
  BY <1>1
<1>7. g = [b \in Block |-> IF b = Genesis THEN {b} ELSE {b} \cup g[Parent[b]]]
  <2>1. \A b \in Block : Up(b) = IF b = Genesis THEN {b} ELSE {b} \cup g[Parent[b]]
    BY <1>5, <1>6
  <2> QED
    BY <2>1
<1> HIDE DEF g
<1>8. Lineage = CHOOSE f : f = [b \in Block |-> IF b = Genesis THEN {b} ELSE {b} \cup f[Parent[b]]]
  BY Zenon DEF Lineage
<1>9. Lineage = [b \in Block |-> IF b = Genesis THEN {b} ELSE {b} \cup Lineage[Parent[b]]]
  BY <1>7, <1>8, Zenon
<1> QED
  BY <1>9, Zenon

\* A block is in its own lineage.
LEMMA LineageSelf == \A b \in Block : b \in Lineage[b]
BY LineageStep

\* The blocks of a lineage are blocks.
LEMMA LineageBlocks == \A b \in Block : Lineage[b] \subseteq Block
<1> DEFINE Z == {b \in Block : ~(Lineage[b] \subseteq Block)}
<1>1. ASSUME NEW b \in Z PROVE b # Genesis /\ Parent[b] \in Z
  <2>1. b \in Block /\ Parent[b] \in Block /\ ~(Lineage[b] \subseteq Block)
    BY RegistrationAssumption
  <2>2. Lineage[b] = IF b = Genesis THEN {b} ELSE {b} \cup Lineage[Parent[b]]
    BY <2>1, LineageStep
  <2>3. b # Genesis
    BY <2>1, <2>2
  <2>4. ~(Lineage[Parent[b]] \subseteq Block)
    BY <2>1, <2>2, <2>3
  <2> QED
    BY <2>1, <2>3, <2>4
<1>2. Z \in SUBSET Block
  OBVIOUS
<1>3. Z = {}
  <2> HIDE DEF Z
  <2> QED
    BY <1>1, <1>2, RegistrationAssumption
<1> QED
  BY <1>3

\* A factory query finds pools of the factory's family.
LEMMA FoundFamily ==
  ASSUME NEW o \in Owner, NEW b \in Block
  PROVE  /\ Found(o, b) \subseteq Pool /\ IsFiniteSet(Found(o, b))
         /\ \A p \in Found(o, b) : AdapterOf[o] = AdapterOf[p]
<1>1. Found(o, b) \subseteq Pool
  BY DEF Found
<1>2. IsFiniteSet(Found(o, b))
  BY <1>1, RegistrationAssumption, FS_Subset
<1>3. ASSUME NEW p \in Found(o, b) PROVE AdapterOf[o] = AdapterOf[p]
  <2>1. PICK w \in Lineage[b] : <<o, p>> \in Logs[w]
    BY DEF Found
  <2>2. w \in Block
    BY <2>1, LineageBlocks
  <2> QED
    BY <2>1, <2>2, RegistrationAssumption
<1> QED
  BY <1>1, <1>2, <1>3

\* The candidates a report is cut to are among those found.
LEMMA AdmittedShape ==
  ASSUME NEW A, IsFiniteSet(A), NEW limit \in Limits \cup {None}
  PROVE  admitted(A, limit) \in Seq(A)
<1> DEFINE q == SetToSeq(A)
<1>1. q \in Seq(A)
  BY SetToSeqShape
<1>2. limit = None \/ limit[1] \in Nat
  BY RegistrationAssumption DEF None
<1> HIDE DEF q
<1>3. ASSUME limit[1] \in Nat, ~(limit[1] >= Len(q)) PROVE SubSeq(q, 1, limit[1]) \in Seq(A)
  BY <1>1, <1>3
<1>4. admitted(A, limit) = IF limit = None \/ limit[1] >= Len(q) THEN q ELSE SubSeq(q, 1, limit[1])
  BY DEF admitted, q
<1> QED
  BY <1>1, <1>2, <1>3, <1>4

-----------------------------------------------------------------------------
(* Answers to queries. *)

\* The actor that has taken the answer to query d off its list.
Answered(d) == [rt EXCEPT !.discovery = @ \ {d}]

\* A discovery makes candidates of what it found at the actor's point.
LEMMA DiscoverSound ==
  ASSUME NEW W, NEW X, Sound(rt, Lineage[rt.point], W, X), NEW d \in rt.discovery,
         d.pool = None, d.baseline = rt.point, NEW ok \in BOOLEAN
  PROVE  LET T == commit_scheduled_discovery(d, ok) IN
         Sound(T, Lineage[rt.point], W, X) /\ SameWatch(rt, T)
<1> DEFINE K == Lineage[rt.point]
           S == Answered(d)
           found == Found(d.owner[1], d.baseline)
           q == admitted(found, d.limit)
           taken == [i \in 1..Len(q) |->
                       Candidate(d.owner, q[i], {StateQuery(d.owner, d.baseline)}, TRUE)]
           A == retain_factory_candidates(S, taken)
           B == drain_factory_candidates(A, ok)
           T == drain_revalidations(B, ok)
<1>1. rt \in State /\ Owned(rt)
  BY DEF Sound, Owned
<1>2. /\ d \in Query /\ d.owner \in OwnerId /\ d.baseline \in Block /\ d.limit \in Limits \cup {None}
      /\ d.owner[1] \in Owner /\ active_discovery(rt, d.owner)
  <2>1. d \in Query /\ active_discovery(rt, d.owner)
    BY <1>1, QuestionsThere
  <2>2. d.owner \in OwnerId /\ d.baseline \in Block /\ d.limit \in Limits \cup {None}
    BY <2>1, Parts
  <2> QED
    BY <2>1, <2>2, Identities
<1>3. Sound(S, K, W, X) /\ SameWatch(rt, S)
  <2>1. Sound(S, K, W \cup (IF d.pool = None THEN {} ELSE {d.pool[1]}), X) /\ SameWatch(rt, S)
    BY CancelSound DEF Answered
  <2>2. W \cup (IF d.pool = None THEN {} ELSE {d.pool[1]}) = W
    OBVIOUS
  <2> QED
    BY <2>1, <2>2
<1> HIDE DEF S
<1>4. found \subseteq Pool /\ IsFiniteSet(found) /\ \A p \in found : AdapterOf[d.owner[1]] = AdapterOf[p]
  BY <1>2, FoundFamily
<1>5. q \in Seq(found)
  <2> HIDE DEF found
  <2> QED
    BY <1>2, <1>4, AdmittedShape
<1>6. \A i \in 1..Len(q) : q[i] \in Pool /\ AdapterOf[d.owner[1]] = AdapterOf[q[i]]
  <2> HIDE DEF q
  <2> QED
    BY <1>4, <1>5
<1>7. Len(q) \in Nat
  <2> HIDE DEF q
  <2> QED
    BY <1>5
<1> HIDE DEF q, found
<1>8. ASSUME NEW i \in 1..Len(q)
      PROVE  FitCandidate(S, Candidate(d.owner, q[i], {StateQuery(d.owner, d.baseline)}, TRUE), K, X)
  <2> DEFINE e == StateQuery(d.owner, d.baseline)
             c == Candidate(d.owner, q[i], {e}, TRUE)
  <2>1. e \in Evidence /\ e.kind = "query" /\ e.owner = d.owner /\ e.block = d.baseline
    BY <1>2, EvidenceShape
  <2> HIDE DEF e
  <2>2. c \in Cand /\ c.owner = d.owner /\ c.key = q[i] /\ c.evidence = {e} /\ c.revalidate = TRUE
    BY <1>2, <1>6, <2>1 DEF Candidate, Cand
  <2> HIDE DEF c
  <2>3. Backs(S, d.owner, q[i])
    BY <1>2, <1>3, <1>6 DEF SameWatch, Backs, active_discovery
  <2>4. GoodCandidate(S, c)
    BY <2>1, <2>2, <2>3 DEF GoodCandidate, evidence_contains_state_query_owner
  <2>5. d.baseline \in K
    BY <1>2, LineageSelf
  <2>6. GroundedCandidate(c, K, X)
    BY <2>1, <2>2, <2>5 DEF GroundedCandidate, OnChain
  <2>7. FitCandidate(S, c, K, X)
    BY <2>2, <2>4, <2>6 DEF FitCandidate
  <2> QED
    BY <2>7 DEF c, e
<1>9. /\ taken \in Seq(Cand) /\ Len(taken) = Len(q)
      /\ \A i \in 1..Len(taken) : FitCandidate(S, taken[i], K, X)
  <2>1. \A i \in 1..Len(q) : Candidate(d.owner, q[i], {StateQuery(d.owner, d.baseline)}, TRUE) \in Cand
    BY <1>8 DEF FitCandidate
  <2>2. taken \in [1..Len(q) -> Cand]
    BY <2>1
  <2>3. taken \in Seq(Cand) /\ Len(taken) = Len(q)
    <3> HIDE DEF taken
    <3> QED
      BY <1>7, <2>2
  <2>4. \A i \in 1..Len(q) : FitCandidate(S, taken[i], K, X)
    BY <1>8
  <2> QED
    BY <2>3, <2>4
<1> HIDE DEF taken, K
<1>10. Sound(A, K, W, X) /\ SameWatch(S, A)
  BY <1>3, <1>9, RetainAll
<1> HIDE DEF A
<1>11. Sound(B, K, W, X) /\ SameButQueue(A, B)
  BY <1>10, DrainSound
<1> HIDE DEF B
<1>12. Sound(T, K, W, X) /\ SameWatch(B, T)
  BY <1>11, RevalidateAll
<1>13. commit_scheduled_discovery(d, ok) = T
  BY DEF commit_scheduled_discovery, T, B, A, taken, q, found, S, Answered
<1> HIDE DEF T
<1>14. SameWatch(rt, T)
  BY <1>3, <1>10, <1>11, <1>12 DEF SameWatch, SameButQueue
<1> QED
  BY <1>12, <1>13, <1>14 DEF K

\* Taking the answer of a revalidation off the list leaves every other question.
LEMMA AnsweredShape ==
  ASSUME NEW K, NEW W, NEW X, Sound(rt, K, W, X), NEW d \in rt.discovery, d.pool # None
  PROVE  LET S == Answered(d) IN
         /\ S \in State /\ Owned(S) /\ Asks(rt, S, rt.pending, rt.discovery \ {d})
         /\ d.owner \in OwnerId /\ d.pool \in PoolId /\ Backs(rt, d.owner, d.pool[1])
         /\ d.pool[2] <= rt.issued[d.pool[1]]
         /\ \A id \in PoolId, o \in OwnerId :
              AskedOf(rt, id, o) => AskedOf(S, id, o) \/ (id = d.pool /\ o = d.owner)
         /\ rt.trusted =>
              /\ WorkGrounded(S, K, X) /\ CandidatesGrounded(S, K, X)
              /\ \A q \in Pool : S.pools[q].gen > 0 /\ <<q, S.pools[q].gen>> # d.pool =>
                   GroundedPool(S, <<q, S.pools[q].gen>>, K, W, X)
<1> DEFINE S == Answered(d)
           Di == rt.discovery \ {d}
<1>1. rt \in State /\ Owned(rt)
  BY DEF Sound, Owned
<1>2. Di \in SUBSET Query /\ rt.pending \in SUBSET (PoolId \X OwnerId)
  BY <1>1, Fields
<1>3. S = [rt EXCEPT !.discovery = Di]
  BY <1>1 DEF State, Answered
<1>4. S \in State /\ Asks(rt, S, rt.pending, Di)
  BY <1>1, <1>2, <1>3, AsksEither
<1> HIDE DEF S
<1>5. Owned(S)
  <2>1. Di \subseteq rt.discovery
    OBVIOUS
  <2> HIDE DEF Di
  <2> QED
    BY <1>1, <1>4, <2>1, QuestionsThere, AsksOwned
<1>6. /\ d \in Query /\ active_discovery(rt, d.owner)
      /\ AdapterOf[d.owner[1]] = AdapterOf[d.pool[1]] /\ d.pool[2] <= rt.issued[d.pool[1]]
  BY <1>1, QuestionsThere
<1>7. d.owner \in OwnerId /\ d.pool \in PoolId /\ Backs(rt, d.owner, d.pool[1])
  BY <1>6, Parts DEF Backs
<1>8. \A id, o : AskedOf(rt, id, o) => AskedOf(S, id, o) \/ (id = d.pool /\ o = d.owner)
  BY <1>4 DEF AskedOf, Asks
<1>9. ASSUME rt.trusted
      PROVE  /\ WorkGrounded(S, K, X) /\ CandidatesGrounded(S, K, X)
             /\ \A q \in Pool : S.pools[q].gen > 0 /\ <<q, S.pools[q].gen>> # d.pool =>
                  GroundedPool(S, <<q, S.pools[q].gen>>, K, W, X)
  <2>1. Grounded(rt, K, W, X)
    BY <1>9 DEF Sound
  <2>2. /\ S.pools = rt.pools /\ S.evidence = rt.evidence /\ S.revalidation = rt.revalidation
        /\ S.candidates = rt.candidates /\ S.work = rt.work
    BY <1>4 DEF Asks
  <2>3. WorkGrounded(S, K, X) /\ CandidatesGrounded(S, K, X)
    BY <2>1, <2>2 DEF Grounded, WorkGrounded, CandidatesGrounded
  <2>4. ASSUME NEW q \in Pool, S.pools[q].gen > 0, <<q, S.pools[q].gen>> # d.pool
        PROVE  GroundedPool(S, <<q, S.pools[q].gen>>, K, W, X)
    <3> DEFINE i == <<q, S.pools[q].gen>>
    <3>1. GroundedPool(rt, i, K, W, X)
      BY <2>1, <2>2, <2>4 DEF Grounded, PoolsGrounded
    <3>2. i # d.pool
      BY <2>4
    <3> HIDE DEF i
    <3>3. \A o : AskedOf(rt, i, o) => AskedOf(S, i, o)
      BY <1>8, <3>2
    <3>4. GroundedPool(S, i, K, W, X)
      BY <2>2, <3>1, <3>3 DEF GroundedPool
    <3> QED
      BY <3>4 DEF i
  <2> QED
    BY <2>3, <2>4
<1> QED
  BY <1>4, <1>5, <1>6, <1>7, <1>8, <1>9 DEF S

\* A pool found again, or not found: by its other evidence or not at all.
LEMMA RevalidatedSound ==
  ASSUME NEW W, NEW X, Sound(rt, Lineage[rt.point], W, X), NEW d \in rt.discovery,
         d.pool # None, NEW found \in BOOLEAN
  PROVE  LET T == revalidated(Answered(d), d, found) IN
         Sound(T, Lineage[rt.point], W, X) /\ SameWatch(rt, T)
<1> DEFINE K == Lineage[rt.point]
           S == Answered(d)
           id == d.pool
           o == d.owner
           E == S.evidence[id]
           rest == evidence_without_owner(E, o)
           R == S.revalidation[id]
           T == revalidated(S, d, found)
<1>1. /\ S \in State /\ Owned(S) /\ Asks(rt, S, rt.pending, rt.discovery \ {d})
      /\ o \in OwnerId /\ id \in PoolId /\ Backs(rt, o, id[1]) /\ id[2] <= rt.issued[id[1]]
      /\ \A i \in PoolId, x \in OwnerId : AskedOf(rt, i, x) => AskedOf(S, i, x) \/ (i = id /\ x = o)
      /\ rt.trusted =>
           /\ WorkGrounded(S, K, X) /\ CandidatesGrounded(S, K, X)
           /\ \A q \in Pool : S.pools[q].gen > 0 /\ <<q, S.pools[q].gen>> # id =>
                GroundedPool(S, <<q, S.pools[q].gen>>, K, W, X)
  BY AnsweredShape
<1>2. rt \in State /\ Owned(rt)
  BY DEF Sound, Owned
<1>3. /\ S.trusted = rt.trusted /\ S.point = rt.point /\ S.owners = rt.owners /\ S.pools = rt.pools
      /\ S.issued = rt.issued /\ S.evidence = rt.evidence /\ S.revalidation = rt.revalidation
  BY <1>1 DEF Asks
<1>4. S.point \in Block /\ S.point \in K
  BY <1>2, <1>3, Fields, LineageSelf
<1>5. E \in SUBSET Evidence /\ R \in SUBSET OwnerId /\ rest \in SUBSET Evidence
  <2>1. E \in SUBSET Evidence /\ R \in SUBSET OwnerId
    BY <1>1, Fields
  <2> QED
    BY <2>1 DEF evidence_without_owner
<1>6. rest = {e \in E : e.owner # o}
  BY DEF evidence_without_owner
<1>7. /\ Backs(S, o, id[1]) /\ id[2] <= S.issued[id[1]]
      /\ active_pool(S, id) => \A x \in R : /\ Backs(S, x, id[1])
                                            /\ evidence_contains_state_query_owner(E, x)
  BY <1>1, <1>3 DEF Owned, RecipesOK, Backs, active_discovery
<1>8. ASSUME S.trusted, active_pool(S, id), id[1] \notin X
      PROVE  \A e \in E : /\ e.kind = "query" => e.owner \in R /\ e.owner \in OwnerId
                          /\ ~OnChain(K, e) => /\ e.kind = "query"
                                               /\ id[1] \in W \/ AskedOf(S, id, e.owner) \/ e.owner = o
  <2>1. Grounded(rt, K, W, X) /\ id[1] \in Pool /\ id[2] \in 1..MaxGen /\ id = <<id[1], id[2]>>
    BY <1>1, <1>3, <1>8, Identities DEF Sound
  <2>2. rt.pools[id[1]].gen = id[2] /\ rt.pools[id[1]].gen > 0
    BY <1>3, <1>8, <2>1 DEF active_pool
  <2>3. GroundedPool(rt, <<id[1], rt.pools[id[1]].gen>>, K, W, X)
    BY <2>1, <2>2 DEF Grounded, PoolsGrounded
  <2>4. GroundedPool(rt, id, K, W, X)
    BY <2>1, <2>2, <2>3
  <2>5. \A e \in E : e.kind = "query" => e.owner \in OwnerId
    BY <1>5, EvidenceShape
  <2>6. \A e \in E : /\ e.kind = "query" => e.owner \in R
                     /\ ~OnChain(K, e) => e.kind = "query" /\ (id[1] \in W \/ AskedOf(rt, id, e.owner))
    BY <1>3, <1>8, <2>4 DEF GroundedPool
  <2> HIDE DEF id, o, E, R
  <2> QED
    BY <1>1, <2>5, <2>6
<1> HIDE DEF S, id, o, E, rest, R, K
<1>9. CASE found
  <2> DEFINE e0 == StateQuery(o, S.point)
             E2 == {e \in E : e.kind # "query" \/ e.owner # o} \cup {e0}
             R2 == R \cup {o}
  <2>1. T = [S EXCEPT !.evidence[id] = E2, !.revalidation[id] = R2]
    <3>1. T = [S EXCEPT !.evidence[id] = E2, !.revalidation[id] = @ \cup {o}]
      BY <1>9 DEF revalidated, E, id, o
    <3> QED
      BY <1>1, <3>1 DEF R, State
  <2>2. e0 \in Evidence /\ e0.kind = "query" /\ e0.owner = o /\ e0.block = S.point
    BY <1>1, <1>4, EvidenceShape
  <2> HIDE DEF e0, T
  <2>3. E2 \in SUBSET Evidence /\ R2 \in SUBSET OwnerId /\ E2 # {}
    BY <1>1, <1>5, <2>2
  <2>4. \A e \in E2 : e = e0 \/ (e \in E /\ (e.kind = "query" => e.owner # o))
    OBVIOUS
  <2>5. \A x \in R2 : (active_pool(S, id) => Backs(S, x, id[1]) /\ evidence_contains_state_query_owner(E2, x))
    <3> SUFFICES ASSUME NEW x \in R2, active_pool(S, id)
                 PROVE  Backs(S, x, id[1]) /\ evidence_contains_state_query_owner(E2, x)
      OBVIOUS
    <3>1. CASE x = o
      <4>1. e0 \in E2
        OBVIOUS
      <4> QED
        BY <1>7, <2>2, <3>1, <4>1 DEF evidence_contains_state_query_owner
    <3>2. CASE x # o
      <4>1. x \in R
        BY <3>2
      <4>2. PICK e \in E : e.kind = "query" /\ e.owner = x
        BY <1>7, <4>1 DEF evidence_contains_state_query_owner
      <4>3. e \in E2
        BY <3>2, <4>2
      <4> QED
        BY <1>7, <4>1, <4>2, <4>3 DEF evidence_contains_state_query_owner
    <3> QED
      BY <3>1, <3>2
  <2>6. R \subseteq R2 /\ o \in R2
    OBVIOUS
  <2> HIDE DEF E2, R2
  <2>7. T \in State /\ Records(S, T, id, E2, R2)
    BY <1>1, <2>1, <2>3, RecordsShape
  <2>8. Owned(T)
    BY <1>1, <1>7, <2>5, <2>7, RecordsOwned
  <2>9. ASSUME S.trusted PROVE Grounded(T, K, W, X)
    <3>1. ASSUME active_pool(S, id) PROVE GroundedPool(T, id, K, W, X)
      <4>1. T.evidence[id] = E2 /\ T.revalidation[id] = R2 /\ T.pending = S.pending
            /\ T.discovery = S.discovery
        BY <1>1, <2>7, Fields DEF Records
      <4>2. OnChain(K, e0)
        BY <1>4, <2>2 DEF OnChain
      <4>3. \A x : AskedOf(S, id, x) => AskedOf(T, id, x)
        BY <4>1 DEF AskedOf
      <4> QED
        BY <1>8, <2>2, <2>3, <2>4, <2>6, <2>9, <3>1, <4>1, <4>2, <4>3 DEF GroundedPool
    <3> QED
      BY <1>1, <1>3, <2>7, <2>9, <3>1, RecordsGrounded
  <2>10. T.trusted = S.trusted /\ T.point = S.point /\ T.owners = S.owners
    BY <2>7 DEF Records
  <2> QED
    BY <1>3, <2>8, <2>9, <2>10 DEF Sound, SameWatch, T, K, S
<1>10. CASE ~found /\ ~active_pool(S, id)
  <2>1. T = S
    BY <1>10 DEF revalidated, id
  <2>2. ASSUME S.trusted PROVE Grounded(S, K, W, X)
    <3>1. \A q \in Pool : <<q, S.pools[q].gen>> # id
      BY <1>10 DEF active_pool
    <3> QED
      BY <1>1, <1>3, <2>2, <3>1 DEF Grounded, PoolsGrounded
  <2> HIDE DEF T
  <2> QED
    BY <1>1, <1>3, <2>1, <2>2 DEF Sound, SameWatch, T, K, S
<1>11. CASE ~found /\ active_pool(S, id) /\ rest # {}
  <2> DEFINE R2 == R \ {o}
  <2>1. T = [S EXCEPT !.evidence[id] = rest, !.revalidation[id] = R2]
    <3>1. T = [S EXCEPT !.revalidation[id] = @ \ {o}, !.evidence[id] = rest]
      BY <1>11 DEF revalidated, E, id, o, rest
    <3> QED
      BY <1>1, <3>1 DEF R, State
  <2> HIDE DEF T
  <2>2. R2 \in SUBSET OwnerId /\ \A x \in R2 : x \in R /\ x # o
    BY <1>5
  <2>3. \A x \in R2 : Backs(S, x, id[1]) /\ evidence_contains_state_query_owner(rest, x)
    BY <1>6, <1>7, <1>11, <2>2 DEF evidence_contains_state_query_owner
  <2>4. \A e \in E : e.owner # o /\ e.owner \in R => e.owner \in R2
    OBVIOUS
  <2> HIDE DEF R2
  <2>5. T \in State /\ Records(S, T, id, rest, R2)
    BY <1>1, <1>5, <2>1, <2>2, RecordsShape
  <2>6. Owned(T)
    BY <1>1, <1>7, <2>3, <2>5, RecordsOwned
  <2>7. ASSUME S.trusted PROVE Grounded(T, K, W, X)
    <3>1. ASSUME active_pool(S, id) PROVE GroundedPool(T, id, K, W, X)
      <4>1. T.evidence[id] = rest /\ T.revalidation[id] = R2 /\ T.pending = S.pending
            /\ T.discovery = S.discovery
        BY <1>1, <2>5, Fields DEF Records
      <4>3. \A x : AskedOf(S, id, x) => AskedOf(T, id, x)
        BY <4>1 DEF AskedOf
      <4> QED
        BY <1>6, <1>8, <1>11, <2>4, <2>7, <3>1, <4>1, <4>3 DEF GroundedPool
    <3> QED
      BY <1>1, <1>3, <2>5, <2>7, <3>1, RecordsGrounded
  <2>8. T.trusted = S.trusted /\ T.point = S.point /\ T.owners = S.owners
    BY <2>5 DEF Records
  <2> QED
    BY <1>3, <2>6, <2>7, <2>8 DEF Sound, SameWatch, T, K, S
<1>12. CASE ~found /\ active_pool(S, id) /\ rest = {}
  <2>1. T = remove_pool_serialized(S, id)
    BY <1>12 DEF revalidated, E, id, o, rest
  <2> HIDE DEF T
  <2>2. T \in State /\ Removes(S, T, id)
    BY <1>1, <2>1, RemoveShape
  <2>3. Owned(T)
    BY <1>1, <1>12, <2>2, RemovesOwned
  <2>4. ASSUME S.trusted PROVE Grounded(T, K, W, X)
    <3>1. \A q \in Pool : q # id[1] => <<q, S.pools[q].gen>> # id
      OBVIOUS
    <3> QED
      BY <1>1, <1>3, <2>2, <2>4, <3>1, RemovesGrounded
  <2>5. T.trusted = S.trusted /\ T.point = S.point /\ T.owners = S.owners
    BY <2>2 DEF Removes
  <2> QED
    BY <1>3, <2>3, <2>4, <2>5 DEF Sound, SameWatch, T, K, S
<1> QED
  BY <1>9, <1>10, <1>11, <1>12

\* The answer to a revalidation: an untrusted actor only drops the recipe of a
\* pool it may not remove.
LEMMA AnswerSound ==
  ASSUME NEW W, NEW X, Sound(rt, Lineage[rt.point], W, X), NEW d \in rt.discovery,
         d.pool # None, NEW ok \in BOOLEAN
  PROVE  LET T == commit_scheduled_discovery(d, ok) IN
         Sound(T, Lineage[rt.point], W, X) /\ SameWatch(rt, T)
<1> DEFINE K == Lineage[rt.point]
           S == Answered(d)
           found == Found(d.owner[1], d.baseline)
           lost == d.pool # None /\ d.pool[1] \notin found /\ active_pool(rt, d.pool)
                   /\ evidence_without_owner(rt.evidence[d.pool], d.owner) = {}
           T == commit_scheduled_discovery(d, ok)
<1>1. CASE lost /\ ~rt.trusted
  <2> DEFINE id == d.pool
             R2 == S.revalidation[id] \ {d.owner}
             rv == [S.revalidation EXCEPT ![id] = R2]
  <2>1. T = [S EXCEPT !.revalidation[id] = @ \ {d.owner}]
    BY <1>1, Zenon DEF commit_scheduled_discovery, Answered
  <2>2. /\ S \in State /\ Owned(S) /\ Asks(rt, S, rt.pending, rt.discovery \ {d})
        /\ id \in PoolId /\ id[2] <= rt.issued[id[1]]
    BY AnsweredShape
  <2> HIDE DEF S, T
  <2>3. T = [S EXCEPT !.revalidation = rv]
    BY <2>1, <2>2 DEF State
  <2>4. rv \in [PoolId -> SUBSET OwnerId] /\ R2 \subseteq S.revalidation[id]
    BY <2>2, Fields
  <2> HIDE DEF rv
  <2>5. T \in State
    BY <2>2, <2>3, <2>4 DEF State
  <2>6. /\ T.revalidation = rv /\ T.evidence = S.evidence
        /\ T.trusted = S.trusted /\ T.attached = S.attached /\ T.point = S.point
        /\ T.adapters = S.adapters /\ T.owners = S.owners /\ T.pools = S.pools /\ T.issued = S.issued
        /\ T.pending = S.pending /\ T.candidates = S.candidates /\ T.work = S.work
        /\ T.discovery = S.discovery
    BY <2>2, <2>3 DEF State
  <2>7. S.evidence = [S.evidence EXCEPT ![id] = S.evidence[id]]
    BY <2>2, Fields
  <2>8. Records(S, T, id, S.evidence[id], R2)
    BY <2>6, <2>7 DEF Records, rv
  <2>9. /\ R2 # {} => id[2] <= S.issued[id[1]]
        /\ active_pool(S, id) => \A o \in R2 : /\ Backs(S, o, id[1])
                                               /\ evidence_contains_state_query_owner(S.evidence[id], o)
    BY <2>2, <2>4 DEF Owned, RecipesOK
  <2>10. Owned(T)
    <3> HIDE DEF R2, id
    <3> QED
      BY <2>2, <2>5, <2>8, <2>9, RecordsOwned
  <2>11. ~T.trusted /\ T.point = rt.point /\ T.owners = rt.owners
    BY <1>1, <2>2, <2>6 DEF Asks
  <2> QED
    BY <2>10, <2>11 DEF Sound, SameWatch, T
<1>2. CASE ~(lost /\ ~rt.trusted)
  <2> DEFINE A == revalidated(S, d, d.pool[1] \in found)
  <2>1. T = drain_revalidations(A, ok)
    BY <1>2, Zenon DEF commit_scheduled_discovery, Answered
  <2>2. (d.pool[1] \in found) \in BOOLEAN
    OBVIOUS
  <2>3. Sound(A, K, W, X) /\ SameWatch(rt, A)
    <3> HIDE DEF found
    <3> QED
      BY <2>2, RevalidatedSound
  <2> HIDE DEF A, T, K
  <2>4. Sound(T, K, W, X) /\ SameWatch(A, T)
    BY <2>1, <2>3, RevalidateAll
  <2>5. SameWatch(rt, T)
    BY <2>3, <2>4 DEF SameWatch
  <2> QED
    BY <2>4, <2>5 DEF T, K
<1> QED
  BY <1>1, <1>2

\* A query that failed is kept for a retry, asked again, or costs the trust.
LEMMA FailQuerySound ==
  ASSUME NEW K, NEW W, NEW X, Sound(rt, K, W, X), NEW d \in rt.discovery,
         NEW stale \in BOOLEAN, NEW ok \in BOOLEAN
  PROVE  LET T == fail_scheduled_discovery(d, stale, ok) IN
         Sound(T, K, W, X) /\ SameWatch(rt, T)
<1> DEFINE S == Answered(d)
           alive == active_discovery(rt, d.owner)
           T == fail_scheduled_discovery(d, stale, ok)
<1>1. rt \in State /\ Owned(rt)
  BY DEF Sound, Owned
<1>2. CASE d.pool # None /\ alive /\ active_pool(rt, d.pool)
  <2> DEFINE key == <<d.pool, d.owner>>
             Pe == rt.pending \cup {key}
             Di == rt.discovery \ {d}
             A == [S EXCEPT !.pending = @ \cup {key}]
  <2>1. T = drain_revalidations(A, ok)
    BY <1>2 DEF fail_scheduled_discovery, Answered
  <2>2. /\ d.owner \in OwnerId /\ d.pool \in PoolId /\ Backs(rt, d.owner, d.pool[1])
    BY <1>2, AnsweredShape
  <2>3. Pe \in SUBSET (PoolId \X OwnerId) /\ Di \in SUBSET Query
    BY <1>1, <2>2, Fields
  <2>4. A = [rt EXCEPT !.pending = Pe, !.discovery = Di]
    BY <1>1 DEF State, Answered
  <2>5. A \in State /\ Asks(rt, A, Pe, Di)
    BY <1>1, <2>3, <2>4, AsksShape
  <2> HIDE DEF A, T
  <2>6. \A x \in Pe : active_pool(rt, x[1]) /\ Backs(rt, x[2], x[1][1])
    BY <1>1, <1>2, <2>2, QuestionsThere
  <2>7. \A x \in Di : x \in rt.discovery
    OBVIOUS
  <2>8. \A id \in PoolId, o \in OwnerId : AskedOf(rt, id, o) => AskedOf(A, id, o) \/ id[1] \in W
    <3> SUFFICES ASSUME NEW id \in PoolId, NEW o \in OwnerId, AskedOf(rt, id, o)
                 PROVE  AskedOf(A, id, o)
      OBVIOUS
    <3>1. A.pending = Pe /\ A.discovery = Di
      BY <2>5 DEF Asks
    <3> QED
      BY <3>1 DEF AskedOf
  <2> HIDE DEF Pe, Di
  <2>9. Owned(A)
    BY <1>1, <2>5, <2>6, <2>7, QuestionsThere, AsksOwned
  <2>10. ASSUME rt.trusted PROVE Grounded(A, K, W, X)
    <3>1. Grounded(rt, K, W, X)
      BY <2>10 DEF Sound
    <3>2. /\ A.pools = rt.pools /\ A.evidence = rt.evidence /\ A.revalidation = rt.revalidation
          /\ A.candidates = rt.candidates /\ A.work = rt.work
      BY <2>5 DEF Asks
    <3> QED
      BY <1>1, <2>5, <2>8, <3>1, <3>2, GroundedFrame
  <2>11. Sound(A, K, W, X) /\ SameWatch(rt, A)
    BY <2>5, <2>9, <2>10 DEF Sound, SameWatch, Asks
  <2>12. Sound(T, K, W, X) /\ SameWatch(A, T)
    BY <2>1, <2>11, RevalidateAll
  <2>13. SameWatch(rt, T)
    BY <2>11, <2>12 DEF SameWatch
  <2> QED
    BY <2>12, <2>13 DEF T
<1>3. CASE d.pool # None /\ ~(alive /\ active_pool(rt, d.pool))
  <2>1. T = mark_untrusted(S)
    BY <1>3 DEF fail_scheduled_discovery, Answered
  <2>2. S \in State /\ Owned(S) /\ Asks(rt, S, rt.pending, rt.discovery \ {d})
    BY <1>3, AnsweredShape
  <2> HIDE DEF S
  <2>3. Sound(mark_untrusted(S), K, W, X)
    BY <2>2, UntrustedSound
  <2>4. /\ mark_untrusted(S).trusted = FALSE /\ mark_untrusted(S).owners = S.owners
        /\ mark_untrusted(S).point = S.point
    BY <2>2, UntrustedShape
  <2>5. SameWatch(rt, mark_untrusted(S))
    BY <2>2, <2>4 DEF SameWatch, Asks
  <2> HIDE DEF T
  <2> QED
    BY <2>1, <2>3, <2>5 DEF T
<1>4. CASE d.pool = None
  <2>1. Sound(S, K, W, X) /\ SameWatch(rt, S)
    <3>1. Sound(S, K, W \cup (IF d.pool = None THEN {} ELSE {d.pool[1]}), X) /\ SameWatch(rt, S)
      BY CancelSound DEF Answered
    <3>2. W \cup (IF d.pool = None THEN {} ELSE {d.pool[1]}) = W
      BY <1>4
    <3> QED
      BY <3>1, <3>2
  <2>2. T = IF stale /\ alive /\ rt.trusted /\ ok THEN queue_discovery(S, d.owner, None, None) ELSE S
    BY <1>4 DEF fail_scheduled_discovery, Answered
  <2>3. d.owner \in OwnerId /\ active_discovery(rt, d.owner)
    BY <1>1, QuestionsThere, Parts
  <2> HIDE DEF S
  <2>4. active_discovery(S, d.owner)
    BY <2>1, <2>3 DEF SameWatch, active_discovery
  <2> DEFINE Q == queue_discovery(S, d.owner, None, None)
  <2>5. Sound(Q, K, W, X) /\ SameWatch(S, Q)
    BY <2>1, <2>3, <2>4, QueueDiscoverySound
  <2> HIDE DEF Q, T
  <2>6. SameWatch(rt, Q)
    BY <2>1, <2>5 DEF SameWatch
  <2>7. T = Q \/ T = S
    BY <2>2 DEF Q
  <2> QED
    BY <2>1, <2>5, <2>6, <2>7 DEF T
<1> QED
  BY <1>2, <1>3, <1>4

-----------------------------------------------------------------------------
(* A reorganisation, pool by pool. *)

\* SetToSeq lists every element once.
LEMMA SetToSeqOnce ==
  ASSUME NEW A, IsFiniteSet(A)
  PROVE  IsInjective(SetToSeq(A))
<1> DEFINE n == Cardinality(A)
<1>1. n \in Nat /\ ExistsBijection(1..n, A)
  BY FS_CardinalityType
<1>2. PICK f : f \in Bijection(1..n, A)
  BY <1>1 DEF ExistsBijection
<1>3. f \in [1..n -> A] /\ IsInjective(f)
  BY <1>2 DEF Bijection, Injection
<1> QED
  BY <1>3, Zenon DEF SetToSeq

\* Pool id's evidence is cut to E, and its recipes are asked again.
Reasks(S, T, id, E) ==
  /\ T.evidence = [S.evidence EXCEPT ![id] = E]
  /\ T.pending = S.pending \cup {<<id, o>> : o \in S.revalidation[id]}
  /\ T.trusted = S.trusted /\ T.attached = S.attached /\ T.point = S.point
  /\ T.adapters = S.adapters /\ T.owners = S.owners /\ T.pools = S.pools /\ T.issued = S.issued
  /\ T.revalidation = S.revalidation
  /\ T.candidates = S.candidates /\ T.work = S.work /\ T.discovery = S.discovery

\* The record that asks them.
LEMMA ReasksShape ==
  ASSUME NEW S \in State, NEW id \in PoolId, NEW E \in SUBSET Evidence
  PROVE  LET T == [S EXCEPT !.evidence[id] = E,
                            !.pending = @ \cup {<<id, o>> : o \in S.revalidation[id]}] IN
         T \in State /\ Reasks(S, T, id, E)
<1> DEFINE T == [S EXCEPT !.evidence[id] = E,
                          !.pending = @ \cup {<<id, o>> : o \in S.revalidation[id]}]
           ev == [S.evidence EXCEPT ![id] = E]
           pe == S.pending \cup {<<id, o>> : o \in S.revalidation[id]}
<1>1. T = [S EXCEPT !.evidence = ev, !.pending = pe]
  BY DEF State
<1>2. ev \in [PoolId -> SUBSET Evidence]
  BY Fields
<1>3. pe \in SUBSET (PoolId \X OwnerId)
  <2>1. S.revalidation[id] \subseteq OwnerId /\ S.pending \subseteq PoolId \X OwnerId
    BY Fields
  <2> QED
    BY <2>1
<1> HIDE DEF T, ev, pe
<1>4. T \in State
  BY <1>1, <1>2, <1>3 DEF State
<1>5. /\ T.evidence = ev /\ T.pending = pe
      /\ T.trusted = S.trusted /\ T.attached = S.attached /\ T.point = S.point
      /\ T.adapters = S.adapters /\ T.owners = S.owners /\ T.pools = S.pools /\ T.issued = S.issued
      /\ T.revalidation = S.revalidation
      /\ T.candidates = S.candidates /\ T.work = S.work /\ T.discovery = S.discovery
  BY <1>1 DEF State
<1>6. Reasks(S, T, id, E)
  BY <1>5 DEF Reasks, ev, pe
<1> QED
  BY <1>4, <1>6 DEF T

\* Asking an active pool's recipes again, its queries kept, keeps ownership.
LEMMA ReasksOwned ==
  ASSUME NEW S, NEW T \in State, Owned(S), NEW id \in PoolId, active_pool(S, id),
         NEW E, E \subseteq S.evidence[id], \A e \in S.evidence[id] : e.kind = "query" => e \in E,
         Reasks(S, T, id, E)
  PROVE  Owned(T)
<1>1. S \in State /\ S.evidence \in [PoolId -> SUBSET Evidence]
  BY Fields DEF Owned
<1>2. /\ T.adapters = S.adapters /\ T.owners = S.owners /\ T.pools = S.pools /\ T.issued = S.issued
      /\ T.revalidation = S.revalidation
      /\ T.candidates = S.candidates /\ T.work = S.work /\ T.discovery = S.discovery
  BY DEF Reasks
<1>3. T.evidence[id] = E /\ \A i \in PoolId : i # id => T.evidence[i] = S.evidence[i]
  BY <1>1 DEF Reasks
<1>4. LivesOK(T)
  BY <1>2 DEF Owned, LivesOK, active_adapter
<1>5. WorkOK(T)
  BY <1>2 DEF Owned, WorkOK, GoodWork, active_adapter, Backs, active_discovery
<1>6. CandidatesOK(T)
  BY <1>2 DEF Owned, CandidatesOK, GoodCandidate, Backs, active_discovery
<1>7. RecipesOK(T)
  <2>1. \A i \in PoolId : \A o : evidence_contains_state_query_owner(S.evidence[i], o) =>
          evidence_contains_state_query_owner(T.evidence[i], o)
    BY <1>3 DEF evidence_contains_state_query_owner
  <2> QED
    BY <1>2, <2>1 DEF Owned, RecipesOK, active_pool, Backs, active_discovery
<1>8. QueriesOK(T)
  BY <1>2 DEF Owned, QueriesOK, active_discovery
<1>9. PendingOK(T)
  <2> SUFFICES ASSUME NEW x \in T.pending PROVE active_pool(T, x[1]) /\ Backs(T, x[2], x[1][1])
    BY DEF PendingOK
  <2>1. CASE x \in S.pending
    BY <1>2, <2>1 DEF Owned, PendingOK, active_pool, Backs, active_discovery
  <2>2. CASE x \notin S.pending
    <3>1. PICK o \in S.revalidation[id] : x = <<id, o>>
      BY <2>2 DEF Reasks
    <3>2. Backs(S, o, id[1])
      BY <3>1 DEF Owned, RecipesOK
    <3> QED
      BY <1>2, <3>1, <3>2 DEF active_pool, Backs, active_discovery
  <2> QED
    BY <2>1, <2>2
<1> QED
  BY <1>4, <1>5, <1>6, <1>7, <1>8, <1>9 DEF Owned

\* The fields that a reorganisation of the pools leaves alone.
SameButPools(S, T) ==
  /\ T.attached = S.attached /\ T.point = S.point /\ T.adapters = S.adapters
  /\ T.owners = S.owners /\ T.issued = S.issued /\ T.candidates = S.candidates
  /\ T.work = S.work /\ T.discovery = S.discovery /\ (T.trusted => S.trusted)

\* Nothing has happened to pool id.
Untouched(S, T, id) ==
  /\ active_pool(T, id) <=> active_pool(S, id)
  /\ T.evidence[id] = S.evidence[id] /\ T.revalidation[id] = S.revalidation[id]

\* Pool id is gone, or without its dropped logs and asked after.
Settled(S, T, id, dropped) ==
  active_pool(T, id) =>
    /\ T.evidence[id] # {}
    /\ T.evidence[id] \subseteq {e \in S.evidence[id] : ~(e.kind = "log" /\ e.block \in dropped)}
    /\ T.revalidation[id] = S.revalidation[id]
    /\ \A o \in T.revalidation[id] : <<id, o>> \in T.pending

\* The turns of reorganise_pools after the pools in P.
Reorganised(S, dropped, P) ==
  {x \in [state : State, stop : BOOLEAN] :
     LET T == x.state IN
     /\ Owned(T) /\ SameButPools(S, T) /\ (x.stop => ~T.trusted)
     /\ \A i \in PoolId : active_pool(T, i) => active_pool(S, i)
     /\ \A i \in PoolId : i \notin P => Untouched(S, T, i)
     /\ T.trusted => \A i \in P : Settled(S, T, i, dropped)
     /\ \A i \in PoolId, o \in OwnerId :
          <<i, o>> \in S.pending /\ active_pool(T, i) => <<i, o>> \in T.pending}

\* What a reorganisation makes of one pool.
LEMMA ReorganiseCases ==
  ASSUME NEW S \in State, NEW id \in PoolId, NEW action, NEW dropped
  PROVE  LET kept == {e \in S.evidence[id] : ~(e.kind = "log" /\ e.block \in dropped)}
             T == reorganise(S, id, action, dropped)
         IN  /\ T \in State
             /\ \/ action = "remove" /\ T = remove_pool_serialized(S, id)
                \/ action # "remove" /\ kept # {} /\ Reasks(S, T, id, kept)
                \/ action # "remove" /\ T = mark_untrusted(S)
<1> DEFINE kept == {e \in S.evidence[id] : ~(e.kind = "log" /\ e.block \in dropped)}
           T == reorganise(S, id, action, dropped)
<1>1. CASE action = "remove"
  <2>1. T = remove_pool_serialized(S, id)
    BY <1>1 DEF reorganise
  <2> QED
    BY <1>1, <2>1, RemoveShape
<1>2. CASE action = "revalidate" /\ S.revalidation[id] # {} /\ kept # {}
  <2>1. T = [S EXCEPT !.evidence[id] = kept,
                      !.pending = @ \cup {<<id, o>> : o \in S.revalidation[id]}]
    BY <1>2 DEF reorganise
  <2>2. kept \in SUBSET Evidence
    BY Fields
  <2> HIDE DEF kept, T
  <2>3. T \in State /\ Reasks(S, T, id, kept)
    BY <2>1, <2>2, ReasksShape
  <2> QED
    BY <1>2, <2>3 DEF kept, T
<1>3. CASE action # "remove" /\ ~(action = "revalidate" /\ S.revalidation[id] # {} /\ kept # {})
  <2>1. T = mark_untrusted(S)
    BY <1>3 DEF reorganise
  <2> QED
    BY <1>3, <2>1, UntrustedShape
<1> QED
  BY <1>1, <1>2, <1>3

\* One turn of reorganise_pools.
LEMMA ReorganiseOne ==
  ASSUME NEW S \in State, NEW dropped, NEW P \in SUBSET PoolId,
         NEW x \in Reorganised(S, dropped, P), NEW id \in PoolId, id \notin P, active_pool(S, id), NEW action
  PROVE  reorganise_one(x, id, action, dropped) \in Reorganised(S, dropped, P \cup {id})
<1> DEFINE U == x.state
           y == reorganise_one(x, id, action, dropped)
           T == reorganise(U, id, action, dropped)
           kept == {e \in U.evidence[id] : ~(e.kind = "log" /\ e.block \in dropped)}
           P2 == P \cup {id}
<1>1. /\ x \in [state : State, stop : BOOLEAN] /\ U \in State /\ x.stop \in BOOLEAN
      /\ Owned(U) /\ SameButPools(S, U) /\ (x.stop => ~U.trusted)
      /\ \A i \in PoolId : active_pool(U, i) => active_pool(S, i)
      /\ \A i \in PoolId : i \notin P => Untouched(S, U, i)
      /\ U.trusted => \A i \in P : Settled(S, U, i, dropped)
      /\ \A i \in PoolId, o \in OwnerId :
           <<i, o>> \in S.pending /\ active_pool(U, i) => <<i, o>> \in U.pending
  BY DEF Reorganised
<1>2. Untouched(S, U, id) /\ active_pool(U, id)
  BY <1>1 DEF Untouched
<1>3. \A i \in PoolId : i \notin P2 => i \notin P /\ i # id
  OBVIOUS
<1>4. CASE x.stop \/ (action = "remove" /\ ~U.trusted)
  <2>1. y = x \/ y = [x EXCEPT !.stop = TRUE]
    BY <1>4 DEF reorganise_one
  <2>2. ~U.trusted
    BY <1>1, <1>4
  <2>3. y \in [state : State, stop : BOOLEAN] /\ y.state = U
    BY <1>1, <2>1
  <2> HIDE DEF y, U, P2
  <2> QED
    BY <1>1, <1>3, <2>2, <2>3 DEF Reorganised, y, P2
<1>5. CASE ~(x.stop \/ (action = "remove" /\ ~U.trusted))
  <2>1. y = [x EXCEPT !.state = T]
    BY <1>5 DEF reorganise_one
  <2>2. /\ T \in State
        /\ \/ action = "remove" /\ T = remove_pool_serialized(U, id)
           \/ action # "remove" /\ kept # {} /\ Reasks(U, T, id, kept)
           \/ action # "remove" /\ T = mark_untrusted(U)
    BY <1>1, ReorganiseCases
  <2> HIDE DEF T
  <2>3. y \in [state : State, stop : BOOLEAN] /\ y.state = T /\ y.stop = FALSE
    BY <1>1, <1>5, <2>1, <2>2
  <2> HIDE DEF y, U
  <2>4. CASE T = remove_pool_serialized(U, id)
    <3>1. Removes(U, T, id)
      BY <1>1, <2>4, RemoveShape
    <3>2. /\ T.pools[id[1]].gen = 0
          /\ \A q \in Pool : q # id[1] => T.pools[q] = U.pools[q]
          /\ \A i \in PoolId : i # id =>
               T.evidence[i] = U.evidence[i] /\ T.revalidation[i] = U.revalidation[i]
          /\ \A z \in PoolId \X OwnerId : z \in T.pending <=> z \in U.pending /\ z[1] # id
      BY <1>1, <3>1, RemovesFields
    <3>3. Owned(T)
      BY <1>1, <1>2, <2>2, <3>1, RemovesOwned
    <3>4. SameButPools(S, T)
      BY <1>1, <3>1 DEF SameButPools, Removes
    <3>5. \A i \in PoolId : active_pool(T, i) => i[1] # id[1] /\ i # id
      BY <3>2, Identities DEF active_pool
    <3>6. \A i \in PoolId : active_pool(T, i) => active_pool(U, i)
      BY <3>2, <3>5, Identities DEF active_pool
    <3>7. \A i \in PoolId : i # id => (active_pool(U, i) => active_pool(T, i))
      BY <1>2, <3>2, Identities DEF active_pool
    <3>8. \A i \in PoolId : i \notin P2 => Untouched(S, T, i)
      BY <1>1, <1>3, <3>2, <3>6, <3>7 DEF Untouched
    <3>9. \A i \in PoolId, o \in OwnerId : i # id => (<<i, o>> \in U.pending <=> <<i, o>> \in T.pending)
      BY <3>2
    <3>10. ASSUME T.trusted, NEW i \in P2 PROVE Settled(S, T, i, dropped)
      <4>1. CASE i = id
        BY <3>5, <4>1 DEF Settled
      <4>2. CASE i # id
        <5>1. Settled(S, U, i, dropped) /\ U.trusted
          BY <1>1, <3>1, <3>10, <4>2 DEF Removes
        <5>2. SUFFICES ASSUME active_pool(T, i) PROVE Settled(S, T, i, dropped)
          BY DEF Settled
        <5>3. i \in PoolId => /\ active_pool(U, i) /\ T.evidence[i] = U.evidence[i]
                              /\ T.revalidation[i] = U.revalidation[i]
          BY <3>2, <3>6, <4>2, <5>2
        <5>4. i \in PoolId => U.revalidation[i] \subseteq OwnerId
          BY <1>1, Fields
        <5>5. i \in PoolId
          BY <1>1, <3>10, <4>2
        <5> QED
          BY <3>9, <4>2, <5>1, <5>3, <5>4, <5>5 DEF Settled
      <4> QED
        BY <4>1, <4>2
    <3>11. \A i \in PoolId, o \in OwnerId :
             <<i, o>> \in S.pending /\ active_pool(T, i) => <<i, o>> \in T.pending
      BY <1>1, <3>5, <3>6, <3>9
    <3> HIDE DEF P2
    <3> QED
      BY <1>1, <2>3, <3>3, <3>4, <3>6, <3>8, <3>10, <3>11 DEF Reorganised, y, P2
  <2>5. CASE kept # {} /\ Reasks(U, T, id, kept)
    <3>1. /\ kept \subseteq U.evidence[id]
          /\ \A e \in U.evidence[id] : e.kind = "query" => e \in kept
      OBVIOUS
    <3>2. Owned(T)
      <4> HIDE DEF kept
      <4> QED
        BY <1>1, <1>2, <2>2, <2>5, <3>1, ReasksOwned
    <3>3. SameButPools(S, T)
      BY <1>1, <2>5 DEF SameButPools, Reasks
    <3>4. T.pools = U.pools /\ T.revalidation = U.revalidation /\ T.trusted = U.trusted
      BY <2>5 DEF Reasks
    <3>5. \A i \in PoolId : active_pool(T, i) <=> active_pool(U, i)
      BY <3>4 DEF active_pool
    <3>6. /\ T.evidence[id] = kept /\ \A i \in PoolId : i # id => T.evidence[i] = U.evidence[i]
      BY <1>1, <2>5, Fields DEF Reasks
    <3>7. /\ \A z \in U.pending : z \in T.pending
          /\ \A o \in U.revalidation[id] : <<id, o>> \in T.pending
      BY <2>5 DEF Reasks
    <3>8. \A i \in PoolId : i \notin P2 => Untouched(S, T, i)
      BY <1>1, <1>3, <3>4, <3>5, <3>6 DEF Untouched
    <3>9. ASSUME T.trusted, NEW i \in P2 PROVE Settled(S, T, i, dropped)
      <4>1. CASE i = id
        <5>1. S.evidence[id] = U.evidence[id] /\ S.revalidation[id] = U.revalidation[id]
          BY <1>2 DEF Untouched
        <5> QED
          BY <2>5, <3>4, <3>6, <3>7, <4>1, <5>1 DEF Settled
      <4>2. CASE i # id
        <5>1. Settled(S, U, i, dropped) /\ i \in P
          BY <1>1, <3>4, <3>9, <4>2
        <5>2. SUFFICES ASSUME active_pool(T, i) PROVE Settled(S, T, i, dropped)
          BY DEF Settled
        <5>3. i \in PoolId
          BY <1>1, <3>9, <4>2
        <5> QED
          BY <3>4, <3>5, <3>6, <3>7, <4>2, <5>1, <5>2, <5>3 DEF Settled
      <4> QED
        BY <4>1, <4>2
    <3>10. \A i \in PoolId, o \in OwnerId :
             <<i, o>> \in S.pending /\ active_pool(T, i) => <<i, o>> \in T.pending
      BY <1>1, <3>5, <3>7
    <3> HIDE DEF P2, kept
    <3> QED
      BY <1>1, <2>3, <3>2, <3>3, <3>5, <3>8, <3>9, <3>10 DEF Reorganised, y, P2
  <2>6. CASE T = mark_untrusted(U)
    <3>1. /\ T.trusted = FALSE /\ T.attached = U.attached /\ T.point = U.point
          /\ T.adapters = U.adapters /\ T.owners = U.owners /\ T.pools = U.pools
          /\ T.issued = U.issued /\ T.evidence = U.evidence /\ T.revalidation = U.revalidation
          /\ T.pending = U.pending /\ T.candidates = U.candidates /\ T.work = U.work
          /\ T.discovery = U.discovery
      BY <1>1, <2>6, UntrustedShape
    <3>2. Owned(T)
      BY <1>1, <2>2, <3>1, OwnedFrame
    <3>3. SameButPools(S, T)
      BY <1>1, <3>1 DEF SameButPools
    <3>4. \A i \in PoolId : active_pool(T, i) <=> active_pool(U, i)
      BY <3>1 DEF active_pool
    <3>5. \A i \in PoolId : i \notin P2 => Untouched(S, T, i)
      BY <1>1, <1>3, <3>1, <3>4 DEF Untouched
    <3>6. \A i \in PoolId, o \in OwnerId :
             <<i, o>> \in S.pending /\ active_pool(T, i) => <<i, o>> \in T.pending
      BY <1>1, <3>1, <3>4
    <3> HIDE DEF P2
    <3> QED
      BY <1>1, <2>3, <3>1, <3>2, <3>3, <3>4, <3>5, <3>6 DEF Reorganised, y, P2
  <2> QED
    BY <2>2, <2>4, <2>5, <2>6
<1> QED
  BY <1>4, <1>5

\* The active pools of S none of whose evidence survives.
Hit(S, dropped) ==
  {id \in {<<p, S.pools[p].gen>> : p \in {q \in Pool : S.pools[q].gen > 0}} :
     reorg_action(S.evidence[id], dropped) # "keep"}

\* They are active pools, and finitely many.
LEMMA HitShape ==
  ASSUME NEW S \in State, NEW dropped
  PROVE  /\ Hit(S, dropped) \in SUBSET PoolId /\ IsFiniteSet(Hit(S, dropped))
         /\ \A id \in Hit(S, dropped) : active_pool(S, id)
         /\ \A id \in PoolId : active_pool(S, id) /\ id \notin Hit(S, dropped) =>
              reorg_action(S.evidence[id], dropped) = "keep"
<1>1. ASSUME NEW id \in Hit(S, dropped) PROVE id \in PoolId /\ active_pool(S, id)
  <2>1. PICK p \in Pool : S.pools[p].gen > 0 /\ id = <<p, S.pools[p].gen>>
    BY DEF Hit
  <2>2. S.pools[p].gen \in 1..MaxGen
    BY <2>1, Lives
  <2> QED
    BY <2>1, <2>2, Identities DEF active_pool
<1>2. Hit(S, dropped) \in SUBSET PoolId
  BY <1>1
<1>3. IsFiniteSet(Hit(S, dropped))
  BY <1>2, FiniteIds, FS_Subset
<1>4. ASSUME NEW id \in PoolId, active_pool(S, id), id \notin Hit(S, dropped)
      PROVE  reorg_action(S.evidence[id], dropped) = "keep"
  <2>1. id[1] \in Pool /\ id[2] \in 1..MaxGen /\ id = <<id[1], id[2]>> /\ S.pools[id[1]].gen = id[2]
    BY <1>4, Identities DEF active_pool
  <2>2. id \in {<<p, S.pools[p].gen>> : p \in {q \in Pool : S.pools[q].gen > 0}}
    BY <2>1
  <2> QED
    BY <1>4, <2>2 DEF Hit
<1> QED
  BY <1>1, <1>2, <1>3, <1>4

\* reorganise_pools settles every pool that was hit.
LEMMA ReorganiseAll ==
  ASSUME NEW S, Owned(S), NEW dropped
  PROVE  reorganise_pools(S, dropped) \in Reorganised(S, dropped, Hit(S, dropped))
<1> DEFINE P == Hit(S, dropped)
           ids == SetToSeq(P)
           n == Len(ids)
           act == [i \in 1..n |-> reorg_action(S.evidence[ids[i]], dropped)]
           x0 == [state |-> S, stop |-> FALSE]
           Y == [state : State, stop : BOOLEAN]
           F == [i \in 1..n |-> [y \in Y |-> reorganise_one(y, ids[i], act[i], dropped)]]
           turn == CHOOSE g : g = [i \in 0..n |-> IF i = 0 THEN x0
                     ELSE reorganise_one(g[i - 1], ids[i], reorg_action(S.evidence[ids[i]], dropped), dropped)]
           Done(i) == {ids[j] : j \in 1..i}
<1>1. S \in State /\ x0 \in Y /\ x0.state = S /\ x0.stop = FALSE
  BY DEF Owned
<1>2. /\ P \in SUBSET PoolId /\ IsFiniteSet(P) /\ \A id \in P : active_pool(S, id)
  BY <1>1, HitShape
<1>3. reorganise_pools(S, dropped) = turn[n]
  BY Zenon DEF reorganise_pools, Hit
<1> HIDE DEF P, x0
<1>4. ids \in Seq(P) /\ Range(ids) = P /\ IsInjective(ids)
  BY <1>2, SetToSeqShape, SetToSeqOnce
<1> HIDE DEF ids
<1>5. n \in Nat /\ \A i \in 1..n : ids[i] \in P
  BY <1>4
<1>6. \A i, j \in 1..n : ids[i] = ids[j] => i = j
  <2>1. DOMAIN ids = 1..n
    BY <1>4
  <2> QED
    BY <1>4, <2>1 DEF IsInjective
<1>7. Done(n) = P /\ Done(0) = {}
  <2>1. DOMAIN ids = 1..n
    BY <1>4
  <2> QED
    BY <1>4, <2>1 DEF Range
<1> HIDE DEF n
<1>8. ASSUME NEW i \in 1..n, NEW y \in Y PROVE reorganise_one(y, ids[i], act[i], dropped) \in Y
  <2>1. ids[i] \in PoolId /\ y.state \in State
    BY <1>2, <1>5
  <2> HIDE DEF act
  <2>2. reorganise(y.state, ids[i], act[i], dropped) \in State
    BY <2>1, ReorganiseCases
  <2> QED
    BY <2>2 DEF reorganise_one
<1>9. F \in [1..n -> [Y -> Y]]
  <2> HIDE DEF act, Y
  <2> QED
    BY <1>8
<1>10. PICK g : Iterates(g, n, Y, x0, F)
  <2> HIDE DEF F, Y
  <2> QED
    BY <1>1, <1>5, <1>9, FoldExists
<1> HIDE DEF Y
<1>11. g \in [0..n -> Y] /\ g[0] = x0 /\ \A i \in 1..n : g[i] = F[i][g[i - 1]]
  BY <1>10 DEF Iterates
<1>12. ASSUME NEW i \in 1..n
       PROVE  g[i] = reorganise_one(g[i - 1], ids[i], reorg_action(S.evidence[ids[i]], dropped), dropped)
  <2>1. i - 1 \in 0..n
    BY <1>5
  <2>2. g[i - 1] \in Y
    BY <1>11, <2>1
  <2>3. F[i][g[i - 1]] = reorganise_one(g[i - 1], ids[i], act[i], dropped)
    <3> HIDE DEF act
    <3> QED
      BY <2>2
  <2>4. act[i] = reorg_action(S.evidence[ids[i]], dropped)
    OBVIOUS
  <2> HIDE DEF F, act
  <2> QED
    BY <1>11, <2>3, <2>4
<1> HIDE DEF F, act
<1>13. g = [i \in 0..n |-> IF i = 0 THEN x0
              ELSE reorganise_one(g[i - 1], ids[i], reorg_action(S.evidence[ids[i]], dropped), dropped)]
  <2> DEFINE h == [i \in 0..n |-> IF i = 0 THEN x0
              ELSE reorganise_one(g[i - 1], ids[i], reorg_action(S.evidence[ids[i]], dropped), dropped)]
  <2>1. ASSUME NEW i \in 0..n PROVE g[i] = h[i]
    <3>1. CASE i = 0
      BY <1>11, <3>1
    <3>2. CASE i # 0
      <4>1. i \in 1..n
        BY <1>5, <3>2
      <4> QED
        BY <1>12, <3>2, <4>1
    <3> QED
      BY <3>1, <3>2
  <2>2. g = [i \in 0..n |-> g[i]] /\ h = [i \in 0..n |-> h[i]]
    BY <1>11
  <2> HIDE DEF h
  <2>3. g = h
    BY <2>1, <2>2
  <2> QED
    BY <2>3 DEF h
<1>14. turn = [i \in 0..n |-> IF i = 0 THEN x0
              ELSE reorganise_one(turn[i - 1], ids[i], reorg_action(S.evidence[ids[i]], dropped), dropped)]
  BY <1>13, Zenon
<1> HIDE DEF turn
<1> DEFINE D == [i \in 0..n |-> Reorganised(S, dropped, Done(i))]
<1>15. turn[0] \in D[0]
  <2>1. turn[0] = x0 /\ D[0] = Reorganised(S, dropped, Done(0))
    BY <1>5, <1>14
  <2>2. SameButPools(S, S) /\ \A i \in PoolId : Untouched(S, S, i)
    BY DEF SameButPools, Untouched
  <2>3. x0 \in [state : State, stop : BOOLEAN]
    BY <1>1 DEF Y
  <2>4. x0 \in Reorganised(S, dropped, {})
    BY <1>1, <2>2, <2>3 DEF Reorganised
  <2> QED
    BY <1>7, <2>1, <2>4
<1>16. ASSUME NEW i \in 1..n, turn[i - 1] \in D[i - 1] PROVE turn[i] \in D[i]
  <2>1. i - 1 \in 0..n /\ i \in 0..n /\ i # 0
    BY <1>5
  <2>2. turn[i - 1] \in Reorganised(S, dropped, Done(i - 1))
    BY <1>16, <2>1
  <2>3. turn[i] = reorganise_one(turn[i - 1], ids[i], reorg_action(S.evidence[ids[i]], dropped), dropped)
    BY <1>14, <2>1
  <2>4. Done(i - 1) \in SUBSET PoolId /\ ids[i] \in PoolId /\ active_pool(S, ids[i])
    <3>1. \A j \in 1..(i - 1) : j \in 1..n
      BY <1>5
    <3> QED
      BY <1>2, <1>5, <3>1
  <2>5. ids[i] \notin Done(i - 1)
    BY <1>5, <1>6
  <2>6. Done(i) = Done(i - 1) \cup {ids[i]}
    <3>1. 1..i = 1..(i - 1) \cup {i}
      BY <1>5
    <3> QED
      BY <3>1
  <2> HIDE DEF Done
  <2>7. turn[i] \in Reorganised(S, dropped, Done(i))
    BY <1>1, <2>2, <2>3, <2>4, <2>5, <2>6, ReorganiseOne
  <2> QED
    BY <2>1, <2>7
<1> HIDE DEF D
<1>17. turn[n] \in D[n]
  BY <1>5, <1>15, <1>16, FoldKeeps
<1>18. turn[n] \in Reorganised(S, dropped, Done(n))
  BY <1>5, <1>17 DEF D
<1> HIDE DEF Done
<1> QED
  BY <1>3, <1>7, <1>18 DEF P

-----------------------------------------------------------------------------
(* What a reorganisation drops. *)

\* Evidence is kept while some of it is of a block that is not dropped.
LEMMA KeepMeans ==
  ASSUME NEW E, NEW dropped
  PROVE  /\ (reorg_action(E, dropped) = "keep") <=> (\E e \in E : e.block \notin dropped)
         /\ evidence_without_dropped_hashes(E, dropped) = {e \in E : e.block \notin dropped}
BY DEF reorg_action, evidence_without_dropped_hashes

\* What a work keeps when blocks are dropped.
LEMMA SurvivingWork ==
  ASSUME NEW w \in Work, NEW dropped
  PROVE  LET E == {e \in w.evidence : e.block \notin dropped}
             kept == {o \in w.support : evidence_contains_owner(E, o)}
             v == surviving_work(w, dropped)
         IN  /\ v \in Work
             /\ E = {} => v = NoWork
             /\ E # {} =>
                  /\ v.gen = w.gen /\ v.adapter = w.adapter /\ v.evidence = E /\ v.support = kept
                  /\ v.revalidations =
                       {o \in w.revalidations : evidence_contains_state_query_owner(E, o)}
                  /\ w.owner = None \/ w.owner \in kept => v.owner = w.owner
                  /\ ~(w.owner = None \/ w.owner \in kept) /\ kept = {} => v.owner = None
                  /\ ~(w.owner = None \/ w.owner \in kept) /\ kept # {} => v.owner \in kept
<1> DEFINE E == {e \in w.evidence : e.block \notin dropped}
           kept == {o \in w.support : evidence_contains_owner(E, o)}
           v == surviving_work(w, dropped)
           rv == {o \in w.revalidations : evidence_contains_state_query_owner(E, o)}
           ow == CASE w.owner = None \/ w.owner \in kept -> w.owner
                   [] OTHER -> IF kept = {} THEN None ELSE CHOOSE o \in kept : TRUE
<1>1. evidence_without_dropped_hashes(w.evidence, dropped) = E
  BY DEF evidence_without_dropped_hashes
<1>2. E \in SUBSET Evidence /\ kept \in SUBSET OwnerId /\ rv \in SUBSET OwnerId
  BY Parts
<1>3. kept # {} => (CHOOSE o \in kept : TRUE) \in kept
  <2> HIDE DEF kept
  <2> QED
    BY Zenon
<1>4. CASE E = {}
  <2>1. v = NoWork
    BY <1>1, <1>4 DEF surviving_work
  <2> QED
    BY <1>4, <2>1, NoWorkType
<1>5. CASE E # {}
  <2>1. v = [w EXCEPT !.evidence = E, !.support = kept, !.revalidations = rv, !.owner = ow]
    <3>1. v = [w EXCEPT !.evidence = E, !.support = kept,
                     !.revalidations = {o \in @ : evidence_contains_state_query_owner(E, o)},
                     !.owner = CASE @ = None \/ @ \in kept -> @
                                 [] OTHER -> IF kept = {} THEN None ELSE CHOOSE o \in kept : TRUE]
      BY <1>1, <1>5, Zenon DEF surviving_work
    <3> HIDE DEF E, kept, v
    <3> QED
      BY <3>1 DEF Work
  <2> DEFINE h == CHOOSE o \in kept : TRUE
  <2>2. ow = CASE w.owner = None \/ w.owner \in kept -> w.owner
               [] OTHER -> IF kept = {} THEN None ELSE h
    OBVIOUS
  <2>3. w.owner \in {None} \cup OwnerId
    BY Parts
  <2> HIDE DEF h, ow, kept
  <2>4. /\ w.owner = None \/ w.owner \in kept => ow = w.owner
        /\ ~(w.owner = None \/ w.owner \in kept) /\ kept = {} => ow = None
        /\ ~(w.owner = None \/ w.owner \in kept) /\ kept # {} => ow = h
    BY <2>2
  <2>5. kept # {} => h \in kept
    BY <1>3 DEF h
  <2>6. ow \in {None} \cup OwnerId
    BY <1>2, <2>3, <2>4, <2>5
  <2> HIDE DEF E, v, rv
  <2>7. v \in Work
    BY <1>2, <2>1, <2>6 DEF Work
  <2>8. /\ v.gen = w.gen /\ v.adapter = w.adapter /\ v.evidence = E /\ v.support = kept
        /\ v.revalidations = rv /\ v.owner = ow
    BY <2>1 DEF Work
  <2> QED
    BY <1>5, <2>4, <2>5, <2>7, <2>8 DEF E, kept, v, rv
<1> QED
  BY <1>4, <1>5

\* It is as good, and grounded in the new chain L.
LEMMA SurvivingWorkSound ==
  ASSUME NEW S, NEW p, NEW w \in Work, GoodWork(S, p, w), NEW K, NEW L, NEW X, NEW trusted \in BOOLEAN,
         trusted => GroundedWork(p, w, K, X), surviving_work(w, K \ L) # NoWork
  PROVE  /\ GoodWork(S, p, surviving_work(w, K \ L))
         /\ trusted => GroundedWork(p, surviving_work(w, K \ L), L, X)
<1> DEFINE E == {e \in w.evidence : e.block \notin (K \ L)}
           kept == {o \in w.support : evidence_contains_owner(E, o)}
           v == surviving_work(w, K \ L)
<1>1. /\ v \in Work /\ E # {}
      /\ v.gen = w.gen /\ v.adapter = w.adapter /\ v.evidence = E /\ v.support = kept
      /\ v.revalidations = {o \in w.revalidations : evidence_contains_state_query_owner(E, o)}
      /\ w.owner = None \/ w.owner \in kept => v.owner = w.owner
      /\ ~(w.owner = None \/ w.owner \in kept) /\ kept = {} => v.owner = None
      /\ ~(w.owner = None \/ w.owner \in kept) /\ kept # {} => v.owner \in kept
  BY SurvivingWork
<1>2. /\ w.gen = S.issued[p] /\ w.gen > 0 /\ S.pools[p].gen = 0
      /\ w.adapter = active_adapter(S, p) /\ w.adapter > 0
      /\ \A o \in w.support : Backs(S, o, p)
      /\ (w.owner = None <=> w.support = {})
      /\ \A o \in w.revalidations : o \in w.support
  BY DEF GoodWork
<1>3. \A o \in kept : o \in OwnerId /\ o # None /\ o \in w.support
  BY Parts, Identities
<1>4. \A o : evidence_contains_state_query_owner(E, o) => evidence_contains_owner(E, o)
  BY DEF evidence_contains_state_query_owner, evidence_contains_owner
<1>5. \A o \in v.revalidations : o \in v.support /\ evidence_contains_state_query_owner(v.evidence, o)
  BY <1>1, <1>2, <1>4
<1>6. v.owner = None <=> v.support = {}
  <2> HIDE DEF v, kept
  <2>1. w.owner = None => kept = {}
    BY <1>2, <1>3
  <2> QED
    BY <1>1, <1>3, <2>1
<1>7. GoodWork(S, p, v)
  <2> HIDE DEF v, kept, E
  <2> QED
    BY <1>1, <1>2, <1>3, <1>5, <1>6 DEF GoodWork
<1>8. ASSUME trusted PROVE GroundedWork(p, v, L, X)
  <2>1. GroundedWork(p, w, K, X)
    BY <1>8
  <2>2. \A e \in v.evidence : e \in w.evidence /\ OnChain(L, e)
    BY <1>1, <2>1 DEF GroundedWork, OnChain
  <2>3. ASSUME p \notin X
        PROVE  /\ \A e \in v.evidence : /\ e = Stable \/ e.owner \in v.support
                                        /\ e.kind = "query" => e.owner \in v.revalidations
               /\ \A o \in v.support : evidence_contains_owner(v.evidence, o)
    <3>1. \A e \in w.evidence : /\ e = Stable \/ e.owner \in w.support
                                /\ e.kind = "query" => e.owner \in w.revalidations
      BY <2>1, <2>3 DEF GroundedWork
    <3>2. \A e \in E : evidence_contains_owner(E, e.owner)
      BY DEF evidence_contains_owner
    <3>3. \A e \in E : e.kind = "query" => evidence_contains_state_query_owner(E, e.owner)
      BY DEF evidence_contains_state_query_owner
    <3>4. \A e \in v.evidence : e \in E /\ e \in w.evidence
      BY <1>1
    <3> HIDE DEF v, E
    <3> QED
      BY <1>1, <3>1, <3>2, <3>3, <3>4
  <2> HIDE DEF v
  <2> QED
    BY <2>2, <2>3 DEF GroundedWork
<1> QED
  BY <1>7, <1>8

\* A candidate whose evidence is kept survives, and is fit for the new chain L.
LEMMA SurvivingCandidate ==
  ASSUME NEW S, NEW c, NEW K, NEW L, NEW X, FitCandidate(S, c, K, X),
         reorg_action(c.evidence, K \ L) = "keep"
  PROVE  FitCandidate(S, surviving_candidate(c, K \ L), L, X)
<1> DEFINE E == {e \in c.evidence : e.block \notin (K \ L)}
           again == c.revalidate /\ evidence_contains_state_query_owner(E, c.owner)
           v == surviving_candidate(c, K \ L)
<1>1. c \in Cand /\ GoodCandidate(S, c) /\ (S.trusted => GroundedCandidate(c, K, X))
  BY DEF FitCandidate
<1>2. E # {} /\ evidence_without_dropped_hashes(c.evidence, K \ L) = E
  BY KeepMeans
<1>3. v = [c EXCEPT !.evidence = E, !.revalidate = again]
  BY <1>1, <1>2 DEF surviving_candidate, Cand
<1>4. E \in SUBSET Evidence /\ again \in BOOLEAN
  BY <1>1, Parts
<1> HIDE DEF v, again, E
<1>5. v \in Cand
  BY <1>1, <1>3, <1>4 DEF Cand
<1>6. v.owner = c.owner /\ v.key = c.key /\ v.evidence = E /\ v.revalidate = again
  BY <1>1, <1>3 DEF Cand
<1>7. GoodCandidate(S, v)
  BY <1>1, <1>2, <1>6 DEF GoodCandidate, again
<1>8. ASSUME S.trusted PROVE GroundedCandidate(v, L, X)
  <2>1. GroundedCandidate(c, K, X)
    BY <1>1, <1>8
  <2>2. \A e \in E : e \in c.evidence /\ OnChain(L, e)
    BY <2>1 DEF GroundedCandidate, OnChain, E
  <2>3. ASSUME c.key \notin X, NEW e \in E
        PROVE  (e = Stable \/ e.owner = c.owner) /\ (e.kind = "query" => again)
    <3>1. (e = Stable \/ e.owner = c.owner) /\ (e.kind = "query" => c.revalidate)
      BY <2>1, <2>2, <2>3 DEF GroundedCandidate
    <3>2. e = Stable => e.kind # "query"
      BY EvidenceShape
    <3>3. e.kind = "query" /\ e.owner = c.owner => evidence_contains_state_query_owner(E, c.owner)
      BY DEF evidence_contains_state_query_owner
    <3> QED
      BY <3>1, <3>2, <3>3 DEF again
  <2> QED
    BY <1>6, <2>2, <2>3 DEF GroundedCandidate
<1> QED
  BY <1>5, <1>7, <1>8 DEF FitCandidate, v

\* The candidates, evidence and recipes that survive.
CandidatesLeft(S, dropped) ==
  retain(S.candidates, {c \in Range(S.candidates) : reorg_action(c.evidence, dropped) = "keep"})
EvidenceLeft(S, dropped) ==
  [i \in PoolId |-> IF reorg_action(S.evidence[i], dropped) = "keep"
                    THEN evidence_without_dropped_hashes(S.evidence[i], dropped)
                    ELSE S.evidence[i]]
RecipesLeft(S, dropped) ==
  [i \in PoolId |-> IF reorg_action(S.evidence[i], dropped) = "keep"
                    THEN {o \in S.revalidation[i] :
                            evidence_contains_state_query_owner(EvidenceLeft(S, dropped)[i], o)}
                    ELSE S.revalidation[i]]

\* T is S without what hangs on dropped blocks.
Reconciles(S, T, dropped) ==
  /\ T.candidates = [i \in DOMAIN CandidatesLeft(S, dropped) |->
                       surviving_candidate(CandidatesLeft(S, dropped)[i], dropped)]
  /\ T.work = [p \in Pool |-> IF S.work[p] = NoWork THEN NoWork ELSE surviving_work(S.work[p], dropped)]
  /\ T.evidence = EvidenceLeft(S, dropped) /\ T.revalidation = RecipesLeft(S, dropped)
  /\ T.pending = {x \in S.pending : x[2] \in RecipesLeft(S, dropped)[x[1]]}
  /\ T.trusted = S.trusted /\ T.attached = S.attached /\ T.point = S.point
  /\ T.adapters = S.adapters /\ T.owners = S.owners /\ T.pools = S.pools /\ T.issued = S.issued
  /\ T.discovery = S.discovery

\* reconcile_orphaned makes that record.
LEMMA ReconcileShape ==
  ASSUME NEW S \in State, NEW dropped, dropped # {}
  PROVE  /\ reconcile_orphaned(S, dropped) \in State
         /\ Reconciles(S, reconcile_orphaned(S, dropped), dropped)
<1> DEFINE T == reconcile_orphaned(S, dropped)
           left == CandidatesLeft(S, dropped)
           ca == [i \in DOMAIN left |-> surviving_candidate(left[i], dropped)]
           wo == [p \in Pool |-> IF S.work[p] = NoWork THEN NoWork ELSE surviving_work(S.work[p], dropped)]
           ev == EvidenceLeft(S, dropped)
           rv == RecipesLeft(S, dropped)
           pe == {x \in S.pending : x[2] \in rv[x[1]]}
<1>1. T = [S EXCEPT !.candidates = ca, !.work = wo, !.evidence = ev, !.revalidation = rv, !.pending = pe]
  <2>1. T = [S EXCEPT !.candidates = ca, !.work = wo, !.evidence = ev, !.revalidation = rv,
                      !.pending = {x \in @ : x[2] \in rv[x[1]]}]
    BY Zenon DEF reconcile_orphaned, CandidatesLeft, EvidenceLeft, RecipesLeft
  <2> HIDE DEF T, ca, wo, ev, rv
  <2> QED
    BY <2>1 DEF State
<1>2. ev \in [PoolId -> SUBSET Evidence]
  <2>1. \A i \in PoolId : S.evidence[i] \in SUBSET Evidence
    BY Fields
  <2>2. \A i \in PoolId : evidence_without_dropped_hashes(S.evidence[i], dropped) \in SUBSET Evidence
    BY <2>1 DEF evidence_without_dropped_hashes
  <2> QED
    BY <2>1, <2>2 DEF EvidenceLeft
<1>3. rv \in [PoolId -> SUBSET OwnerId]
  <2>1. \A i \in PoolId : S.revalidation[i] \in SUBSET OwnerId
    BY Fields
  <2> QED
    BY <2>1 DEF RecipesLeft
<1>4. pe \in SUBSET (PoolId \X OwnerId)
  BY Fields
<1>5. wo \in [Pool -> Work]
  <2>1. \A p \in Pool : S.work[p] \in Work
    BY Fields
  <2>2. \A p \in Pool : surviving_work(S.work[p], dropped) \in Work
    BY <2>1, SurvivingWork
  <2> QED
    BY <2>2, NoWorkType
<1>6. ca \in Seq(Cand)
  <2>1. left \in Seq(Cand)
    BY Fields, RetainShape DEF CandidatesLeft
  <2> HIDE DEF left
  <2>2. DOMAIN left = 1..Len(left) /\ Len(left) \in Nat /\ \A i \in 1..Len(left) : left[i] \in Cand
    BY <2>1
  <2>3. \A c \in Cand : surviving_candidate(c, dropped) \in Cand
    <3> SUFFICES ASSUME NEW c \in Cand PROVE surviving_candidate(c, dropped) \in Cand
      OBVIOUS
    <3> DEFINE E == evidence_without_dropped_hashes(c.evidence, dropped)
               again == c.revalidate /\ evidence_contains_state_query_owner(E, c.owner)
    <3>1. surviving_candidate(c, dropped) = [c EXCEPT !.evidence = E, !.revalidate = again]
      BY DEF surviving_candidate, Cand
    <3>2. E \in SUBSET Evidence /\ again \in BOOLEAN
      BY Parts DEF evidence_without_dropped_hashes
    <3> HIDE DEF E, again
    <3> QED
      BY <3>1, <3>2 DEF Cand
  <2>4. ca \in [1..Len(left) -> Cand]
    BY <2>2, <2>3
  <2> HIDE DEF ca
  <2> QED
    BY <2>2, <2>4
<1> HIDE DEF T, ca, wo, ev, rv, pe
<1>7. T \in State
  BY <1>1, <1>2, <1>3, <1>4, <1>5, <1>6 DEF State
<1>8. /\ T.candidates = ca /\ T.work = wo /\ T.evidence = ev /\ T.revalidation = rv /\ T.pending = pe
      /\ T.trusted = S.trusted /\ T.attached = S.attached /\ T.point = S.point
      /\ T.adapters = S.adapters /\ T.owners = S.owners /\ T.pools = S.pools /\ T.issued = S.issued
      /\ T.discovery = S.discovery
  BY <1>1 DEF State
<1>9. Reconciles(S, T, dropped)
  BY <1>8 DEF Reconciles, ca, wo, ev, rv, pe
<1> QED
  BY <1>7, <1>9 DEF T

\* What is left of single pools.
LEMMA ReconcilesFields ==
  ASSUME NEW S \in State, NEW T, NEW dropped, Reconciles(S, T, dropped), NEW i \in PoolId
  PROVE  /\ reorg_action(S.evidence[i], dropped) = "keep" =>
              /\ T.evidence[i] = {e \in S.evidence[i] : e.block \notin dropped} /\ T.evidence[i] # {}
              /\ T.revalidation[i] = {o \in S.revalidation[i] :
                                        evidence_contains_state_query_owner(T.evidence[i], o)}
         /\ reorg_action(S.evidence[i], dropped) # "keep" =>
              T.evidence[i] = S.evidence[i] /\ T.revalidation[i] = S.revalidation[i]
         /\ \A o \in OwnerId : <<i, o>> \in T.pending <=> <<i, o>> \in S.pending /\ o \in T.revalidation[i]
<1>1. T.evidence[i] = IF reorg_action(S.evidence[i], dropped) = "keep"
                      THEN evidence_without_dropped_hashes(S.evidence[i], dropped)
                      ELSE S.evidence[i]
  BY DEF Reconciles, EvidenceLeft
<1>2. T.revalidation[i] = IF reorg_action(S.evidence[i], dropped) = "keep"
                    THEN {o \in S.revalidation[i] :
                            evidence_contains_state_query_owner(T.evidence[i], o)}
                    ELSE S.revalidation[i]
  BY DEF Reconciles, RecipesLeft
<1>3. \A o : <<i, o>> \in T.pending <=> <<i, o>> \in S.pending /\ o \in T.revalidation[i]
  BY DEF Reconciles
<1>4. reorg_action(S.evidence[i], dropped) = "keep" =>
        evidence_without_dropped_hashes(S.evidence[i], dropped) # {}
  BY KeepMeans
<1>5. evidence_without_dropped_hashes(S.evidence[i], dropped) = {e \in S.evidence[i] : e.block \notin dropped}
  BY KeepMeans
<1> QED
  BY <1>1, <1>2, <1>3, <1>4, <1>5

\* reconcile_orphaned keeps ownership, and grounds work and candidates in the new chain L.
LEMMA ReconcileOwned ==
  ASSUME NEW S, Owned(S), NEW K, NEW L, NEW X, K \ L # {},
         S.trusted => WorkGrounded(S, K, X) /\ CandidatesGrounded(S, K, X),
         NEW T \in State, Reconciles(S, T, K \ L)
  PROVE  /\ Owned(T)
         /\ S.trusted => WorkGrounded(T, L, X) /\ CandidatesGrounded(T, L, X)
<1> DEFINE dropped == K \ L
<1>1. S \in State
  BY DEF Owned
<1>2. /\ T.trusted = S.trusted /\ T.adapters = S.adapters /\ T.owners = S.owners /\ T.pools = S.pools
      /\ T.issued = S.issued /\ T.discovery = S.discovery /\ T.pending \subseteq S.pending
  BY DEF Reconciles
<1>3. LivesOK(T)
  BY <1>2 DEF Owned, LivesOK, active_adapter
<1>4. \A p \in Pool : T.work[p] # NoWork =>
        /\ GoodWork(S, p, T.work[p])
        /\ S.trusted => GroundedWork(p, T.work[p], L, X)
  <2> SUFFICES ASSUME NEW p \in Pool, T.work[p] # NoWork
               PROVE  /\ GoodWork(S, p, T.work[p])
                      /\ S.trusted => GroundedWork(p, T.work[p], L, X)
    OBVIOUS
  <2>1. S.work[p] # NoWork /\ T.work[p] = surviving_work(S.work[p], K \ L)
    BY DEF Reconciles
  <2>2. /\ S.work[p] \in Work /\ GoodWork(S, p, S.work[p])
        /\ S.trusted => GroundedWork(p, S.work[p], K, X)
    BY <1>1, <2>1, Fields DEF Owned, WorkOK, WorkGrounded
  <2>3. S.trusted \in BOOLEAN
    BY <1>1, Fields
  <2> QED
    BY <2>1, <2>2, <2>3, SurvivingWorkSound
<1>5. WorkOK(T)
  BY <1>2, <1>4 DEF WorkOK, GoodWork, active_adapter, Backs, active_discovery
<1> DEFINE left == CandidatesLeft(S, dropped)
           KK == {c \in Range(S.candidates) : reorg_action(c.evidence, dropped) = "keep"}
<1>6. /\ S.candidates \in Seq(Cand) /\ Len(S.candidates) <= MaxPending
      /\ \A i \in 1..Len(S.candidates) : FitCandidate(S, S.candidates[i], K, X)
  BY <1>1, Fields DEF Owned, CandidatesOK, FitCandidate, CandidatesGrounded
<1>7. /\ left \in Seq(Cand) /\ Len(left) <= Len(S.candidates)
      /\ \A i \in 1..Len(left) : left[i] \in KK /\ \E j \in 1..Len(S.candidates) : S.candidates[j] = left[i]
  <2>1. left = retain(S.candidates, KK)
    BY DEF CandidatesLeft
  <2> HIDE DEF KK, left
  <2> QED
    BY <1>6, <2>1, RetainShape
<1>8. T.candidates = [i \in DOMAIN left |-> surviving_candidate(left[i], dropped)]
  BY DEF Reconciles
<1>9. \A i \in 1..Len(left) : reorg_action(left[i].evidence, dropped) = "keep" /\ FitCandidate(S, left[i], K, X)
  BY <1>6, <1>7
<1> HIDE DEF left
<1>10. DOMAIN left = 1..Len(left) /\ Len(left) \in Nat
  BY <1>7
<1>11. Len(T.candidates) = Len(left) /\ DOMAIN T.candidates = 1..Len(left)
  <2>1. T.candidates \in Seq(Cand)
    BY Fields
  <2>2. DOMAIN T.candidates = 1..Len(left)
    BY <1>8, <1>10
  <2> QED
    BY <1>10, <2>1, <2>2, LenProperties
<1>12. \A i \in 1..Len(T.candidates) : FitCandidate(S, T.candidates[i], L, X)
  <2> SUFFICES ASSUME NEW i \in 1..Len(left) PROVE FitCandidate(S, T.candidates[i], L, X)
    BY <1>11
  <2>1. T.candidates[i] = surviving_candidate(left[i], K \ L)
    BY <1>8, <1>10
  <2> DEFINE c == left[i]
  <2>2. reorg_action(c.evidence, K \ L) = "keep" /\ FitCandidate(S, c, K, X)
    BY <1>9
  <2> HIDE DEF c
  <2>3. FitCandidate(S, surviving_candidate(c, K \ L), L, X)
    BY <2>2, SurvivingCandidate
  <2> QED
    BY <2>1, <2>3 DEF c
<1>13. \A i \in 1..Len(T.candidates) : FitCandidate(T, T.candidates[i], L, X)
  BY <1>2, <1>12, FitFrame
<1>14. CandidatesOK(T)
  <2>1. Len(S.candidates) \in Nat /\ MaxPending \in Nat
    BY <1>6, RegistrationAssumption
  <2>2. Len(T.candidates) <= MaxPending
    BY <1>6, <1>7, <1>10, <1>11, <2>1
  <2> QED
    BY <1>13, <2>2 DEF CandidatesOK, FitCandidate
<1>15. RecipesOK(T)
  <2> SUFFICES ASSUME NEW i \in PoolId
               PROVE  /\ T.revalidation[i] # {} => i[2] <= T.issued[i[1]]
                      /\ active_pool(T, i) => \A o \in T.revalidation[i] :
                           /\ Backs(T, o, i[1])
                           /\ evidence_contains_state_query_owner(T.evidence[i], o)
    BY DEF RecipesOK
  <2>1. /\ reorg_action(S.evidence[i], dropped) = "keep" =>
             T.revalidation[i] = {o \in S.revalidation[i] :
                                    evidence_contains_state_query_owner(T.evidence[i], o)}
        /\ reorg_action(S.evidence[i], dropped) # "keep" =>
             T.evidence[i] = S.evidence[i] /\ T.revalidation[i] = S.revalidation[i]
    <3> HIDE DEF dropped
    <3> QED
      BY <1>1, ReconcilesFields DEF dropped
  <2>2. T.revalidation[i] \subseteq S.revalidation[i]
    BY <2>1
  <2>3. /\ S.revalidation[i] # {} => i[2] <= S.issued[i[1]]
        /\ active_pool(S, i) => \A o \in S.revalidation[i] :
             Backs(S, o, i[1]) /\ evidence_contains_state_query_owner(S.evidence[i], o)
    BY DEF Owned, RecipesOK
  <2> HIDE DEF dropped
  <2> QED
    BY <1>2, <2>1, <2>2, <2>3 DEF active_pool, Backs, active_discovery
<1>16. QueriesOK(T)
  BY <1>2 DEF Owned, QueriesOK, active_discovery
<1>17. PendingOK(T)
  BY <1>2 DEF Owned, PendingOK, active_pool, Backs, active_discovery
<1>18. Owned(T)
  BY <1>3, <1>5, <1>14, <1>15, <1>16, <1>17 DEF Owned
<1>19. ASSUME S.trusted PROVE WorkGrounded(T, L, X) /\ CandidatesGrounded(T, L, X)
  BY <1>2, <1>4, <1>13, <1>19 DEF WorkGrounded, CandidatesGrounded, FitCandidate
<1> QED
  BY <1>18, <1>19

\* After a reorganisation from chain K to chain L the actor is grounded in L:
\* a pool was hit and settled, or keeps the evidence that is not dropped.
LEMMA ReorgSound ==
  ASSUME NEW S, Owned(S), NEW K, NEW W, NEW X, Grounded(S, K, W, X), NEW L,
         NEW x \in Reorganised(S, K \ L, Hit(S, K \ L))
  PROVE  /\ Sound(reconcile_orphaned(x.state, K \ L), L, W, X)
         /\ SameWatch(x.state, reconcile_orphaned(x.state, K \ L))
<1> DEFINE dropped == K \ L
           P == Hit(S, dropped)
           U == x.state
           T == reconcile_orphaned(U, dropped)
<1>1. S \in State
  BY DEF Owned
<1>2. /\ U \in State /\ Owned(U) /\ SameButPools(S, U)
      /\ \A i \in PoolId : active_pool(U, i) => active_pool(S, i)
      /\ \A i \in PoolId : i \notin P => Untouched(S, U, i)
      /\ U.trusted => \A i \in P : Settled(S, U, i, dropped)
      /\ \A i \in PoolId, o \in OwnerId :
           <<i, o>> \in S.pending /\ active_pool(U, i) => <<i, o>> \in U.pending
  BY DEF Reorganised
<1>3. /\ P \in SUBSET PoolId
      /\ \A i \in PoolId : active_pool(S, i) /\ i \notin P => reorg_action(S.evidence[i], dropped) = "keep"
  BY <1>1, HitShape
<1>4. \A i \in P : reorg_action(S.evidence[i], dropped) # "keep"
  BY DEF Hit
<1>5. U.work = S.work /\ U.candidates = S.candidates /\ U.discovery = S.discovery
  BY <1>2 DEF SameButPools
<1> HIDE DEF P, U
<1>6. \A e : OnChain(K, e) /\ e.block \notin dropped => OnChain(L, e)
  BY DEF OnChain
<1>7. WorkGrounded(U, K, X) /\ CandidatesGrounded(U, K, X)
  BY <1>5 DEF Grounded, WorkGrounded, CandidatesGrounded
<1>8. ASSUME NEW i \in PoolId, active_pool(U, i)
      PROVE  /\ GroundedPool(S, i, K, W, X)
             /\ \A e \in S.evidence[i] : e.kind = "query" => e.owner \in OwnerId
             /\ \A o \in OwnerId : AskedOf(S, i, o) => AskedOf(U, i, o)
  <2>1. active_pool(S, i) /\ i[1] \in Pool /\ i[2] \in 1..MaxGen /\ i = <<i[1], i[2]>>
    BY <1>2, <1>8, Identities
  <2>2. S.pools[i[1]].gen > 0 /\ i = <<i[1], S.pools[i[1]].gen>>
    BY <2>1 DEF active_pool
  <2>3. GroundedPool(S, <<i[1], S.pools[i[1]].gen>>, K, W, X)
    BY <2>1, <2>2 DEF Grounded, PoolsGrounded
  <2>4. GroundedPool(S, i, K, W, X)
    BY <2>2, <2>3
  <2>5. \A e \in S.evidence[i] : e \in Evidence
    BY <1>1, Fields
  <2>6. \A e \in S.evidence[i] : e.kind = "query" => e.owner \in OwnerId
    BY <2>5, EvidenceShape
  <2>7. \A o \in OwnerId : AskedOf(S, i, o) => AskedOf(U, i, o)
    BY <1>2, <1>5, <1>8 DEF AskedOf
  <2> QED
    BY <2>4, <2>6, <2>7
<1>9. CASE dropped = {}
  <2>1. T = U
    BY <1>9 DEF reconcile_orphaned
  <2>2. \A e : OnChain(K, e) => OnChain(L, e)
    BY <1>6, <1>9
  <2>3. ASSUME U.trusted PROVE Grounded(U, L, W, X)
    <3>1. WorkGrounded(U, L, X) /\ CandidatesGrounded(U, L, X)
      BY <1>7, <2>2 DEF WorkGrounded, GroundedWork, CandidatesGrounded, GroundedCandidate
    <3>2. PoolsGrounded(U, L, W, X)
      <4> SUFFICES ASSUME NEW q \in Pool, U.pools[q].gen > 0
                   PROVE  GroundedPool(U, <<q, U.pools[q].gen>>, L, W, X)
        BY DEF PoolsGrounded
      <4> DEFINE i == <<q, U.pools[q].gen>>
      <4>1. i \in PoolId /\ active_pool(U, i)
        <5>1. U.pools[q].gen \in 1..MaxGen
          BY <1>2, Lives
        <5> QED
          BY <5>1, Identities DEF active_pool
      <4> HIDE DEF i
      <4>2. /\ GroundedPool(S, i, K, W, X)
            /\ \A e \in S.evidence[i] : e.kind = "query" => e.owner \in OwnerId
            /\ \A o \in OwnerId : AskedOf(S, i, o) => AskedOf(U, i, o)
        BY <1>8, <4>1
      <4>3. reorg_action(S.evidence[i], dropped) = "keep"
        BY <1>9, <4>2, KeepMeans DEF GroundedPool
      <4>4. i \notin P
        BY <1>4, <4>3
      <4>5. U.evidence[i] = S.evidence[i] /\ U.revalidation[i] = S.revalidation[i]
        BY <1>2, <4>1, <4>4 DEF Untouched
      <4>6. GroundedPool(U, i, L, W, X)
        BY <2>2, <4>2, <4>5 DEF GroundedPool
      <4> QED
        BY <4>6 DEF i
    <3> QED
      BY <3>1, <3>2 DEF Grounded
  <2>4. Sound(T, L, W, X) /\ SameWatch(U, T)
    <3> HIDE DEF T
    <3> QED
      BY <1>2, <2>1, <2>3 DEF Sound, SameWatch
  <2> QED
    BY <2>4 DEF U
<1>10. CASE dropped # {}
  <2>1. T \in State /\ Reconciles(U, T, dropped)
    <3> HIDE DEF dropped
    <3> QED
      BY <1>2, <1>10, ReconcileShape
  <2>2. Owned(T) /\ (U.trusted => WorkGrounded(T, L, X) /\ CandidatesGrounded(T, L, X))
    <3> HIDE DEF T
    <3> QED
      BY <1>2, <1>7, <1>10, <2>1, ReconcileOwned
  <2> HIDE DEF T
  <2>3. /\ T.trusted = U.trusted /\ T.pools = U.pools /\ T.discovery = U.discovery
        /\ T.owners = U.owners /\ T.point = U.point
    BY <2>1 DEF Reconciles
  <2>4. ASSUME U.trusted PROVE PoolsGrounded(T, L, W, X)
    <3> SUFFICES ASSUME NEW q \in Pool, T.pools[q].gen > 0
                 PROVE  GroundedPool(T, <<q, T.pools[q].gen>>, L, W, X)
      BY DEF PoolsGrounded
    <3> DEFINE i == <<q, U.pools[q].gen>>
    <3>1. i \in PoolId /\ active_pool(U, i)
      <4>1. U.pools[q].gen \in 1..MaxGen
        BY <1>2, <2>3, Lives
      <4> QED
        BY <4>1, Identities DEF active_pool
    <3> HIDE DEF i
    <3>2. /\ GroundedPool(S, i, K, W, X)
          /\ \A e \in S.evidence[i] : e.kind = "query" => e.owner \in OwnerId
          /\ \A o \in OwnerId : AskedOf(S, i, o) => AskedOf(U, i, o)
      BY <1>8, <3>1
    <3>3. /\ reorg_action(U.evidence[i], dropped) = "keep" =>
               /\ T.evidence[i] = {e \in U.evidence[i] : e.block \notin dropped} /\ T.evidence[i] # {}
               /\ T.revalidation[i] = {o \in U.revalidation[i] :
                                         evidence_contains_state_query_owner(T.evidence[i], o)}
          /\ reorg_action(U.evidence[i], dropped) # "keep" =>
               T.evidence[i] = U.evidence[i] /\ T.revalidation[i] = U.revalidation[i]
          /\ \A o \in OwnerId : <<i, o>> \in T.pending <=> <<i, o>> \in U.pending /\ o \in T.revalidation[i]
      <4> HIDE DEF dropped
      <4> QED
        BY <1>2, <2>1, <3>1, ReconcilesFields
    <3>4. \A o \in OwnerId : AskedOf(U, i, o) /\ o \in T.revalidation[i] => AskedOf(T, i, o)
      BY <2>3, <3>3 DEF AskedOf
    <3>5. CASE i \notin P
      <4>1. U.evidence[i] = S.evidence[i] /\ U.revalidation[i] = S.revalidation[i]
        BY <1>2, <3>1, <3>5 DEF Untouched
      <4>2. reorg_action(U.evidence[i], dropped) = "keep"
        BY <1>2, <1>3, <3>1, <3>5, <4>1
      <4>3. /\ T.evidence[i] = {e \in S.evidence[i] : e.block \notin dropped} /\ T.evidence[i] # {}
            /\ T.revalidation[i] = {o \in S.revalidation[i] :
                                      evidence_contains_state_query_owner(T.evidence[i], o)}
        BY <3>3, <4>1, <4>2
      <4>4. ASSUME i[1] \notin X, NEW e \in T.evidence[i]
            PROVE  /\ e.kind = "query" => e.owner \in T.revalidation[i]
                   /\ ~OnChain(L, e) => e.kind = "query" /\ (i[1] \in W \/ AskedOf(T, i, e.owner))
        <5>1. e \in S.evidence[i] /\ e.block \notin dropped
          BY <4>3, <4>4
        <5>2. /\ e.kind = "query" => e.owner \in S.revalidation[i] /\ e.owner \in OwnerId
              /\ ~OnChain(K, e) => e.kind = "query" /\ (i[1] \in W \/ AskedOf(S, i, e.owner))
          BY <3>2, <4>4, <5>1 DEF GroundedPool
        <5>3. e.kind = "query" => e.owner \in T.revalidation[i]
          <6>1. e.kind = "query" => evidence_contains_state_query_owner(T.evidence[i], e.owner)
            BY <4>4 DEF evidence_contains_state_query_owner
          <6> QED
            BY <4>3, <5>2, <6>1
        <5>4. ~OnChain(L, e) => ~OnChain(K, e)
          BY <1>6, <5>1
        <5> QED
          BY <3>2, <3>4, <5>2, <5>3, <5>4
      <4>5. GroundedPool(T, i, L, W, X)
        BY <4>3, <4>4 DEF GroundedPool
      <4> QED
        BY <2>3, <4>5 DEF i
    <3>6. CASE i \in P
      <4>1. /\ U.evidence[i] # {}
            /\ U.evidence[i] \subseteq {e \in S.evidence[i] : ~(e.kind = "log" /\ e.block \in dropped)}
            /\ U.revalidation[i] = S.revalidation[i]
            /\ \A o \in U.revalidation[i] : <<i, o>> \in U.pending
        BY <1>2, <2>4, <3>1, <3>6 DEF Settled
      <4>2. \A e \in S.evidence[i] : e.block \in dropped
        BY <1>4, <3>6, KeepMeans
      <4>3. reorg_action(U.evidence[i], dropped) # "keep"
        BY <4>1, <4>2, KeepMeans
      <4>4. T.evidence[i] = U.evidence[i] /\ T.revalidation[i] = U.revalidation[i]
        BY <3>3, <4>3
      <4>5. ASSUME i[1] \notin X, NEW e \in T.evidence[i]
            PROVE  /\ e.kind = "query" => e.owner \in T.revalidation[i]
                   /\ ~OnChain(L, e) => e.kind = "query" /\ (i[1] \in W \/ AskedOf(T, i, e.owner))
        <5>1. e \in S.evidence[i] /\ e.kind # "log"
          BY <4>1, <4>2, <4>4, <4>5
        <5>2. e.kind = "query" => e.owner \in S.revalidation[i] /\ e.owner \in OwnerId
          BY <3>2, <4>5, <5>1 DEF GroundedPool
        <5>3. e.kind \in {"stable", "query", "log"}
          <6>1. e \in Evidence
            BY <1>1, <3>1, <5>1, Fields
          <6> QED
            BY <6>1, EvidenceShape
        <5>4. ~OnChain(L, e) => e.kind = "query"
          BY <5>1, <5>3 DEF OnChain
        <5>5. e.kind = "query" => AskedOf(T, i, e.owner)
          BY <3>4, <4>1, <4>4, <5>2 DEF AskedOf
        <5> QED
          BY <4>1, <4>4, <5>2, <5>4, <5>5
      <4>6. GroundedPool(T, i, L, W, X)
        BY <4>1, <4>4, <4>5 DEF GroundedPool
      <4> QED
        BY <2>3, <4>6 DEF i
    <3> QED
      BY <3>5, <3>6
  <2>5. Sound(T, L, W, X) /\ SameWatch(U, T)
    BY <2>2, <2>3, <2>4 DEF Sound, Grounded, SameWatch
  <2> QED
    BY <2>5 DEF U, T
<1> QED
  BY <1>9, <1>10

\* The creation logs of block b are fit candidates of active watchers.
LEMMA LogsFit ==
  ASSUME rt \in State, NEW b \in Block, NEW S, S.owners = rt.owners, NEW X
  PROVE  /\ IsFiniteSet(factory_candidates(b))
         /\ \A c \in factory_candidates(b) : FitCandidate(S, c, Lineage[b], X)
<1> DEFINE M == {l \in Logs[b] : rt.owners[l[1]].gen > 0}
           id(l) == <<l[1], rt.owners[l[1]].gen>>
           mk(l) == Candidate(id(l), l[2], {FactoryLog(id(l), b)}, FALSE)
           f == [l \in M |-> mk(l)]
<1>1. factory_candidates(b) = {mk(l) : l \in M}
  BY DEF factory_candidates
<1>2. M \subseteq Owner \X Pool /\ IsFiniteSet(M)
  <2>1. M \subseteq Owner \X Pool
    BY RegistrationAssumption
  <2>2. IsFiniteSet(Owner \X Pool)
    BY RegistrationAssumption, FS_Product
  <2> QED
    BY <2>1, <2>2, FS_Subset
<1>3. IsFiniteSet(factory_candidates(b))
  <2> HIDE DEF mk, M
  <2>1. f \in Surjection(M, {mk(l) : l \in M})
    BY DEF Surjection
  <2> HIDE DEF f
  <2> QED
    BY <1>1, <1>2, <2>1, FS_Surjection
<1>4. ASSUME NEW l \in M PROVE FitCandidate(S, mk(l), Lineage[b], X)
  <2> DEFINE o == id(l)
             e == FactoryLog(o, b)
             c == Candidate(o, l[2], {e}, FALSE)
  <2>1. l[1] \in Owner /\ l[2] \in Pool /\ l = <<l[1], l[2]>>
    BY <1>2
  <2>2. rt.owners[l[1]].gen \in 1..MaxGen
    BY <2>1, Lives
  <2>3. o \in OwnerId /\ o[1] = l[1] /\ o[2] = rt.owners[l[1]].gen
    BY <2>1, <2>2 DEF OwnerId
  <2> HIDE DEF o
  <2>4. e \in Evidence /\ e.kind = "log" /\ e.owner = o /\ e.block = b
    BY <2>3, EvidenceShape
  <2> HIDE DEF e
  <2>5. c \in Cand /\ c.owner = o /\ c.key = l[2] /\ c.evidence = {e} /\ c.revalidate = FALSE
    BY <2>1, <2>3, <2>4 DEF Candidate, Cand
  <2>6. AdapterOf[l[1]] = AdapterOf[l[2]]
    BY RegistrationAssumption
  <2> HIDE DEF c
  <2>7. GoodCandidate(S, c)
    BY <2>3, <2>5, <2>6 DEF GoodCandidate, Backs, active_discovery
  <2>8. b \in Lineage[b]
    BY LineageSelf
  <2>9. GroundedCandidate(c, Lineage[b], X)
    BY <2>4, <2>5, <2>8 DEF GroundedCandidate, OnChain
  <2>10. FitCandidate(S, c, Lineage[b], X)
    BY <2>5, <2>7, <2>9 DEF FitCandidate
  <2> QED
    BY <2>10 DEF c, e, o
<1> HIDE DEF mk, M
<1> QED
  BY <1>1, <1>3, <1>4

\* A canonical block keeps the actor sound, on the chain that ends in the block.
LEMMA IngestSound ==
  ASSUME NEW W, NEW X, Sound(rt, Lineage[rt.point], W, X), rt.trusted,
         NEW b \in Block, NEW ok \in BOOLEAN
  PROVE  LET dropped == Lineage[rt.point] \ Lineage[b]
             end     == reorganise_pools([rt EXCEPT !.point = b], dropped)
             fixed   == drain_revalidations(reconcile_orphaned(end.state, dropped), ok)
             T == IF end.stop THEN end.state
                  ELSE drain_factory_candidates(
                         retain_factory_candidates(fixed, SetToSeq(factory_candidates(b))), ok)
         IN  Sound(T, Lineage[b], W, X) /\ T.point = b
<1> DEFINE K == Lineage[rt.point]
           L == Lineage[b]
           S == [rt EXCEPT !.point = b]
           end == reorganise_pools(S, K \ L)
           U == end.state
           R == reconcile_orphaned(U, K \ L)
           fixed == drain_revalidations(R, ok)
           cs == SetToSeq(factory_candidates(b))
           A == retain_factory_candidates(fixed, cs)
           B == drain_factory_candidates(A, ok)
<1>1. rt \in State /\ Owned(rt) /\ Grounded(rt, K, W, X)
  BY DEF Sound, Owned
<1>2. S \in State
  BY <1>1 DEF State
<1>3. /\ S.trusted = rt.trusted /\ S.point = b /\ S.adapters = rt.adapters
      /\ S.owners = rt.owners /\ S.pools = rt.pools /\ S.issued = rt.issued
      /\ S.evidence = rt.evidence /\ S.revalidation = rt.revalidation /\ S.pending = rt.pending
      /\ S.candidates = rt.candidates /\ S.work = rt.work /\ S.discovery = rt.discovery
  BY <1>1 DEF State
<1> HIDE DEF S, K, L
<1>4. Owned(S)
  BY <1>1, <1>2, <1>3, OwnedFrame
<1>5. Grounded(S, K, W, X)
  BY <1>1, <1>3, GroundedSame
<1>6. end \in Reorganised(S, K \ L, Hit(S, K \ L))
  BY <1>4, ReorganiseAll
<1> HIDE DEF end
<1>7. /\ Owned(U) /\ SameButPools(S, U) /\ (end.stop => ~U.trusted)
  BY <1>6 DEF Reorganised
<1>8. Sound(R, L, W, X) /\ SameWatch(U, R)
  BY <1>4, <1>5, <1>6, ReorgSound
<1> HIDE DEF U, R
<1>9. Sound(fixed, L, W, X) /\ SameWatch(R, fixed)
  BY <1>8, RevalidateAll
<1> HIDE DEF fixed
<1>10. fixed.owners = rt.owners /\ fixed.point = b /\ U.point = b
  BY <1>3, <1>7, <1>8, <1>9 DEF SameWatch, SameButPools
<1>11. /\ IsFiniteSet(factory_candidates(b))
       /\ \A c \in factory_candidates(b) : FitCandidate(fixed, c, L, X)
  BY <1>1, <1>10, LogsFit DEF L
<1>12. cs \in Seq(factory_candidates(b))
  BY <1>11, SetToSeqShape
<1> HIDE DEF cs
<1>13. \A i \in 1..Len(cs) : FitCandidate(fixed, cs[i], L, X)
  <2>1. \A i \in 1..Len(cs) : cs[i] \in factory_candidates(b)
    BY <1>12
  <2> QED
    BY <1>11, <2>1
<1>14. Sound(A, L, W, X) /\ SameWatch(fixed, A)
  BY <1>9, <1>12, <1>13, RetainAll
<1> HIDE DEF A
<1>15. Sound(B, L, W, X) /\ SameButQueue(A, B)
  BY <1>14, DrainSound
<1> HIDE DEF B
<1>16. B.point = b
  BY <1>10, <1>14, <1>15 DEF SameWatch, SameButQueue
<1> DEFINE T == IF end.stop THEN U ELSE B
<1>17. Sound(T, L, W, X) /\ T.point = b
  <2>1. CASE end.stop
    BY <1>7, <1>10, <2>1 DEF Sound
  <2>2. CASE ~end.stop
    BY <1>15, <1>16, <2>2
  <2> QED
    BY <2>1, <2>2
<1> QED
  BY <1>17 DEF B, A, cs, fixed, R, U, end, S, L, K

-----------------------------------------------------------------------------
(* The invariant of the specification. *)

\* What the actor holds belongs to active generations, and a trusted actor's
\* registrations are grounded in the chain of its point.
RegistrationInv == Sound(rt, Lineage[rt.point], withdrawn, stripped)

\* A runtime is spawned with nothing registered.
LEMMA InitSound == Init => RegistrationInv
<1> SUFFICES ASSUME Init PROVE RegistrationInv
  OBVIOUS
<1> DEFINE ad == [a \in Adapter |-> 1]
           ow == [o \in Owner |-> Absent]
           po == [p \in Pool |-> Absent]
           is == [k \in Adapter \cup Owner \cup Pool |-> IF k \in Adapter THEN 1 ELSE 0]
           ev == [i \in PoolId |-> {}]
           wo == [p \in Pool |-> NoWork]
<1>1. rt = [trusted |-> TRUE, attached |-> FALSE, point |-> Genesis, adapters |-> ad,
            owners |-> ow, pools |-> po, issued |-> is, evidence |-> ev, revalidation |-> ev,
            pending |-> {}, candidates |-> <<>>, work |-> wo, discovery |-> {}]
  BY DEF Init
<1>2. /\ ad \in [Adapter -> 0..MaxGen] /\ ow \in [Owner -> Life] /\ po \in [Pool -> Life]
      /\ is \in [Adapter \cup Owner \cup Pool -> 0..MaxGen]
      /\ ev \in [PoolId -> SUBSET Evidence] /\ ev \in [PoolId -> SUBSET OwnerId]
      /\ wo \in [Pool -> Work] /\ Genesis \in Block /\ <<>> \in Seq(Cand)
  BY RegistrationAssumption, AbsentLife, NoWorkType
<1>3. /\ \A p \in Pool : po[p].gen = 0 /\ is[p] \in Nat /\ wo[p] = NoWork
      /\ \A o \in Owner : ow[o].gen = 0
      /\ \A i \in PoolId : ev[i] = {}
  BY AbsentLife
<1> HIDE DEF ad, ow, po, is, ev, wo
<1>4. rt \in State
  BY <1>1, <1>2 DEF State
<1>5. /\ rt.owners = ow /\ rt.pools = po /\ rt.issued = is /\ rt.revalidation = ev
      /\ rt.pending = {} /\ rt.candidates = <<>> /\ rt.work = wo /\ rt.discovery = {}
  BY <1>1
<1>6. LivesOK(rt)
  BY <1>3, <1>5 DEF LivesOK
<1>7. WorkOK(rt)
  BY <1>3, <1>5 DEF WorkOK
<1>8. CandidatesOK(rt)
  BY <1>5, RegistrationAssumption DEF CandidatesOK
<1>9. RecipesOK(rt)
  BY <1>3, <1>5 DEF RecipesOK
<1>10. QueriesOK(rt) /\ PendingOK(rt)
  BY <1>5 DEF QueriesOK, PendingOK
<1>11. Owned(rt)
  BY <1>4, <1>6, <1>7, <1>8, <1>9, <1>10 DEF Owned
<1>12. PoolsGrounded(rt, Lineage[rt.point], withdrawn, stripped)
  BY <1>3, <1>5 DEF PoolsGrounded
<1>13. WorkGrounded(rt, Lineage[rt.point], stripped)
  BY <1>3, <1>5 DEF WorkGrounded
<1>14. CandidatesGrounded(rt, Lineage[rt.point], stripped)
  BY <1>5 DEF CandidatesGrounded
<1> QED
  BY <1>11, <1>12, <1>13, <1>14 DEF RegistrationInv, Sound, Grounded

\* What a step hands on when the point stays: the chain stays too.
LEMMA StayInv ==
  ASSUME Sound(rt', Lineage[rt.point], withdrawn', stripped'), rt'.point = rt.point
  PROVE  RegistrationInv'
BY DEF RegistrationInv

\* Commands about adapters.
LEMMA AdapterStep ==
  ASSUME RegistrationInv, NEW a \in Adapter,
         add_adapter(a) \/ remove_adapter(a) \/ remove_adapter_cascade(a)
  PROVE  RegistrationInv'
<1> DEFINE K == Lineage[rt.point]
<1>1. Sound(rt, K, withdrawn, stripped) /\ rt \in State
  BY DEF RegistrationInv, Sound, Owned
<1>2. Command /\ withdrawn' = withdrawn /\ stripped' = stripped
  BY DEF add_adapter, remove_adapter, remove_adapter_cascade, Command
<1>3. CASE add_adapter(a)
  <2> DEFINE T == [rt EXCEPT !.adapters[a] = next_generation(rt, a), !.issued[a] = @ + 1]
  <2>1. rt' = T /\ rt.adapters[a] = 0 /\ rt.issued[a] < MaxGen
    BY <1>3 DEF add_adapter, Room
  <2>2. Sound(T, K, withdrawn, stripped) /\ SameWatch(rt, T)
    BY <1>1, <2>1, AddAdapterSound
  <2> HIDE DEF T
  <2> QED
    BY <1>2, <2>1, <2>2, StayInv DEF SameWatch
<1>4. CASE remove_adapter(a)
  <2> DEFINE T == [detach_pool_work(rt, {p \in Pool : AdapterOf[p] = a}) EXCEPT !.adapters[a] = 0]
  <2>1. rt' = T /\ pools_for_adapter(rt, a) = {} /\ discovery_for_adapter(rt, a) = {}
    BY <1>4, Zenon DEF remove_adapter
  <2>2. Sound(T, K, withdrawn, stripped) /\ SameWatch(rt, T)
    BY <1>1, <2>1, RemoveAdapterSound
  <2> HIDE DEF T
  <2> QED
    BY <1>2, <2>1, <2>2, StayInv DEF SameWatch
<1>5. CASE remove_adapter_cascade(a)
  <2> DEFINE gone == {<<o, rt.owners[o].gen>> : o \in discovery_for_adapter(rt, a)}
             ids  == {<<p, rt.pools[p].gen>> : p \in pools_for_adapter(rt, a)}
             T == [detach_pool_work(rt, {p \in Pool : AdapterOf[p] = a}) EXCEPT
                    !.adapters[a] = 0,
                    !.owners = [o \in Owner |-> IF AdapterOf[o] = a THEN Absent ELSE @[o]],
                    !.pools = [p \in Pool |-> IF AdapterOf[p] = a THEN Absent ELSE @[p]],
                    !.evidence = [i \in PoolId |-> IF i \in ids THEN {} ELSE @[i]],
                    !.revalidation = [i \in PoolId |-> IF i \in ids THEN {} ELSE @[i]],
                    !.pending = {x \in @ : x[1] \notin ids},
                    !.discovery = {d \in @ : d.owner \notin gone},
                    !.candidates = retain(@, {c \in Range(@) : c.owner \notin gone})]
  <2>1. rt' = T
    BY <1>5, Zenon DEF remove_adapter_cascade
  <2>2. T \in State /\ Cascades(rt, T, a, gone, ids)
    <3> HIDE DEF gone, ids
    <3> QED
      BY <1>1, CascadeShape, Zenon
  <2> HIDE DEF T
  <2>3. Sound(T, K, withdrawn, stripped)
    BY <1>1, <2>2, CascadeSound
  <2>4. T.point = rt.point
    BY <2>2 DEF Cascades
  <2> QED
    BY <1>2, <2>1, <2>3, <2>4, StayInv
<1> QED
  BY <1>3, <1>4, <1>5

\* Commands about factory watchers.
LEMMA WatcherStep ==
  ASSUME RegistrationInv, NEW k \in Owner,
         add_factory_watcher(k) \/ remove_factory_watcher(k)
           \/ \E l \in Limits : QueueDiscovery(k, l)
  PROVE  RegistrationInv'
<1> DEFINE K == Lineage[rt.point]
           o == <<k, rt.owners[k].gen>>
<1>1. Sound(rt, K, withdrawn, stripped) /\ rt \in State
  BY DEF RegistrationInv, Sound, Owned
<1>2. withdrawn' = withdrawn /\ stripped' = stripped
  BY DEF add_factory_watcher, remove_factory_watcher, QueueDiscovery, Command
<1>3. rt.owners[k].gen \in 0..MaxGen
  BY <1>1, Lives
<1>4. CASE add_factory_watcher(k)
  <2> DEFINE T == [rt EXCEPT !.owners[k] = [gen |-> next_generation(rt, k),
                                            adapter |-> active_adapter(rt, k)],
                             !.issued[k] = @ + 1]
  <2>1. /\ rt' = T /\ rt.owners[k].gen = 0
        /\ active_adapter(rt, k) > 0 /\ rt.issued[k] < MaxGen
    BY <1>4 DEF add_factory_watcher, Room
  <2>2. Sound(T, K, withdrawn, stripped) /\ T.point = rt.point
    BY <1>1, <2>1, AddWatcherSound
  <2> HIDE DEF T
  <2> QED
    BY <1>2, <2>1, <2>2, StayInv
<1>5. CASE remove_factory_watcher(k)
  <2> DEFINE T == [rt EXCEPT
                 !.owners[k] = Absent,
                 !.candidates = retain(@, {c \in Range(@) : c.owner # o}),
                 !.discovery = {d \in @ : d.owner # o},
                 !.work = [p \in Pool |-> IF p \in {q \in Pool : rt.work[q].support = {o}} THEN NoWork
                                          ELSE without_supporter(@[p], o)],
                 !.pending = {x \in @ : x[2] # o},
                 !.revalidation = [i \in PoolId |-> @[i] \ {o}],
                 !.evidence = [i \in PoolId |-> evidence_without_owner(@[i], o)]]
  <2>1. rt' = T /\ rt.trusted /\ rt.owners[k].gen > 0 /\ InUse(o) = {}
    BY <1>5, Zenon DEF remove_factory_watcher
  <2>2. o \in OwnerId
    BY <1>3, <2>1 DEF OwnerId
  <2>3. T \in State /\ Unwatches(rt, T, k, o)
    <3> HIDE DEF o
    <3> QED
      BY <1>1, <2>2, UnwatchShape, Zenon
  <2> HIDE DEF T
  <2>4. \A i \in PoolId : evidence_contains_owner(rt.evidence[i], o) =>
          evidence_without_owner(rt.evidence[i], o) # {}
    BY <2>1 DEF InUse
  <2>5. Sound(T, K, withdrawn, stripped)
    BY <1>1, <2>1, <2>3, <2>4, UnwatchSound
  <2>6. T.point = rt.point
    BY <2>3 DEF Unwatches
  <2> QED
    BY <1>2, <2>1, <2>5, <2>6, StayInv
<1>6. CASE \E l \in Limits : QueueDiscovery(k, l)
  <2>1. PICK l \in Limits : QueueDiscovery(k, l)
    BY <1>6
  <2> DEFINE T == queue_discovery(rt, o, l, None)
  <2>2. rt' = T /\ rt.owners[k].gen > 0
    BY <2>1 DEF QueueDiscovery
  <2>3. o \in OwnerId /\ active_discovery(rt, o)
    BY <1>3, <2>2 DEF OwnerId, active_discovery
  <2>4. Sound(T, K, withdrawn, stripped) /\ SameWatch(rt, T)
    <3> HIDE DEF o
    <3> QED
      BY <1>1, <2>1, <2>3, QueueDiscoverySound
  <2> HIDE DEF T
  <2> QED
    BY <1>2, <2>2, <2>4, StayInv DEF SameWatch
<1> QED
  BY <1>4, <1>5, <1>6

\* Commands about pools.
LEMMA PoolStep ==
  ASSUME RegistrationInv, NEW p \in Pool,
         add_pools(p) \/ remove_pool(p) \/ CancelPool(p) \/ PoolFails(p)
           \/ \E ok \in BOOLEAN : QueueColdStart(p, ok)
  PROVE  RegistrationInv'
<1> DEFINE K == Lineage[rt.point]
<1>1. Sound(rt, K, withdrawn, stripped) /\ rt \in State
  BY DEF RegistrationInv, Sound, Owned
<1>2. withdrawn' = withdrawn /\ stripped' = stripped
  BY DEF add_pools, remove_pool, CancelPool, PoolFails, QueueColdStart, Command
<1>3. CASE add_pools(p)
  <2> DEFINE T == install(rt, p, next_generation(rt, p), {Stable})
  <2>1. /\ rt' = T /\ rt.pools[p].gen = 0 /\ rt.work[p] = NoWork
        /\ active_adapter(rt, p) > 0 /\ rt.issued[p] < MaxGen
    BY <1>3 DEF add_pools, Room
  <2>2. Sound(T, K, withdrawn, stripped) /\ SameWatch(rt, T)
    BY <1>1, <2>1, AddPoolSound
  <2> HIDE DEF T
  <2> QED
    BY <1>2, <2>1, <2>2, StayInv DEF SameWatch
<1>4. CASE remove_pool(p)
  <2> DEFINE id == <<p, rt.pools[p].gen>>
             T == remove_pool_serialized(rt, id)
  <2>1. rt' = T /\ rt.pools[p].gen > 0
    BY <1>4 DEF remove_pool
  <2>2. rt.pools[p].gen \in 0..MaxGen
    BY <1>1, Lives
  <2>3. id \in PoolId /\ active_pool(rt, id)
    BY <2>1, <2>2 DEF PoolId, active_pool
  <2> HIDE DEF id
  <2>4. Sound(T, K, withdrawn, stripped) /\ SameWatch(rt, T)
    BY <1>1, <2>3, RemoveSound
  <2> HIDE DEF T
  <2> QED
    BY <1>2, <2>1, <2>4, StayInv DEF SameWatch
<1>5. CASE CancelPool(p) \/ PoolFails(p)
  <2> DEFINE T == detach_pool_work(rt, {p})
  <2>1. rt' = T
    <3>1. fail_scheduled_pool(p, FALSE, TRUE) = T
      BY DEF fail_scheduled_pool
    <3> QED
      BY <1>5, <3>1 DEF CancelPool, PoolFails
  <2>2. Sound(T, K, withdrawn, stripped)
    BY <1>1, DetachSound
  <2>3. T.point = rt.point
    BY <1>1, DetachShape DEF SameButWork
  <2> HIDE DEF T
  <2> QED
    BY <1>2, <2>1, <2>2, <2>3, StayInv
<1>6. CASE \E ok \in BOOLEAN : QueueColdStart(p, ok)
  <2>1. PICK ok \in BOOLEAN : QueueColdStart(p, ok)
    BY <1>6
  <2> DEFINE T == queue_cold_start(rt, p, ok)
  <2>2. rt' = T
    BY <2>1 DEF QueueColdStart
  <2>3. Sound(T, K, withdrawn, stripped) /\ SameButJobs(rt, T)
    BY <1>1, <2>1, ColdStartSound
  <2> HIDE DEF T
  <2> QED
    BY <1>2, <2>2, <2>3, StayInv DEF SameButJobs
<1> QED
  BY <1>3, <1>4, <1>5, <1>6

\* The worker reports the cold start of a pool.
LEMMA PoolReportStep ==
  ASSUME RegistrationInv, NEW p \in Pool, NEW ok \in BOOLEAN, PoolReports(p, ok)
  PROVE  RegistrationInv'
<1> DEFINE K == Lineage[rt.point]
           w == rt.work[p]
           X2 == IF w.baseline # rt.point /\ Cardinality(w.support) > 1
                 THEN stripped \cup {p} ELSE stripped
<1>1. Sound(rt, K, withdrawn, stripped) /\ rt \in State
  BY DEF RegistrationInv, Sound, Owned
<1>2. withdrawn' = withdrawn /\ stripped' = X2 /\ w # NoWork
  BY DEF PoolReports, Report
<1>3. stripped \subseteq X2
  OBVIOUS
<1>4. ASSUME NEW T, Sound(T, K, withdrawn, stripped), T.point = rt.point, rt' = T
      PROVE  RegistrationInv'
  <2> HIDE DEF X2, K
  <2>1. Sound(T, K, withdrawn, X2)
    BY <1>3, <1>4, SoundMore
  <2> QED
    BY <1>2, <1>4, <2>1, StayInv DEF K
<1> DEFINE installed == [detach_pool_work(install(rt, p, w.gen, w.evidence), {p}) EXCEPT
                           !.revalidation[<<p, w.gen>>] = w.revalidations]
           detached == detach_pool_work(rt, {p})
           alive == {o \in w.support : active_discovery(rt, o)}
           heir == CHOOSE o \in alive : TRUE
           c == Candidate(heir, p, w.evidence, heir \in w.revalidations)
           retried == drain_factory_candidates(retain_factory_candidate(detached, c), ok)
<1>5. Sound(detached, K, withdrawn, stripped) /\ detached.point = rt.point
  <2>1. detached.point = rt.point
    BY <1>1, DetachShape DEF SameButWork
  <2> QED
    BY <1>1, <2>1, DetachSound
<1>6. /\ fail_scheduled_pool(p, FALSE, ok) = detached
      /\ fail_scheduled_pool(p, TRUE, ok) = IF alive # {} THEN retried ELSE detached
  <2>1. fail_scheduled_pool(p, FALSE, ok) = detached
    BY DEF fail_scheduled_pool
  <2>2. fail_scheduled_pool(p, TRUE, ok) = IF TRUE /\ alive # {} THEN retried ELSE detached
    BY Zenon DEF fail_scheduled_pool
  <2> HIDE DEF alive, retried, detached
  <2> QED
    BY <2>1, <2>2
<1>7. \/ rt' = installed
      \/ rt' = detached
      \/ w.baseline # rt.point /\ alive # {} /\ rt' = retried
  <2> HIDE DEF detached, retried, installed, alive
  <2> DEFINE failed == fail_scheduled_pool(p, FALSE, ok)
             stale  == fail_scheduled_pool(p, TRUE, ok)
  <2>1. rt' = installed \/ rt' = failed \/ (w.baseline # rt.point /\ rt' = stale)
    BY Zenon DEF PoolReports, installed
  <2>2. failed = detached /\ stale = IF alive # {} THEN retried ELSE detached
    BY <1>6
  <2> HIDE DEF failed, stale
  <2> QED
    BY <2>1, <2>2
<1>8. CASE rt' = installed
  <2>1. Sound(installed, K, withdrawn, stripped) /\ SameWatch(rt, installed)
    BY <1>1, <1>2, CommitSound
  <2> HIDE DEF installed
  <2> QED
    BY <1>4, <1>8, <2>1 DEF SameWatch
<1>9. CASE rt' = detached
  <2> HIDE DEF detached
  <2> QED
    BY <1>4, <1>5, <1>9
<1>10. CASE w.baseline # rt.point /\ alive # {} /\ rt' = retried
  <2>1. heir \in alive
    BY <1>10, Zenon
  <2>2. heir \in w.support
    BY <2>1
  <2>3. Cardinality(w.support) > 1 => p \in X2
    BY <1>10
  <2> HIDE DEF heir, X2
  <2>4. Sound(retried, K, withdrawn, X2) /\ SameWatch(rt, retried)
    BY <1>1, <1>2, <1>3, <2>2, <2>3, RetrySound
  <2> HIDE DEF retried
  <2> QED
    BY <1>2, <1>10, <2>4, StayInv DEF SameWatch
<1> QED
  BY <1>7, <1>8, <1>9, <1>10

\* A discovery query is cancelled, answered or fails.
LEMMA DiscoveryStep ==
  ASSUME RegistrationInv, NEW d \in rt.discovery, NEW ok \in BOOLEAN,
         CancelDiscovery(d) \/ DiscoveryReports(d, ok) \/ DiscoveryFails(d, ok)
  PROVE  RegistrationInv'
<1> DEFINE K == Lineage[rt.point]
<1>1. Sound(rt, K, withdrawn, stripped)
  BY DEF RegistrationInv
<1>2. CASE CancelDiscovery(d)
  <2> DEFINE T == [rt EXCEPT !.discovery = @ \ {d}]
             W2 == withdrawn \cup (IF d.pool = None THEN {} ELSE {d.pool[1]})
  <2>1. rt' = T /\ withdrawn' = W2 /\ stripped' = stripped
    BY <1>2 DEF CancelDiscovery
  <2>2. Sound(T, K, W2, stripped) /\ SameWatch(rt, T)
    BY <1>1, CancelSound
  <2> HIDE DEF T, W2
  <2> QED
    BY <2>1, <2>2, StayInv DEF SameWatch
<1>3. ASSUME NEW stale \in BOOLEAN, rt' = fail_scheduled_discovery(d, stale, ok),
             withdrawn' = withdrawn, stripped' = stripped
      PROVE  RegistrationInv'
  <2> DEFINE T == fail_scheduled_discovery(d, stale, ok)
  <2>1. Sound(T, K, withdrawn, stripped) /\ SameWatch(rt, T)
    BY <1>1, FailQuerySound
  <2> HIDE DEF T
  <2> QED
    BY <1>3, <2>1, StayInv DEF SameWatch, T
<1>4. CASE DiscoveryFails(d, ok)
  <2>1. /\ rt' = fail_scheduled_discovery(d, FALSE, ok)
        /\ withdrawn' = withdrawn /\ stripped' = stripped
    BY <1>4 DEF DiscoveryFails, Command
  <2> QED
    BY <1>3, <2>1
<1>5. CASE DiscoveryReports(d, ok)
  <2>1. withdrawn' = withdrawn /\ stripped' = stripped
    BY <1>5 DEF DiscoveryReports, Report
  <2>2. CASE d.baseline # rt.point
    <3>1. rt' = fail_scheduled_discovery(d, TRUE, ok)
      BY <1>5, <2>2 DEF DiscoveryReports
    <3> QED
      BY <1>3, <2>1, <3>1
  <2>3. CASE d.baseline = rt.point
    <3> DEFINE T == commit_scheduled_discovery(d, ok)
    <3>1. rt' = T
      BY <1>5, <2>3 DEF DiscoveryReports
    <3>2. Sound(T, K, withdrawn, stripped) /\ SameWatch(rt, T)
      BY <1>1, <2>3, DiscoverSound, AnswerSound
    <3> HIDE DEF T
    <3> QED
      BY <2>1, <3>1, <3>2, StayInv DEF SameWatch
  <2> QED
    BY <2>2, <2>3
<1> QED
  BY <1>2, <1>4, <1>5

\* The worker is attached.
LEMMA AttachStep ==
  ASSUME RegistrationInv, NEW ok \in BOOLEAN, attach_cold_start_worker(ok)
  PROVE  RegistrationInv'
<1> DEFINE T == drain_revalidations(drain_factory_candidates([rt EXCEPT !.attached = TRUE], ok), ok)
<1>1. rt' = T /\ withdrawn' = withdrawn /\ stripped' = stripped
  BY DEF attach_cold_start_worker, Command
<1>2. Sound(T, Lineage[rt.point], withdrawn, stripped) /\ SameWatch(rt, T)
  BY AttachSound DEF RegistrationInv
<1> HIDE DEF T
<1> QED
  BY <1>1, <1>2, StayInv DEF SameWatch

\* A canonical block: the only step that moves the point.
LEMMA IngestStep ==
  ASSUME RegistrationInv, NEW b \in Block, NEW ok \in BOOLEAN, ingest(b, ok)
  PROVE  RegistrationInv'
<1> DEFINE dropped == Lineage[rt.point] \ Lineage[b]
           end   == reorganise_pools([rt EXCEPT !.point = b], dropped)
           fixed == drain_revalidations(reconcile_orphaned(end.state, dropped), ok)
           T == IF end.stop THEN end.state
                ELSE drain_factory_candidates(
                       retain_factory_candidates(fixed, SetToSeq(factory_candidates(b))), ok)
<1>1. rt' = T /\ rt.trusted /\ withdrawn' = withdrawn /\ stripped' = stripped
  BY DEF ingest
<1>2. Sound(T, Lineage[b], withdrawn, stripped) /\ T.point = b
  BY <1>1, IngestSound, Zenon DEF RegistrationInv
<1> HIDE DEF T
<1> QED
  BY <1>1, <1>2 DEF RegistrationInv

\* Every step keeps the invariant: one step below for each group of actions.
LEMMA NextSound == RegistrationInv /\ [Next]_vars => RegistrationInv'
<1> SUFFICES ASSUME RegistrationInv, [Next]_vars PROVE RegistrationInv'
  OBVIOUS
<1>1. CASE UNCHANGED vars
  BY <1>1 DEF vars, RegistrationInv
<1>2. ASSUME NEW a \in Adapter,
             add_adapter(a) \/ remove_adapter(a) \/ remove_adapter_cascade(a)
      PROVE  RegistrationInv'
  BY <1>2, AdapterStep
<1>3. ASSUME NEW o \in Owner,
             add_factory_watcher(o) \/ remove_factory_watcher(o)
               \/ \E l \in Limits : QueueDiscovery(o, l)
      PROVE  RegistrationInv'
  BY <1>3, WatcherStep
<1>4. ASSUME NEW p \in Pool, add_pools(p) \/ remove_pool(p) \/ CancelPool(p) \/ PoolFails(p)
      PROVE  RegistrationInv'
  BY <1>4, PoolStep
<1>5. ASSUME NEW p \in Pool, NEW ok \in BOOLEAN, QueueColdStart(p, ok) \/ PoolReports(p, ok)
      PROVE  RegistrationInv'
  BY <1>5, PoolStep, PoolReportStep
<1>6. ASSUME NEW d \in rt.discovery, CancelDiscovery(d) PROVE RegistrationInv'
  BY <1>6, DiscoveryStep
<1>7. ASSUME NEW d \in rt.discovery, NEW ok \in BOOLEAN,
             DiscoveryReports(d, ok) \/ DiscoveryFails(d, ok)
      PROVE  RegistrationInv'
  BY <1>7, DiscoveryStep
<1>8. ASSUME NEW ok \in BOOLEAN, attach_cold_start_worker(ok) PROVE RegistrationInv'
  BY <1>8, AttachStep
<1>9. ASSUME NEW b \in Block, NEW ok \in BOOLEAN, ingest(b, ok) PROVE RegistrationInv'
  BY <1>9, IngestStep
<1> QED
  BY <1>1, <1>2, <1>3, <1>4, <1>5, <1>6, <1>7, <1>8, <1>9, Zenon DEF Next

\* The inductive invariant holds in every behaviour: what the actor holds
\* belongs to active generations, and a trusted actor's registrations are
\* grounded in the chain that ends in its point.
THEOREM RegistrationInvariance == Spec => []RegistrationInv
BY InitSound, NextSound, PTL DEF Spec

\* The actor's record keeps its shape: generations stay within their bound and
\* the candidate queue never grows past MAX_PENDING_FACTORY_CANDIDATES.
THEOREM RegistrationTypes == Spec => []TypeOK
<1>1. RegistrationInv => TypeOK
  <2> SUFFICES ASSUME RegistrationInv PROVE TypeOK
    OBVIOUS
  <2>1. rt \in State /\ CandidatesOK(rt)
    BY DEF RegistrationInv, Sound, Owned
  <2>2. /\ rt.trusted \in BOOLEAN /\ rt.attached \in BOOLEAN /\ rt.point \in Block
        /\ rt.adapters \in [Adapter -> 0..MaxGen]
        /\ rt.evidence \in [PoolId -> SUBSET Evidence]
        /\ rt.revalidation \in [PoolId -> SUBSET OwnerId]
        /\ rt.pending \subseteq PoolId \X OwnerId
        /\ rt.issued \in [Adapter \cup Owner \cup Pool -> 0..MaxGen]
    BY <2>1 DEF State
  <2> QED
    BY <2>1, <2>2 DEF TypeOK, CandidatesOK
<1> QED
  BY <1>1, RegistrationInvariance, PTL

\* Nothing the actor holds outlives the generation it was made under: pools and
\* watchers run under the active generation of their adapter, and work, queued
\* candidates, recipes, queries and pending revalidations are those of active
\* watchers, whatever commands, reports and reorganisations came before.
THEOREM NothingOutlives == Spec => []NothingOutlivesItsOwner
<1>1. RegistrationInv => NothingOutlivesItsOwner
  <2> SUFFICES ASSUME RegistrationInv PROVE NothingOutlivesItsOwner
    OBVIOUS
  <2>1. Owned(rt) /\ rt \in State
    BY DEF RegistrationInv, Sound, Owned
  <2>2. /\ \A o \in Owner : rt.owners[o].gen > 0 => rt.owners[o].adapter = active_adapter(rt, o)
        /\ \A p \in Pool : rt.pools[p].gen > 0 => rt.pools[p].adapter = active_adapter(rt, p)
    BY <2>1 DEF Owned, LivesOK
  <2>3. ASSUME NEW p \in Pool, rt.work[p] # NoWork
        PROVE  LET w == rt.work[p] IN
               /\ w.gen = rt.issued[p] /\ rt.pools[p].gen = 0
               /\ w.adapter = active_adapter(rt, p)
               /\ w.evidence # {} /\ \A o \in w.support : active_discovery(rt, o)
               /\ (w.owner = None) <=> (w.support = {})
               /\ \A o \in w.revalidations :
                    o \in w.support /\ evidence_contains_state_query_owner(w.evidence, o)
    <3>1. GoodWork(rt, p, rt.work[p])
      BY <2>1, <2>3 DEF Owned, WorkOK
    <3> DEFINE w == rt.work[p]
    <3> HIDE DEF w
    <3>2. GoodWork(rt, p, w)
      BY <3>1 DEF w
    <3> QED
      BY <3>2 DEF GoodWork, Backs, w
  <2>4. \A i \in DOMAIN rt.candidates : active_discovery(rt, rt.candidates[i].owner)
    <3>1. rt.candidates \in Seq(Cand)
      BY <2>1 DEF State
    <3> QED
      BY <2>1, <3>1 DEF Owned, CandidatesOK, GoodCandidate, Backs
  <2>5. \A id \in Active : \A o \in rt.revalidation[id] :
          active_discovery(rt, o) /\ evidence_contains_state_query_owner(rt.evidence[id], o)
    <3> SUFFICES ASSUME NEW id \in Active
                 PROVE  \A o \in rt.revalidation[id] :
                          /\ active_discovery(rt, o)
                          /\ evidence_contains_state_query_owner(rt.evidence[id], o)
      OBVIOUS
    <3>1. id \in PoolId /\ active_pool(rt, id)
      <4>1. PICK p \in Pool : rt.pools[p].gen > 0 /\ id = <<p, rt.pools[p].gen>>
        BY DEF Active
      <4>2. rt.pools[p].gen \in 0..MaxGen
        BY <2>1, Lives
      <4> QED
        BY <4>1, <4>2 DEF PoolId, active_pool
    <3> QED
      BY <2>1, <3>1 DEF Owned, RecipesOK, Backs
  <2>6. \A d \in rt.discovery : active_discovery(rt, d.owner)
    BY <2>1 DEF Owned, QueriesOK
  <2>7. \A x \in rt.pending : active_pool(rt, x[1]) /\ active_discovery(rt, x[2])
    BY <2>1 DEF Owned, PendingOK, Backs
  <2> QED
    BY <2>2, <2>3, <2>4, <2>5, <2>6, <2>7, Zenon DEF NothingOutlivesItsOwner
<1> QED
  BY <1>1, RegistrationInvariance, PTL

\* A trusted runtime serves a pool only on evidence; when a reorganisation
\* orphaned all of it, a revalidation is pending or running, unless the caller
\* cancelled it or a stale retry kept the evidence of a second supporter.
THEOREM AlwaysAnchored == Spec => []Anchored
<1>1. RegistrationInv => Anchored
  <2> SUFFICES ASSUME RegistrationInv, rt.trusted, NEW id \in Active
               PROVE  /\ rt.evidence[id] # {}
                      /\ Orphaned(id) => Asked(id) \/ id[1] \in withdrawn \cup stripped
    BY DEF Anchored
  <2> DEFINE K == Lineage[rt.point]
  <2>1. PICK p \in Pool : rt.pools[p].gen > 0 /\ id = <<p, rt.pools[p].gen>>
    BY DEF Active
  <2>2. GroundedPool(rt, id, K, withdrawn, stripped)
    BY <2>1 DEF RegistrationInv, Sound, Grounded, PoolsGrounded
  <2>3. rt.evidence[id] # {}
    BY <2>2 DEF GroundedPool
  <2>4. ASSUME Orphaned(id), id[1] \notin withdrawn \cup stripped PROVE Asked(id)
    <3>1. PICK e \in rt.evidence[id] : TRUE
      BY <2>3
    <3>2. ~OnChain(K, e)
      BY <2>4, <3>1 DEF Orphaned, Canonical, OnChain
    <3>3. AskedOf(rt, id, e.owner)
      BY <2>2, <2>4, <3>1, <3>2 DEF GroundedPool
    <3> QED
      BY <3>3 DEF AskedOf, Asked
  <2> QED
    BY <2>3, <2>4
<1> QED
  BY <1>1, RegistrationInvariance, PTL

=============================================================================
