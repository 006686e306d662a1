------------------------- MODULE ReplacerCacheProofs -------------------------
(***************************************************************************)
(* What ReplacerCache promises, for any number of goroutines, keys and     *)
(* shards and any limits: both layers are bounded, the snapshot only       *)
(* grows, steady keys get into it, and racing builders agree.              *)
(***************************************************************************)
EXTENDS ReplacerCache, FiniteSetTheorems, TLAPS

----------------------------------------------------------------------------
(* Maps                                                                    *)

\* A map into a set is one into a larger set.
LEMMA MapGrows ==
    ASSUME NEW S, NEW T, S \subseteq T, NEW m \in Map(S)
    PROVE  m \in Map(T)
  BY DEF Map

\* What is looked up in a map is of its values, under one of its keys.
LEMMA MapValue ==
    ASSUME NEW S, NEW m \in Map(S)
    PROVE  /\ DOMAIN m \subseteq Key
           /\ \A k \in DOMAIN m : m[k] \in S
  BY DEF Map

LEMMA EmptyIsMap ==
    ASSUME NEW S
    PROVE  Empty \in Map(S) /\ DOMAIN Empty = {}
<1>1. DOMAIN Empty = {}
  BY DEF Empty
<1>2. Empty \in [{} -> S]
  BY DEF Empty
<1> QED
  BY <1>1, <1>2 DEF Map

\* Put leaves what is under the other keys.
LEMMA PutGives ==
    ASSUME NEW m, NEW k, NEW v
    PROVE  /\ DOMAIN Put(m, k, v) = DOMAIN m \cup {k}
           /\ Put(m, k, v)[k] = v
           /\ \A x \in DOMAIN m : x # k => Put(m, k, v)[x] = m[x]
  BY DEF Put

LEMMA PutIsMap ==
    ASSUME NEW S, NEW m \in Map(S), NEW k \in Key, NEW v \in S
    PROVE  Put(m, k, v) \in Map(S)
<1> DEFINE D == DOMAIN m \cup {k}
<1>1. D \in SUBSET Key
  BY MapValue
<1>2. Put(m, k, v) \in [D -> S]
  BY MapValue DEF Put
<1> QED
  BY <1>1, <1>2 DEF Map

\* A key that is new makes a map larger by one.
LEMMA PutSize ==
    ASSUME NEW m, NEW k, NEW v, IsFiniteSet(DOMAIN m), k \notin DOMAIN m
    PROVE  /\ IsFiniteSet(DOMAIN Put(m, k, v))
           /\ Size(m) \in Nat
           /\ Size(Put(m, k, v)) = Size(m) + 1
<1> DEFINE D == DOMAIN m
<1>1. DOMAIN Put(m, k, v) = D \cup {k}
  BY PutGives
<1>2. IsFiniteSet(D \cup {k}) /\ Cardinality(D \cup {k}) = Cardinality(D) + 1
  BY FS_AddElement
<1>3. Cardinality(D) \in Nat
  BY FS_CardinalityType
<1> QED
  BY <1>1, <1>2, <1>3 DEF Size

LEMMA EmptySize == IsFiniteSet(DOMAIN Empty) /\ Size(Empty) = 0
  BY EmptyIsMap, FS_EmptySet DEF Size

----------------------------------------------------------------------------
(* Types                                                                   *)

\* Whoever is about to hand a replacer on has one.
InHand == \A p \in Proc : pc[p] \in {"promote", "locked", "store"} => inst[p] # 0

Types == TypeOK /\ InHand

LEMMA InitTypes == Init => Types
  BY CacheAssumption, EmptyIsMap DEF Init, Types, TypeOK, InHand

LEMMA NextTypes == Types /\ [Next]_vars => Types'
<1> SUFFICES ASSUME Types, [Next]_vars PROVE Types'
  OBVIOUS
<1> USE CacheAssumption
<1>1. ASSUME NEW p \in Proc, NEW k \in Key, Call(p, k)
      PROVE  Types'
  BY <1>1 DEF Call, Types, TypeOK, InHand
<1>2. ASSUME NEW p \in Proc, LookHot(p)
      PROVE  Types'
  <2>1. CASE key[p] \in DOMAIN hot
    <3>1. hot[key[p]] \in 1 .. built
      BY <2>1, MapValue DEF Types, TypeOK
    <3>2. inst' = [inst EXCEPT ![p] = hot[key[p]]] /\ At(p, "hot", "hot_hit")
      BY <1>2, <2>1 DEF LookHot
    <3> QED
      BY <1>2, <3>1, <3>2 DEF LookHot, At, Types, TypeOK, InHand
  <2>2. CASE key[p] \notin DOMAIN hot
    <3>1. UNCHANGED inst /\ At(p, "hot", "cold")
      BY <1>2, <2>2 DEF LookHot
    <3> QED
      BY <1>2, <3>1 DEF LookHot, At, Types, TypeOK, InHand
  <2> QED
    BY <2>1, <2>2
<1>3. ASSUME NEW p \in Proc, LookCold(p)
      PROVE  Types'
  <2> DEFINE s == ShardOf[key[p]]
  <2>1. s \in Shard /\ shards[s] \in Map(1 .. built) /\ emptied[s] \in Nat
    BY DEF Types, TypeOK
  <2>2. CASE key[p] \in DOMAIN shards[s]
    <3>1. shards[s][key[p]] \in 1 .. built
      BY <2>1, <2>2, MapValue
    <3>2. /\ inst' = [inst EXCEPT ![p] = shards[s][key[p]]]
          /\ life' = [life EXCEPT ![p] = emptied[s]]
          /\ At(p, "cold", "promote")
      BY <1>3, <2>2 DEF LookCold
    <3>3. life' \in [Proc -> Nat] /\ inst' \in [Proc -> 0 .. built]
      BY <2>1, <3>1, <3>2 DEF Types, TypeOK
    <3>4. InHand'
      BY <3>1, <3>2 DEF At, Types, TypeOK, InHand
    <3> QED
      BY <1>3, <3>2, <3>3, <3>4 DEF LookCold, At, Types, TypeOK
  <2>3. CASE key[p] \notin DOMAIN shards[s]
    <3>1. UNCHANGED <<inst, life>> /\ At(p, "cold", "build")
      BY <1>3, <2>3 DEF LookCold
    <3> QED
      BY <1>3, <3>1 DEF LookCold, At, Types, TypeOK, InHand
  <2> QED
    BY <2>2, <2>3
<1>4. ASSUME NEW p \in Proc, PromoteLook(p)
      PROVE  Types'
  BY <1>4 DEF PromoteLook, At, Types, TypeOK, InHand
<1>5. ASSUME NEW p \in Proc, Promote(p)
      PROVE  Types'
  <2>1. inst[p] \in 1 .. built /\ key[p] \in Key
    BY <1>5 DEF Promote, At, Types, TypeOK, InHand
  <2>2. hot' \in Map(1 .. built)
    BY <1>5, <2>1, PutIsMap DEF Promote, Types, TypeOK
  <2>3. cur' \in [Proc -> Map(1 .. built)]
    BY <1>5, EmptyIsMap DEF Promote, Types, TypeOK
  <2> QED
    BY <1>5, <2>2, <2>3 DEF Promote, At, Types, TypeOK, InHand
<1>6. ASSUME NEW p \in Proc, Build(p)
      PROVE  Types'
  <2>1. built' = built + 1 /\ 1 .. built \subseteq 1 .. built' /\ built \in Nat
    BY <1>6 DEF Build, Types, TypeOK
  <2>2. hot \in Map(1 .. built')
    BY <2>1, MapGrows DEF Types, TypeOK
  <2>3. shards \in [Shard -> Map(1 .. built')]
    BY <2>1, MapGrows DEF Types, TypeOK
  <2>4. cur \in [Proc -> Map(1 .. built')]
    BY <2>1, MapGrows DEF Types, TypeOK
  <2>5. inst' \in [Proc -> 0 .. built']
    BY <1>6, <2>1 DEF Build, Types, TypeOK
  <2> QED
    BY <1>6, <2>1, <2>2, <2>3, <2>4, <2>5 DEF Build, At, Types, TypeOK, InHand
<1>7. ASSUME NEW p \in Proc, Store(p)
      PROVE  Types'
  <2> DEFINE s == ShardOf[key[p]]
  <2>1. s \in Shard /\ shards[s] \in Map(1 .. built) /\ key[p] \in Key
        /\ inst[p] \in 1 .. built /\ emptied[s] \in Nat
    BY <1>7 DEF Store, At, Types, TypeOK, InHand
  <2>2. /\ shards' \in [Shard -> Map(1 .. built)]
        /\ inst' \in [Proc -> 0 .. built]
        /\ emptied' \in [Shard -> Nat]
    <3>1. CASE key[p] \in DOMAIN shards[s]
      <4>1. shards[s][key[p]] \in 1 .. built
        BY <2>1, <3>1, MapValue
      <4>2. /\ inst' = [inst EXCEPT ![p] = shards[s][key[p]]]
            /\ UNCHANGED <<shards, emptied>>
        BY <1>7, <3>1 DEF Store
      <4> QED
        BY <4>1, <4>2 DEF Types, TypeOK
    <3>2. CASE key[p] \notin DOMAIN shards[s]
      <4> DEFINE base == IF Size(shards[s]) >= ShardLimit THEN Empty
                         ELSE shards[s]
                 n == IF Size(shards[s]) >= ShardLimit THEN emptied[s] + 1
                      ELSE emptied[s]
      <4>1. /\ shards' = [shards EXCEPT ![s] = Put(base, key[p], inst[p])]
            /\ emptied' = [emptied EXCEPT ![s] = n]
            /\ UNCHANGED inst
        BY <1>7, <3>2 DEF Store
      <4>2. base \in Map(1 .. built)
        BY <2>1, EmptyIsMap
      <4>3. n \in Nat
        BY <2>1
      <4>4. Put(base, key[p], inst[p]) \in Map(1 .. built)
        <5> HIDE DEF base
        <5> QED
          BY <2>1, <4>2, PutIsMap
      <4> HIDE DEF base, n
      <4> QED
        BY <4>1, <4>3, <4>4 DEF Types, TypeOK
    <3> QED
      BY <3>1, <3>2
  <2>3. life' \in [Proc -> Nat]
    <3>1. life' = [life EXCEPT ![p] = emptied'[s]]
      BY <1>7 DEF Store
    <3>2. emptied'[s] \in Nat
      BY <2>1, <2>2
    <3> HIDE DEF s
    <3> QED
      BY <3>1, <3>2 DEF Types, TypeOK
  <2>4. At(p, "store", "stored") /\ UNCHANGED <<hot, key, cur, calls, built>>
    BY <1>7 DEF Store
  <2>5. InHand'
    <3>1. ASSUME NEW q \in Proc, q # p
          PROVE  inst'[q] = inst[q]
      BY <1>7, <3>1 DEF Store, Types, TypeOK
    <3> QED
      BY <2>4, <3>1 DEF At, Types, TypeOK, InHand
  <2> QED
    BY <2>2, <2>3, <2>4, <2>5 DEF At, Types, TypeOK
<1>8. CASE UNCHANGED vars
  BY <1>8 DEF vars, local, Types, TypeOK, InHand
<1> QED
  BY <1>1, <1>2, <1>3, <1>4, <1>5, <1>6, <1>7, <1>8 DEF Next

\* The variables have the values they may have.
THEOREM CacheTypeCorrect == Spec => []TypeOK
<1>1. Spec => []Types
  BY InitTypes, NextTypes, PTL DEF Spec
<1> QED
  BY <1>1, PTL DEF Types

----------------------------------------------------------------------------
(* The bounds                                                              *)

\* Both layers are finite and within their limits.
BoundInv ==
    /\ IsFiniteSet(DOMAIN hot) /\ HotBounded
    /\ \A s \in Shard : IsFiniteSet(DOMAIN shards[s])
    /\ ShardsBounded

LEMMA InitBound == Init => BoundInv
  BY CacheAssumption, EmptySize
  DEF Init, BoundInv, HotBounded, ShardsBounded

LEMMA NextBound == Types /\ BoundInv /\ [Next]_vars => BoundInv'
<1> SUFFICES ASSUME Types, BoundInv, [Next]_vars PROVE BoundInv'
  OBVIOUS
<1> USE CacheAssumption
<1>1. CASE UNCHANGED <<hot, shards>>
  BY <1>1 DEF BoundInv, HotBounded, ShardsBounded, Size
<1>2. ASSUME NEW p \in Proc, Promote(p)
      PROVE  BoundInv'
  <2>1. CASE hot' = hot
    BY <1>2, <2>1 DEF Promote, BoundInv, HotBounded, ShardsBounded, Size
  <2>2. CASE hot' # hot
    <3>1. /\ key[p] \notin DOMAIN hot /\ ~(Size(hot) >= HotLimit)
          /\ hot' = Put(hot, key[p], inst[p]) /\ UNCHANGED shards
      BY <1>2, <2>2 DEF Promote
    <3>2. /\ IsFiniteSet(DOMAIN hot') /\ Size(hot) \in Nat
          /\ Size(hot)' = Size(hot) + 1
      BY <3>1, PutSize DEF BoundInv, Size
    <3>3. HotBounded'
      BY <3>1, <3>2 DEF HotBounded
    <3> QED
      BY <3>1, <3>2, <3>3 DEF BoundInv, ShardsBounded, Size
  <2> QED
    BY <2>1, <2>2
<1>3. ASSUME NEW p \in Proc, Store(p)
      PROVE  BoundInv'
  <2> DEFINE s == ShardOf[key[p]]
  <2>1. s \in Shard /\ shards \in [Shard -> Map(1 .. built)]
    BY DEF Types, TypeOK
  <2>2. UNCHANGED hot
    BY <1>3 DEF Store
  <2>3. CASE key[p] \in DOMAIN shards[s]
    BY <1>3, <2>3, <1>1 DEF Store
  <2>4. CASE key[p] \notin DOMAIN shards[s]
    <3> DEFINE base == IF Size(shards[s]) >= ShardLimit THEN Empty
                       ELSE shards[s]
    <3>1. shards' = [shards EXCEPT ![s] = Put(base, key[p], inst[p])]
      BY <1>3, <2>4 DEF Store
    <3>2. /\ IsFiniteSet(DOMAIN base) /\ key[p] \notin DOMAIN base
          /\ Size(base) < ShardLimit
      <4>1. CASE Size(shards[s]) >= ShardLimit
        BY <4>1, EmptySize, EmptyIsMap
      <4>2. CASE ~(Size(shards[s]) >= ShardLimit)
        <5>1. IsFiniteSet(DOMAIN shards[s])
          BY <2>1 DEF BoundInv
        <5>2. Size(shards[s]) \in Nat
          BY <5>1, FS_CardinalityType DEF Size
        <5> QED
          BY <2>4, <4>2, <5>1, <5>2
      <4> QED
        BY <4>1, <4>2
    <3> HIDE DEF base
    <3>3. /\ IsFiniteSet(DOMAIN Put(base, key[p], inst[p]))
          /\ Size(Put(base, key[p], inst[p])) <= ShardLimit
      BY <3>2, PutSize
    <3> HIDE DEF s
    <3>4. ASSUME NEW t \in Shard
          PROVE  /\ IsFiniteSet(DOMAIN shards'[t])
                 /\ Size(shards'[t]) <= ShardLimit
      BY <2>1, <3>1, <3>3 DEF BoundInv, ShardsBounded
    <3> QED
      BY <2>2, <3>4 DEF BoundInv, HotBounded, ShardsBounded, Size
  <2> QED
    BY <2>3, <2>4
<1>4. (\E p \in Proc : Promote(p) \/ Store(p)) \/ UNCHANGED <<hot, shards>>
  BY DEF Next, Call, LookHot, LookCold, PromoteLook, Build, vars
<1> QED
  BY <1>1, <1>2, <1>3, <1>4

\* sanitize.go:99-103, 105-118: however many goroutines miss at once, neither
\* layer outgrows its limit.
THEOREM CacheBounded == Spec => []Bounded
<1>1. Spec => []Types
  BY InitTypes, NextTypes, PTL DEF Spec
<1>2. Spec => []BoundInv
  BY <1>1, InitBound, NextBound, PTL DEF Spec
<1>3. BoundInv => Bounded
  BY DEF BoundInv, Bounded
<1> QED
  BY <1>2, <1>3, PTL

----------------------------------------------------------------------------
(* The snapshot                                                            *)

\* No step takes a key out of the snapshot or gives it another replacer.
LEMMA HotGrows ==
    ASSUME [Next]_vars, NEW k \in DOMAIN hot
    PROVE  k \in DOMAIN hot' /\ hot'[k] = hot[k]
<1>1. CASE UNCHANGED hot
  BY <1>1
<1>2. CASE hot' # hot
  <2> PICK p \in Proc : Promote(p)
    BY <1>2
    DEF Next, Call, LookHot, LookCold, PromoteLook, Build, Store, vars
  <2>1. key[p] \notin DOMAIN hot /\ hot' = Put(hot, key[p], inst[p])
    BY <1>2 DEF Promote
  <2> QED
    BY <2>1 DEF Put
<1> QED
  BY <1>1, <1>2

\* sanitize.go:153-175: concurrent promotions never lose each other's keys, and
\* never change the replacer a key is answered with.
THEOREM SnapshotOnlyGrows == Spec => HotOnlyGrows
<1>1. [Next]_vars =>
        [\A k \in DOMAIN hot : k \in DOMAIN hot' /\ hot'[k] = hot[k]]_vars
  BY HotGrows
<1> QED
  BY <1>1, PTL DEF Spec, HotOnlyGrows

LEMMA InitSteady == Init => SteadyKeysAreHot
  BY DEF Init, SteadyKeysAreHot

\* A full snapshot stays as it is.
LEMMA FullStays ==
    ASSUME [Next]_vars, Size(hot) = HotLimit
    PROVE  Size(hot)' = HotLimit
<1> USE CacheAssumption
<1>1. UNCHANGED hot
  <2>1. ASSUME NEW p \in Proc, Promote(p)
        PROVE  UNCHANGED hot
    BY <2>1 DEF Promote
  <2> QED
    BY <2>1 DEF Next, Call, LookHot, LookCold, PromoteLook, Build, Store, vars
<1> QED
  BY <1>1 DEF Size

LEMMA NextSteady ==
    Types /\ BoundInv /\ SteadyKeysAreHot /\ [Next]_vars => SteadyKeysAreHot'
<1> SUFFICES ASSUME Types, BoundInv, SteadyKeysAreHot, [Next]_vars,
                    NEW p \in Proc, pc'[p] = "cold_hit"
             PROVE  key'[p] \in DOMAIN hot' \/ Size(hot)' = HotLimit
  BY DEF SteadyKeysAreHot
<1> USE CacheAssumption
<1>1. Size(hot) \in Nat /\ Size(hot) <= HotLimit
  BY FS_CardinalityType DEF BoundInv, HotBounded, Size
<1>2. CASE pc[p] = "cold_hit" /\ key'[p] = key[p]
  BY <1>2, HotGrows, FullStays DEF SteadyKeysAreHot
<1>3. CASE PromoteLook(p)
  <2>1. Size(hot) >= HotLimit
    BY <1>3 DEF PromoteLook, At, Types, TypeOK
  <2>2. Size(hot) = HotLimit
    BY <1>1, <2>1
  <2> QED
    BY <2>2, FullStays
<1>4. CASE Promote(p)
  <2>1. key'[p] = key[p]
    BY <1>4 DEF Promote
  <2>2. CASE key[p] \in DOMAIN hot
    BY <2>1, <2>2, HotGrows
  <2>3. CASE Size(hot) >= HotLimit
    <3>1. Size(hot) = HotLimit
      BY <1>1, <2>3
    <3> QED
      BY <3>1, FullStays
  <2>4. CASE key[p] \notin DOMAIN hot /\ ~(Size(hot) >= HotLimit)
    <3>1. hot' = Put(hot, key[p], inst[p])
      BY <1>4, <2>4 DEF Promote
    <3> QED
      BY <2>1, <3>1 DEF Put
  <2> QED
    BY <2>2, <2>3, <2>4
<1>5. \/ pc[p] = "cold_hit" /\ key'[p] = key[p]
      \/ PromoteLook(p) \/ Promote(p)
  <2>1. CASE UNCHANGED vars
    BY <2>1 DEF vars, local
  <2>2. ASSUME NEW q \in Proc,
               \/ \E k \in Key : Call(q, k)
               \/ LookHot(q) \/ LookCold(q) \/ Build(q) \/ Store(q)
        PROVE  pc[p] = "cold_hit" /\ key'[p] = key[p]
    BY <2>2 DEF Call, LookHot, LookCold, Build, Store, At, Types, TypeOK
  <2>3. ASSUME NEW q \in Proc, PromoteLook(q) \/ Promote(q), q # p
        PROVE  pc[p] = "cold_hit" /\ key'[p] = key[p]
    BY <2>3 DEF PromoteLook, Promote, At, Types, TypeOK
  <2> QED
    BY <2>1, <2>2, <2>3 DEF Next
<1> QED
  BY <1>2, <1>3, <1>4, <1>5

\* sanitize.go:153-175: a call that was answered from a shard has left its key
\* in the snapshot, unless that is full.
THEOREM SteadyGoHot == Spec => []SteadyKeysAreHot
<1>1. Spec => []Types
  BY InitTypes, NextTypes, PTL DEF Spec
<1>2. Spec => []BoundInv
  BY <1>1, InitBound, NextBound, PTL DEF Spec
<1> QED
  BY <1>1, <1>2, InitSteady, NextSteady, PTL DEF Spec

----------------------------------------------------------------------------
(* Racing builders                                                         *)

\* A replacer taken from a shard is the one the shard still has, unless the
\* shard has been thrown away since.
Fresh(p) ==
    LET s == ShardOf[key[p]]
    IN  /\ life[p] <= emptied[s]
        /\ life[p] = emptied[s] =>
               key[p] \in DOMAIN shards[s] /\ shards[s][key[p]] = inst[p]

RaceInv ==
    /\ \A p \in Proc : pc[p] \in TookFromShard => Fresh(p)
    /\ RacersAgree

LEMMA InitRace == Init => RaceInv
  BY DEF Init, RaceInv, RacersAgree, TookFromShard

\* What a goroutine has in hand is not touched by a step.
Keeps(q) ==
    /\ pc'[q] \in TookFromShard => pc[q] \in TookFromShard
    /\ inst'[q] = inst[q] /\ life'[q] = life[q] /\ key'[q] = key[q]

\* A step in which nobody takes a replacer from a shard.
LEMMA QuietRace ==
    ASSUME RaceInv, UNCHANGED <<shards, emptied>>,
           \A q \in Proc : pc'[q] \in TookFromShard => Keeps(q)
    PROVE  RaceInv'
  BY DEF RaceInv, RacersAgree, Fresh, Keeps

\* A step in which p takes one, fresh, and the others' stay fresh.
LEMMA TakingRace ==
    ASSUME RaceInv, NEW p \in Proc, Fresh(p)',
           life'[p] = emptied'[ShardOf[key'[p]]],
           \A q \in Proc \ {p} : pc'[q] \in TookFromShard =>
                                     Keeps(q) /\ Fresh(q)'
    PROVE  RaceInv'
<1>1. \A q \in Proc : pc'[q] \in TookFromShard => Fresh(q)'
  OBVIOUS
<1>2. ASSUME NEW q \in Proc, NEW r \in Proc,
             pc'[q] \in TookFromShard, pc'[r] \in TookFromShard,
             key'[q] = key'[r], life'[q] = life'[r]
      PROVE  inst'[q] = inst'[r]
  <2>1. CASE q # p /\ r # p
    <3>1. Keeps(q) /\ Keeps(r)
      BY <1>2, <2>1
    <3> QED
      BY <1>2, <3>1 DEF RaceInv, RacersAgree, Keeps
  <2>2. CASE q = p \/ r = p
    <3>1. life'[q] = emptied'[ShardOf[key'[q]]]
      BY <1>2, <2>2
    <3>2. Fresh(q)' /\ Fresh(r)'
      BY <1>1, <1>2
    <3> QED
      BY <1>2, <3>1, <3>2 DEF Fresh
  <2> QED
    BY <2>1, <2>2
<1> QED
  BY <1>1, <1>2 DEF RaceInv, RacersAgree

LEMMA NextRace == Types /\ RaceInv /\ [Next]_vars => RaceInv'
<1> SUFFICES ASSUME Types, RaceInv, [Next]_vars PROVE RaceInv'
  OBVIOUS
<1> USE CacheAssumption
<1>1. CASE UNCHANGED vars
  BY <1>1, QuietRace DEF vars, local, Keeps
<1>2. ASSUME NEW p \in Proc,
             \/ \E k \in Key : Call(p, k)
             \/ LookHot(p) \/ PromoteLook(p) \/ Promote(p) \/ Build(p)
      PROVE  RaceInv'
  <2>1. UNCHANGED <<shards, emptied>>
    BY <1>2 DEF Call, LookHot, PromoteLook, Promote, Build
  <2>2. ASSUME NEW q \in Proc, pc'[q] \in TookFromShard
        PROVE  Keeps(q)
    BY <1>2, <2>2 DEF Call, LookHot, PromoteLook, Promote, Build, At,
       TookFromShard, Keeps, Types, TypeOK
  <2> QED
    BY <2>1, <2>2, QuietRace
<1>3. ASSUME NEW p \in Proc, LookCold(p)
      PROVE  RaceInv'
  <2> DEFINE s == ShardOf[key[p]]
  <2>1. CASE key[p] \in DOMAIN shards[s]
    <3>1. /\ inst' = [inst EXCEPT ![p] = shards[s][key[p]]]
          /\ life' = [life EXCEPT ![p] = emptied[s]]
          /\ At(p, "cold", "promote")
          /\ UNCHANGED <<shards, emptied, key>>
      BY <1>3, <2>1 DEF LookCold
    <3>2. /\ inst'[p] = shards[s][key[p]] /\ life'[p] = emptied[s]
          /\ emptied[s] \in Nat
      BY <3>1 DEF Types, TypeOK
    <3>3. Fresh(p)' /\ life'[p] = emptied'[ShardOf[key'[p]]]
      BY <2>1, <3>1, <3>2 DEF Fresh
    <3>4. ASSUME NEW q \in Proc \ {p}, pc'[q] \in TookFromShard
          PROVE  Keeps(q) /\ Fresh(q)'
      <4>1. Keeps(q)
        BY <3>1, <3>4 DEF At, Keeps, Types, TypeOK
      <4> QED
        BY <3>1, <3>4, <4>1 DEF Keeps, Fresh, RaceInv
    <3> QED
      BY <3>3, <3>4, TakingRace
  <2>2. CASE key[p] \notin DOMAIN shards[s]
    <3>1. /\ At(p, "cold", "build")
          /\ UNCHANGED <<inst, life, shards, emptied, key>>
      BY <1>3, <2>2 DEF LookCold
    <3>2. ASSUME NEW q \in Proc, pc'[q] \in TookFromShard
          PROVE  Keeps(q)
      BY <3>1, <3>2 DEF At, TookFromShard, Keeps, Types, TypeOK
    <3> QED
      BY <3>1, <3>2, QuietRace
  <2> QED
    BY <2>1, <2>2
<1>4. ASSUME NEW p \in Proc, Store(p)
      PROVE  RaceInv'
  <2> DEFINE s == ShardOf[key[p]]
  <2>1. s \in Shard /\ emptied[s] \in Nat /\ inst[p] \in Nat
    BY DEF Types, TypeOK
  <2>2. At(p, "store", "stored") /\ UNCHANGED key
        /\ life' = [life EXCEPT ![p] = emptied'[s]]
    BY <1>4 DEF Store
  <2>3. life'[p] = emptied'[s]
    BY <2>2 DEF Types, TypeOK
  <2>4. ASSUME NEW q \in Proc \ {p}, pc'[q] \in TookFromShard
        PROVE  Keeps(q) /\ Fresh(q)
    <3>1. inst'[q] = inst[q]
      BY <1>4 DEF Store, Types, TypeOK
    <3> QED
      BY <2>2, <2>4, <3>1 DEF At, Keeps, RaceInv, Types, TypeOK
  <2>5. CASE key[p] \in DOMAIN shards[s]
    <3>1. /\ inst' = [inst EXCEPT ![p] = shards[s][key[p]]]
          /\ UNCHANGED <<shards, emptied>>
      BY <1>4, <2>5 DEF Store
    <3>2. inst'[p] = shards[s][key[p]]
      BY <3>1 DEF Types, TypeOK
    <3>3. Fresh(p)'
      BY <2>1, <2>2, <2>3, <2>5, <3>1, <3>2 DEF Fresh
    <3>4. ASSUME NEW q \in Proc \ {p}, pc'[q] \in TookFromShard
          PROVE  Keeps(q) /\ Fresh(q)'
      BY <2>2, <2>4, <3>1, <3>4 DEF Keeps, Fresh
    <3> QED
      BY <2>2, <2>3, <3>3, <3>4, TakingRace
  <2>6. CASE key[p] \notin DOMAIN shards[s]
    <3> DEFINE full == Size(shards[s]) >= ShardLimit
               base == IF full THEN Empty ELSE shards[s]
               n == IF full THEN emptied[s] + 1 ELSE emptied[s]
    <3>1. /\ shards' = [shards EXCEPT ![s] = Put(base, key[p], inst[p])]
          /\ emptied' = [emptied EXCEPT ![s] = n]
          /\ UNCHANGED inst
      BY <1>4, <2>6 DEF Store
    <3> HIDE DEF base, n, full
    <3>2. shards'[s] = Put(base, key[p], inst[p]) /\ emptied'[s] = n
      BY <2>1, <3>1 DEF Types, TypeOK
    <3>3. n \in Nat
      BY <2>1 DEF n
    <3>4. Fresh(p)'
      <4>1. key[p] \in DOMAIN shards'[s] /\ shards'[s][key[p]] = inst[p]
        BY <3>2 DEF Put
      <4> QED
        BY <2>2, <2>3, <3>1, <3>2, <3>3, <4>1 DEF Fresh
    <3>5. ASSUME NEW q \in Proc \ {p}, pc'[q] \in TookFromShard
          PROVE  Keeps(q) /\ Fresh(q)'
      <4> DEFINE t == ShardOf[key[q]]
      <4>1. Keeps(q) /\ Fresh(q) /\ life[q] \in Nat /\ t \in Shard
        BY <2>4, <3>5 DEF Types, TypeOK
      <4>2. CASE t # s
        <5>1. shards'[t] = shards[t] /\ emptied'[t] = emptied[t]
          BY <3>1, <4>1, <4>2 DEF Types, TypeOK
        <5> QED
          BY <2>2, <4>1, <5>1 DEF Keeps, Fresh
      <4>3. CASE t = s /\ full
        <5>1. emptied'[t] = emptied[s] + 1
          BY <3>2, <4>3 DEF n
        <5>2. life[q] <= emptied[s]
          BY <4>1, <4>3 DEF Fresh
        <5>3. life'[q] < emptied'[t] /\ life'[q] <= emptied'[t]
          BY <2>1, <4>1, <5>1, <5>2 DEF Keeps
        <5> QED
          BY <2>1, <2>2, <4>1, <5>1, <5>2, <5>3 DEF Keeps, Fresh
      <4>4. CASE t = s /\ ~full
        <5>1. emptied'[s] = emptied[s] /\ base = shards[s]
          BY <3>2, <4>4 DEF n, base
        <5>2. ASSUME key[q] \in DOMAIN shards[s]
              PROVE  /\ key[q] \in DOMAIN shards'[s]
                     /\ shards'[s][key[q]] = shards[s][key[q]]
          <6>1. key[q] # key[p]
            BY <2>6, <5>2
          <6> QED
            BY <3>2, <5>1, <5>2, <6>1 DEF Put
        <5> QED
          BY <2>2, <4>1, <4>4, <5>1, <5>2 DEF Keeps, Fresh
      <4> QED
        BY <4>1, <4>2, <4>3, <4>4
    <3> QED
      BY <2>2, <2>3, <3>4, <3>5, TakingRace
  <2> QED
    BY <2>5, <2>6
<1> QED
  BY <1>1, <1>2, <1>3, <1>4 DEF Next

\* sanitize.go:357-370: goroutines that took their replacer for a pair from one
\* life of its shard have the same one, however many of them built one.
THEOREM BuildersAgree == Spec => []RacersAgree
<1>1. Spec => []Types
  BY InitTypes, NextTypes, PTL DEF Spec
<1>2. Spec => []RaceInv
  BY <1>1, InitRace, NextRace, PTL DEF Spec
<1>3. RaceInv => RacersAgree
  BY DEF RaceInv
<1> QED
  BY <1>2, <1>3, PTL
=============================================================================
