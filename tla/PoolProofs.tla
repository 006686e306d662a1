------------------------------ MODULE PoolProofs ------------------------------
(***************************************************************************)
(* Proofs about the pool of proxy transports, for any number of goroutines *)
(* and proxies and any limit.                                              *)
(***************************************************************************)
EXTENDS ProxyPool, FiniteSetTheorems, TLAPS

----------------------------------------------------------------------------
(* Types                                                                   *)

LEMMA InitTypes == Init => TypeOK
  BY PoolAssumption DEF Init, TypeOK, Place

Locked == {"check", "room", "evict", "close"}

\* Only the holder of the lock is where a transport is built or taken out.
LockInv == \A p \in Proc : pc[p] \in Locked => mu = p

\* What a goroutine has found out under the lock stays true as long as it has it.
PlaceInv ==
    /\ \A p \in Proc :
          /\ pc[p] \in {"room", "evict", "close"} => proxy[p] \notin DOMAIN pool
          /\ pc[p] = "evict" => oldest \in DOMAIN pool
          /\ pc[p] = "close" => victim # 0
          /\ pc[p] # "idle" => proxy[p] \in Proxy
          /\ pc[p] \in {"got", "dialing", "leaving", "sending"} => rt[p] # 0
          /\ pc[p] \in {"dialing", "leaving", "sending"} => host[p] \in Upstream
    /\ victim # 0 => \E p \in Proc : pc[p] = "close"

CountInv ==
    /\ IsFiniteSet(DOMAIN pool)
    /\ count = Cardinality(DOMAIN pool) + (IF victim = 0 THEN 0 ELSE 1)
    /\ count <= Limit

LEMMA TouchType ==
    ASSUME newer \in [Proxy -> SUBSET Proxy], NEW k \in Proxy, Touch(k)
    PROVE  newer' \in [Proxy -> SUBSET Proxy]
<1>1. ASSUME NEW j \in Proxy
      PROVE  (IF j \in DOMAIN pool \ {k} THEN newer[j] \cup {k} ELSE {})
                \in SUBSET Proxy
  OBVIOUS
<1> QED
  BY <1>1 DEF Touch

LEMMA BuildTypes ==
    ASSUME TypeOK, PlaceInv, NEW p \in Proc, Build(p)
    PROVE  TypeOK'
<1> USE DEF TypeOK
<1>1. built' = built + 1 /\ built \in Nat /\ proxy[p] \in Proxy
  BY DEF Build, PlaceInv, At
<1>2. pool' \in [DOMAIN pool' -> 1 .. built'] /\ DOMAIN pool' \subseteq Proxy
  BY <1>1 DEF Build
<1>3. owner' \in Seq(Proxy) /\ Len(owner') = built'
  BY <1>1 DEF Build
<1>4. newer' \in [Proxy -> SUBSET Proxy] /\ count' \in Nat
  BY <1>1 DEF Build, Touch
<1>5. rt' \in [Proc -> 0 .. built'] /\ pc' \in [Proc -> Place]
  BY <1>1 DEF Build, At, Place
<1>6. mu' = None /\ UNCHANGED <<oldest, victim, proxy, host, calls, idle,
                                closing, evicted, late, spared>>
  BY DEF Build, connVars
<1>7. 1 .. built \subseteq 1 .. built' /\ 0 .. built \subseteq 0 .. built'
  BY <1>1
<1> QED
  BY <1>1, <1>2, <1>3, <1>4, <1>5, <1>6, <1>7

LEMMA EvictTypes ==
    ASSUME TypeOK, PlaceInv, NEW p \in Proc, Evict(p)
    PROVE  TypeOK'
<1> USE DEF TypeOK
<1>1. oldest \in DOMAIN pool /\ pool[oldest] \in 1 .. built /\ built \in Nat
  BY DEF PlaceInv, Evict, At
<1>2. pool' \in [DOMAIN pool' -> 1 .. built'] /\ DOMAIN pool' \subseteq Proxy
  BY <1>1 DEF Evict
<1>3. newer' \in [Proxy -> SUBSET Proxy]
  BY DEF Evict
<1>4. victim' \in 0 .. built /\ evicted' \subseteq 1 .. built
  BY <1>1 DEF Evict
<1>5. pc' \in [Proc -> Place]
  BY DEF Evict, At, Place
<1>6. oldest' = None /\ UNCHANGED <<count, mu, proxy, rt, host, calls, built,
                                    owner, idle, closing, late, spared>>
  BY DEF Evict, connVars
<1> QED
  BY <1>1, <1>2, <1>3, <1>4, <1>5, <1>6

LEMMA StepTypes ==
    ASSUME TypeOK, PlaceInv, CountInv, [Next]_vars
    PROVE  TypeOK'
<1> USE PoolAssumption DEF TypeOK, poolVars, transportVars, connVars, At, Place
<1>1. CASE UNCHANGED vars
  BY <1>1 DEF vars
<1>2. ASSUME NEW p \in Proc, NEW k \in Proxy, Ask(p, k) PROVE TypeOK'
  BY <1>2 DEF Ask
<1>3. ASSUME NEW p \in Proc, LoadHit(p) \/ CheckHit(p) PROVE TypeOK'
  <2>1. newer' \in [Proxy -> SUBSET Proxy]
    BY <1>3, TouchType DEF LoadHit, CheckHit, PlaceInv
  <2>2. proxy[p] \in DOMAIN pool /\ pool[proxy[p]] \in 0 .. built
    BY <1>3 DEF LoadHit, CheckHit
  <2>3. pc' \in [Proc -> Place]
        /\ rt' \in [Proc -> 0 .. built] /\ mu' \in Proc \cup {None}
    BY <1>3, <2>2 DEF LoadHit, CheckHit
  <2>4. UNCHANGED <<pool, count, oldest, victim, proxy, host, calls, transportVars>>
    BY <1>3 DEF LoadHit, CheckHit
  <2> QED
    BY <2>1, <2>3, <2>4
<1>4. ASSUME NEW p \in Proc, LoadMiss(p) \/ Lock(p) \/ CheckMiss(p) PROVE TypeOK'
  BY <1>4 DEF LoadMiss, Lock, CheckMiss
<1>5. ASSUME NEW p \in Proc, Scan(p) PROVE TypeOK'
  BY <1>5 DEF Scan
<1>6. ASSUME NEW p \in Proc, CloseVictim(p) PROVE TypeOK'
  <2>1. victim # 0 /\ Cardinality(DOMAIN pool) \in Nat
    BY <1>6, FS_CardinalityType DEF CloseVictim, PlaceInv, CountInv
  <2>2. count' \in Nat
    BY <1>6, <2>1 DEF CloseVictim, CountInv
  <2>3. pc' \in [Proc -> Place]
    BY <1>6 DEF CloseVictim
  <2>4. closing' \subseteq 1 .. built /\ victim' \in 0 .. built
    BY <1>6, <2>1 DEF CloseVictim
  <2>5. idle' \subseteq idle
    BY <1>6 DEF CloseVictim
  <2>6. spared' \subseteq (1 .. built) \X Multiplexed
    <3>1. victim \in 1 .. built
      BY <2>1
    <3>2. {victim} \X Multiplexed \subseteq (1 .. built) \X Multiplexed
      BY <3>1
    <3> QED
      BY <1>6, <3>2 DEF CloseVictim
  <2>7. UNCHANGED <<pool, newer, mu, oldest, proxy, rt, host, calls, built,
                    owner, evicted, late>>
    BY <1>6 DEF CloseVictim
  <2> QED
    BY <2>2, <2>3, <2>4, <2>7, <2>6, <2>5
<1>7. ASSUME NEW p \in Proc, NEW u \in Upstream,
             BeginDial(p, u) \/ BeginReuse(p, u)
      PROVE TypeOK'
  <2>1. rt[p] \in 1 .. built
    BY <1>7 DEF BeginDial, BeginReuse, PlaceInv
  <2>2. closing' \subseteq 1 .. built /\ late' \subseteq 1 .. built
    BY <1>7, <2>1 DEF BeginDial, BeginReuse, AskedFor
  <2>3. idle' \subseteq idle
    BY <1>7 DEF BeginDial, BeginReuse
  <2>4. pc' \in [Proc -> Place]
    BY <1>7 DEF BeginDial, BeginReuse
  <2>5. host' = [host EXCEPT ![p] = u]
    BY <1>7 DEF BeginDial, BeginReuse
  <2>6. host' \in [Proc -> Upstream \cup {None}]
    BY <2>5
  <2>7. UNCHANGED <<poolVars, proxy, rt, calls, built, owner, evicted, spared>>
    BY <1>7 DEF BeginDial, BeginReuse
  <2> QED
    BY <2>2, <2>3, <2>4, <2>7, <2>6
<1>8. ASSUME NEW p \in Proc, Dialed(p) \/ LeaveDial(p) \/ Redial(p) PROVE TypeOK'
  <2>1. CASE Dialed(p) \/ LeaveDial(p)
    BY <2>1 DEF Dialed, LeaveDial
  <2>2. CASE Redial(p)
    <3>1. rt[p] \in 1 .. built
      BY <2>2 DEF Redial, PlaceInv
    <3>2. closing' \subseteq 1 .. built /\ late' \subseteq 1 .. built
      BY <2>2, <3>1 DEF Redial, AskedFor
    <3>3. pc' \in [Proc -> Place]
      BY <2>2 DEF Redial
    <3>4. UNCHANGED <<poolVars, proxy, rt, host, calls, built, owner, evicted,
                      idle, spared>>
      BY <2>2 DEF Redial
    <3> QED
      BY <3>2, <3>3, <3>4
  <2> QED
    BY <1>8, <2>1, <2>2
<1>9. ASSUME NEW p \in Proc, DialEnds(p) \/ End(p) PROVE TypeOK'
  <2>1. Conn(p) \in (1 .. built) \X Upstream
    BY <1>9 DEF DialEnds, End, PlaceInv, Conn
  <2>2. idle' \subseteq (1 .. built) \X Upstream
    BY <1>9, <2>1 DEF DialEnds, End, KeepOrNot
  <2>3. pc' \in [Proc -> Place]
    BY <1>9 DEF DialEnds, End
  <2>4. proxy' \in [Proc -> Proxy \cup {None}]
    BY <1>9 DEF DialEnds, End, Forget
  <2>5. rt' \in [Proc -> 0 .. built]
    <3>1. rt' = [rt EXCEPT ![p] = 0] /\ 0 \in 0 .. built
      BY <1>9 DEF DialEnds, End, Forget
    <3> QED
      BY <3>1
  <2>6. host' \in [Proc -> Upstream \cup {None}]
    BY <1>9 DEF DialEnds, End, Forget
  <2>7. UNCHANGED <<poolVars, calls, built, owner, evicted, closing, late, spared>>
    BY <1>9 DEF DialEnds, End
  <2> QED
    BY <2>2, <2>3, <2>6, <2>7, <2>4, <2>5
<1>10. CASE Expire \/ CloseAll
  BY <1>10 DEF Expire, CloseAll
<1>11. ASSUME NEW p \in Proc, Step(p) PROVE TypeOK'
  BY <1>3, <1>4, <1>5, <1>6, <1>7, <1>11, BuildTypes, EvictTypes DEF Step
<1> QED
  BY <1>1, <1>2, <1>8, <1>10, <1>11, <1>9 DEF Next

----------------------------------------------------------------------------
(* The lock                                                                *)

LEMMA StepLock ==
    ASSUME TypeOK, LockInv, [Next]_vars
    PROVE  LockInv'
<1> USE PoolAssumption DEF TypeOK, LockInv, Locked, poolVars, At
<1>1. CASE UNCHANGED vars
  BY <1>1 DEF vars
<1>2. ASSUME NEW p \in Proc, NEW k \in Proxy, Ask(p, k) PROVE LockInv'
  BY <1>2 DEF Ask
<1>3. ASSUME NEW p \in Proc, LoadHit(p) \/ LoadMiss(p) \/ Lock(p) PROVE LockInv'
  BY <1>3 DEF LoadHit, LoadMiss, Lock
<1>4. ASSUME NEW p \in Proc, CheckHit(p) \/ Build(p) PROVE LockInv'
  BY <1>4 DEF CheckHit, Build
<1>5. ASSUME NEW p \in Proc,
             CheckMiss(p) \/ Scan(p) \/ Evict(p) \/ CloseVictim(p)
      PROVE LockInv'
  BY <1>5 DEF CheckMiss, Scan, Evict, CloseVictim
<1>6. ASSUME NEW p \in Proc, NEW u \in Upstream, BeginDial(p, u) \/ BeginReuse(p, u)
      PROVE LockInv'
  BY <1>6 DEF BeginDial, BeginReuse
<1>7. ASSUME NEW p \in Proc,
             Dialed(p) \/ LeaveDial(p) \/ Redial(p) \/ DialEnds(p) \/ End(p)
      PROVE LockInv'
  BY <1>7 DEF Dialed, LeaveDial, Redial, DialEnds, End
<1>8. CASE Expire \/ CloseAll
  BY <1>8 DEF Expire, CloseAll
<1> QED
  BY <1>1, <1>2, <1>3, <1>4, <1>5, <1>6, <1>7, <1>8 DEF Next, Step

\* A goroutine that has the lock is alone behind it.
LEMMA Alone ==
    ASSUME LockInv, NEW p \in Proc, pc[p] \in Locked
    PROVE  \A q \in Proc : pc[q] \in Locked => q = p
  BY DEF LockInv

\* While somebody looks for room nothing is waiting to be closed.
LEMMA NoVictim ==
    ASSUME LockInv, PlaceInv, NEW p \in Proc, pc[p] \in {"check", "room", "evict"}
    PROVE  victim = 0
  BY Alone DEF PlaceInv, Locked

LEMMA StepPlace ==
    ASSUME TypeOK, LockInv, PlaceInv, [Next]_vars
    PROVE  PlaceInv'
<1> USE DEF TypeOK, PlaceInv, At
<1>1. CASE UNCHANGED vars
  BY <1>1 DEF vars, poolVars, transportVars
<1>2. ASSUME NEW p \in Proc, NEW k \in Proxy, Ask(p, k) PROVE PlaceInv'
  BY <1>2 DEF Ask, poolVars
<1>3. ASSUME NEW p \in Proc, LoadHit(p) \/ CheckHit(p) PROVE PlaceInv'
  <2>1. proxy[p] \in DOMAIN pool /\ pool[proxy[p]] # 0
    BY <1>3 DEF LoadHit, CheckHit
  <2> QED
    BY <1>3, <2>1 DEF LoadHit, CheckHit
<1>4. ASSUME NEW p \in Proc, LoadMiss(p) \/ Lock(p) \/ CheckMiss(p)
      PROVE PlaceInv'
  BY <1>4 DEF LoadMiss, Lock, CheckMiss, poolVars
<1>5. ASSUME NEW p \in Proc, Scan(p) PROVE PlaceInv'
  <2>1. \A q \in Proc : pc[q] \in Locked => q = p
    BY <1>5, Alone DEF Scan, Locked
  <2> QED
    BY <1>5, <2>1 DEF Scan, Locked
<1>6. ASSUME NEW p \in Proc, Evict(p) PROVE PlaceInv'
  <2>1. \A q \in Proc : pc[q] \in Locked => q = p
    BY <1>6, Alone DEF Evict, Locked
  <2>2. oldest \in DOMAIN pool /\ pool[oldest] # 0
    BY <1>6 DEF Evict
  <2>3. DOMAIN pool' \subseteq DOMAIN pool
    BY <1>6 DEF Evict
  <2> QED
    BY <1>6, <2>1, <2>2, <2>3 DEF Evict, Locked
<1>7. ASSUME NEW p \in Proc, CloseVictim(p) PROVE PlaceInv'
  <2>1. \A q \in Proc : pc[q] \in Locked => q = p
    BY <1>7, Alone DEF CloseVictim, Locked
  <2> QED
    BY <1>7, <2>1 DEF CloseVictim, Locked
<1>8. ASSUME NEW p \in Proc, Build(p) PROVE PlaceInv'
  <2>1. \A q \in Proc : pc[q] \in Locked => q = p
    BY <1>8, Alone DEF Build, Locked
  <2>2. victim = 0
    BY <1>8, NoVictim DEF Build
  <2>3. built + 1 # 0
    OBVIOUS
  <2> QED
    BY <1>8, <2>1, <2>2, <2>3 DEF Build, Locked
<1>9. ASSUME NEW p \in Proc, NEW u \in Upstream, BeginDial(p, u) \/ BeginReuse(p, u)
      PROVE PlaceInv'
  BY <1>9 DEF BeginDial, BeginReuse, poolVars
<1>10. ASSUME NEW p \in Proc, Dialed(p) \/ LeaveDial(p) \/ Redial(p) PROVE PlaceInv'
  BY <1>10 DEF Dialed, LeaveDial, Redial, poolVars
<1>11. ASSUME NEW p \in Proc, DialEnds(p) \/ End(p) PROVE PlaceInv'
  BY <1>11 DEF DialEnds, End, Forget, poolVars
<1>12. CASE Expire \/ CloseAll
  BY <1>12 DEF Expire, CloseAll, poolVars
<1> QED
  BY <1>1, <1>2, <1>3, <1>4, <1>5, <1>6, <1>7, <1>8, <1>9, <1>10, <1>11,
     <1>12
  DEF Next, Step

----------------------------------------------------------------------------
(* The bound                                                               *)

LEMMA StepCount ==
    ASSUME TypeOK, LockInv, PlaceInv, CountInv, [Next]_vars
    PROVE  CountInv'
<1> USE PoolAssumption DEF TypeOK
<1>0. Cardinality(DOMAIN pool) \in Nat
  BY FS_CardinalityType DEF CountInv
<1>1. ASSUME pool' = pool, count' = count, victim' = victim PROVE CountInv'
  BY <1>1 DEF CountInv
<1>2. ASSUME NEW p \in Proc, Evict(p) PROVE CountInv'
  <2>1. victim = 0 /\ oldest \in DOMAIN pool /\ pool[oldest] # 0
    BY <1>2, NoVictim DEF Evict, At, PlaceInv
  <2>2. DOMAIN pool' = DOMAIN pool \ {oldest}
    BY <1>2 DEF Evict
  <2>3. /\ IsFiniteSet(DOMAIN pool')
        /\ Cardinality(DOMAIN pool') = Cardinality(DOMAIN pool) - 1
    BY <2>1, <2>2, FS_RemoveElement DEF CountInv
  <2>4. victim' # 0 /\ count' = count
    BY <1>2, <2>1 DEF Evict
  <2> QED
    BY <1>0, <2>1, <2>3, <2>4 DEF CountInv
<1>3. ASSUME NEW p \in Proc, CloseVictim(p) PROVE CountInv'
  <2>1. victim # 0 /\ victim' = 0 /\ count' = count - 1 /\ pool' = pool
    BY <1>3 DEF CloseVictim, At, PlaceInv
  <2> QED
    BY <1>0, <2>1 DEF CountInv
<1>4. ASSUME NEW p \in Proc, Build(p) PROVE CountInv'
  <2>1. victim = 0 /\ proxy[p] \notin DOMAIN pool
    BY <1>4, NoVictim DEF Build, At, PlaceInv
  <2>2. DOMAIN pool' = DOMAIN pool \cup {proxy[p]}
    BY <1>4 DEF Build
  <2>3. /\ IsFiniteSet(DOMAIN pool')
        /\ Cardinality(DOMAIN pool') = Cardinality(DOMAIN pool) + 1
    BY <2>1, <2>2, FS_AddElement DEF CountInv
  <2>4. victim' = 0 /\ count' = count + 1
    BY <1>4, <2>1 DEF Build
  <2>5. count < Limit
    <3>1. CASE DOMAIN pool = {}
      BY <2>1, <3>1, FS_EmptySet DEF CountInv
    <3> QED
      BY <1>4, <3>1 DEF Build
  <2> QED
    BY <1>0, <2>1, <2>3, <2>4, <2>5 DEF CountInv
<1>5. ASSUME NEW p \in Proc,
             LoadHit(p) \/ LoadMiss(p) \/ Lock(p) \/ CheckHit(p)
             \/ CheckMiss(p) \/ Scan(p) \/ Dialed(p) \/ LeaveDial(p)
             \/ Redial(p) \/ DialEnds(p) \/ End(p)
             \/ \E u \in Upstream : BeginDial(p, u) \/ BeginReuse(p, u)
      PROVE pool' = pool /\ count' = count /\ victim' = victim
  BY <1>5 DEF LoadHit, LoadMiss, Lock, CheckHit, CheckMiss, Scan, BeginDial,
     BeginReuse, Dialed, LeaveDial, Redial, DialEnds, End, poolVars
<1>6. ASSUME \/ UNCHANGED vars \/ Expire \/ CloseAll
             \/ \E p \in Proc, k \in Proxy : Ask(p, k)
      PROVE pool' = pool /\ count' = count /\ victim' = victim
  BY <1>6 DEF vars, Expire, CloseAll, Ask, poolVars
<1> QED
  BY <1>1, <1>2, <1>3, <1>4, <1>5, <1>6 DEF Next, Step

\* Together they are inductive.
PoolInv == TypeOK /\ LockInv /\ PlaceInv /\ CountInv

LEMMA PoolInvariance == Spec => []PoolInv
<1>1. Init => PoolInv
  <2>1. Init => CountInv
    BY PoolAssumption, FS_EmptySet DEF Init, CountInv
  <2>2. Init => LockInv /\ PlaceInv
    BY DEF Init, LockInv, PlaceInv, Locked
  <2> QED
    BY <2>1, <2>2, InitTypes DEF PoolInv
<1>2. PoolInv /\ [Next]_vars => PoolInv'
  BY StepTypes, StepLock, StepPlace, StepCount DEF PoolInv
<1> QED
  BY <1>1, <1>2, PTL DEF Spec

\* Every variable keeps its type, for any number of goroutines and proxies.
THEOREM PoolTypeCorrect == Spec => []TypeOK
  BY PoolInvariance, PTL DEF PoolInv

----------------------------------------------------------------------------
(* One transport for a proxy                                               *)

\* What the pool has for a proxy was built for it and is not thrown out, and
\* what is not thrown out is what the pool has.
TransportInv ==
    /\ \A k \in DOMAIN pool : owner[pool[k]] = k /\ pool[k] \notin evicted
    /\ OneTransportEach

LEMMA AppendKeeps ==
    ASSUME NEW S, NEW s \in Seq(S), NEW e \in S
    PROVE  /\ Append(s, e)[Len(s) + 1] = e
           /\ \A i \in 1 .. Len(s) : Append(s, e)[i] = s[i]
  OBVIOUS

LEMMA StepTransport ==
    ASSUME PoolInv, TransportInv, [Next]_vars
    PROVE  TransportInv'
<1> USE DEF PoolInv, TypeOK, TransportInv, OneTransportEach
<1>1. ASSUME pool' = pool, owner' = owner, built' = built, evicted' = evicted
      PROVE  TransportInv'
  BY <1>1
<1>2. ASSUME NEW p \in Proc, Evict(p) PROVE TransportInv'
  <2>1. oldest \in DOMAIN pool /\ pool[oldest] \in 1 .. built
    BY <1>2 DEF Evict, At, PlaceInv
  <2>2. /\ pool' = [k \in DOMAIN pool \ {oldest} |-> pool[k]]
        /\ evicted' = evicted \cup {pool[oldest]}
        /\ owner' = owner /\ built' = built
    BY <1>2 DEF Evict
  <2>3. \A k \in DOMAIN pool' : owner'[pool'[k]] = k /\ pool'[k] \notin evicted'
    BY <2>1, <2>2
  <2>4. ASSUME NEW t \in (1 .. built') \ evicted'
        PROVE  owner'[t] \in DOMAIN pool' /\ pool'[owner'[t]] = t
    BY <2>1, <2>2, <2>4
  <2> QED
    BY <2>3, <2>4
<1>3. ASSUME NEW p \in Proc, Build(p) PROVE TransportInv'
  <2> DEFINE new == built + 1
  <2>1. /\ proxy[p] \in Proxy /\ proxy[p] \notin DOMAIN pool /\ built \in Nat
    BY <1>3 DEF Build, At, PlaceInv
  <2>2. /\ built' = new /\ evicted' = evicted
        /\ owner' = Append(owner, proxy[p])
        /\ pool' = [k \in DOMAIN pool \cup {proxy[p]} |->
                        IF k = proxy[p] THEN new ELSE pool[k]]
    BY <1>3 DEF Build
  <2>3. /\ owner'[new] = proxy[p]
        /\ \A t \in 1 .. built : owner'[t] = owner[t]
    BY <2>2, AppendKeeps
  <2>4. new \notin evicted /\ new \notin 1 .. built
    BY <2>1
  <2>5. ASSUME NEW k \in DOMAIN pool'
        PROVE  owner'[pool'[k]] = k /\ pool'[k] \notin evicted'
    <3>1. CASE k = proxy[p]
      BY <2>2, <2>3, <2>4, <3>1
    <3>2. CASE k # proxy[p]
      BY <2>2, <2>3, <3>2
    <3> QED
      BY <3>1, <3>2
  <2>6. ASSUME NEW t \in (1 .. built') \ evicted'
        PROVE  owner'[t] \in DOMAIN pool' /\ pool'[owner'[t]] = t
    <3>1. CASE t = new
      BY <2>2, <2>3, <3>1
    <3>2. CASE t # new
      <4>1. t \in (1 .. built) \ evicted
        BY <2>1, <2>2, <3>2
      <4> QED
        BY <2>1, <2>2, <2>3, <4>1
    <3> QED
      BY <3>1, <3>2
  <2> QED
    BY <2>5, <2>6
<1>4. ASSUME NEW p \in Proc,
             LoadHit(p) \/ LoadMiss(p) \/ Lock(p) \/ CheckHit(p) \/ CheckMiss(p)
             \/ Scan(p) \/ CloseVictim(p) \/ Dialed(p) \/ LeaveDial(p)
             \/ Redial(p) \/ DialEnds(p) \/ End(p)
             \/ \E u \in Upstream : BeginDial(p, u) \/ BeginReuse(p, u)
      PROVE pool' = pool /\ owner' = owner /\ built' = built /\ evicted' = evicted
  BY <1>4 DEF LoadHit, LoadMiss, Lock, CheckHit, CheckMiss, Scan, CloseVictim,
     BeginDial, BeginReuse, Dialed, LeaveDial, Redial, DialEnds, End, poolVars,
     transportVars
<1>5. ASSUME \/ UNCHANGED vars \/ Expire \/ CloseAll
             \/ \E p \in Proc, k \in Proxy : Ask(p, k)
      PROVE pool' = pool /\ owner' = owner /\ built' = built /\ evicted' = evicted
  BY <1>5 DEF vars, Expire, CloseAll, Ask, poolVars, transportVars
<1> QED
  BY <1>1, <1>2, <1>3, <1>4, <1>5 DEF Next, Step

\* However look-ups, builds and evictions interleave, the pool never has more
\* transports than it may, the counter agrees with it, and nobody builds a second
\* transport for a proxy that has one (router.go:76-80, 150-165).
THEOREM PoolKeepsItsWord == Spec => []PoolIsSound
<1>1. Init => TransportInv
  BY DEF Init, TransportInv, OneTransportEach
<1>2. PoolInv /\ TransportInv /\ [Next]_vars => TransportInv'
  BY StepTransport
<1>3. PoolInv /\ TransportInv => PoolIsSound
  <2> SUFFICES ASSUME PoolInv PROVE Cardinality(DOMAIN pool) <= Limit
    BY DEF PoolInv, CountInv, TransportInv, PoolIsSound, PoolBounded
  <2>1. Cardinality(DOMAIN pool) \in Nat /\ Limit \in Nat
    BY PoolAssumption, FS_CardinalityType DEF PoolInv, CountInv
  <2> QED
    BY <2>1 DEF PoolInv, CountInv
<1> QED
  BY <1>1, <1>2, <1>3, PoolInvariance, PTL DEF Spec

----------------------------------------------------------------------------
(* Connections nobody can reach                                            *)

\* An idle connection was in use when its transport was closed; so was an HTTP/2
\* one in use, which may become idle; and an HTTP/1 one in use is not kept.
Dwindles(t) ==
    /\ t \in closing
    /\ \A u \in Upstream :
          \/ <<t, u>> \in spared
          \/ <<t, u>> \notin idle /\ ~(u \in Multiplexed /\ InUse(<<t, u>>))

\* This is so of a transport that nobody can reach and that was not asked for a
\* connection after it had been thrown out.
OrphanInv == \A t \in 1 .. built : Reachable(t) \/ t \in late \/ Dwindles(t)

\* What leaves the connections, the pool and their users alone leaves it so.
LEMMA SameOrphans ==
    ASSUME OrphanInv, UNCHANGED <<pool, victim, built, connVars>>,
           \A c : InUse(c)' => InUse(c)
    PROVE  OrphanInv'
  BY DEF OrphanInv, Dwindles, Reachable, connVars

LEMMA StepOrphan ==
    ASSUME PoolInv, OrphanInv, [Next]_vars
    PROVE  OrphanInv'
<1> USE DEF PoolInv, TypeOK, At
<1>1. CASE UNCHANGED vars
  <2>1. \A c : InUse(c)' => InUse(c)
    BY <1>1 DEF vars, InUse, Conn
  <2> QED
    BY <1>1, <2>1, SameOrphans DEF vars, poolVars, transportVars
<1>2. ASSUME NEW p \in Proc, NEW k \in Proxy, Ask(p, k) PROVE OrphanInv'
  <2>1. \A c : InUse(c)' => InUse(c)
    BY <1>2 DEF Ask, InUse, Conn
  <2> QED
    BY <1>2, <2>1, SameOrphans DEF Ask, poolVars, transportVars
<1>3. ASSUME NEW p \in Proc,
             LoadHit(p) \/ LoadMiss(p) \/ Lock(p) \/ CheckHit(p) \/ CheckMiss(p)
             \/ Scan(p)
      PROVE OrphanInv'
  <2>1. \A c : InUse(c)' => InUse(c)
    BY <1>3 DEF LoadHit, LoadMiss, Lock, CheckHit, CheckMiss, Scan, InUse, Conn
  <2> QED
    BY <1>3, <2>1, SameOrphans DEF LoadHit, LoadMiss, Lock, CheckHit, CheckMiss,
       Scan, poolVars, transportVars
<1>4. ASSUME NEW p \in Proc, Evict(p) PROVE OrphanInv'
  <2>1. victim = 0 /\ oldest \in DOMAIN pool
    BY <1>4, NoVictim DEF Evict, PlaceInv
  <2>2. /\ victim' = pool[oldest]
        /\ pool' = [k \in DOMAIN pool \ {oldest} |-> pool[k]]
        /\ UNCHANGED <<built, connVars>>
    BY <1>4 DEF Evict
  <2>3. ASSUME NEW t \in 1 .. built, Reachable(t) PROVE Reachable(t)'
    BY <2>1, <2>2, <2>3 DEF Reachable
  <2>4. \A c : InUse(c)' => InUse(c)
    BY <1>4 DEF Evict, InUse, Conn
  <2> QED
    BY <2>2, <2>3, <2>4 DEF OrphanInv, Dwindles, connVars
<1>5. ASSUME NEW p \in Proc, CloseVictim(p) PROVE OrphanInv'
  <2>1. \A c : InUse(c)' => InUse(c)
    BY <1>5 DEF CloseVictim, InUse, Conn
  <2>2. \A t : Reachable(t) /\ t # victim => Reachable(t)'
    BY <1>5 DEF CloseVictim, Reachable
  <2>3. ASSUME NEW t \in 1 .. built, Dwindles(t) PROVE Dwindles(t)'
    BY <1>5, <2>1, <2>3 DEF CloseVictim, Dwindles
  <2>4. ASSUME NEW t \in 1 .. built, t = victim PROVE Dwindles(t)'
    <3>1. t \in closing' /\ \A u \in Upstream : <<t, u>> \notin idle'
      BY <1>5, <2>4 DEF CloseVictim
    <3>2. ASSUME NEW u \in Multiplexed, InUse(<<t, u>>)
          PROVE  <<t, u>> \in spared'
      BY <1>5, <2>4, <3>2 DEF CloseVictim
    <3> QED
      BY <2>1, <3>1, <3>2 DEF Dwindles
  <2> QED
    BY <1>5, <2>2, <2>3, <2>4 DEF CloseVictim, OrphanInv
<1>6. ASSUME NEW p \in Proc, Build(p) PROVE OrphanInv'
  <2>1. proxy[p] \notin DOMAIN pool /\ built \in Nat
    BY <1>6 DEF Build, PlaceInv
  <2>2. /\ built' = built + 1
        /\ pool' = [k \in DOMAIN pool \cup {proxy[p]} |->
                        IF k = proxy[p] THEN built + 1 ELSE pool[k]]
        /\ UNCHANGED <<victim, connVars>>
    BY <1>6 DEF Build
  <2>3. ASSUME NEW t \in 1 .. built, Reachable(t) PROVE Reachable(t)'
    BY <2>1, <2>2, <2>3 DEF Reachable
  <2>4. ASSUME NEW t, t = built + 1 PROVE Reachable(t)'
    <3>1. proxy[p] \in DOMAIN pool' /\ pool'[proxy[p]] = t
      BY <2>2, <2>4
    <3> QED
      BY <3>1 DEF Reachable
  <2>5. \A c : InUse(c)' => InUse(c)
    BY <1>6 DEF Build, InUse, Conn
  <2>6. \A t \in 1 .. built' : t \in 1 .. built \/ t = built + 1
    BY <2>1, <2>2
  <2> QED
    BY <2>2, <2>3, <2>4, <2>5, <2>6 DEF OrphanInv, Dwindles, connVars
<1>7. ASSUME NEW p \in Proc, NEW u \in Upstream, BeginDial(p, u) \/ BeginReuse(p, u)
      PROVE OrphanInv'
  <2> DEFINE r == rt[p]
  <2>1. /\ rt' = rt /\ spared' = spared /\ built' = built
        /\ idle' \subseteq idle /\ late \subseteq late'
        /\ \A t : t # r /\ t \in closing => t \in closing'
        /\ Reachable(r) \/ r \in late'
        /\ \A t : Reachable(t)' <=> Reachable(t)
    BY <1>7 DEF BeginDial, BeginReuse, AskedFor, Reachable, poolVars
  <2>2. \A c : InUse(c)' => InUse(c) \/ c = <<r, u>>
    BY <1>7 DEF BeginDial, BeginReuse, InUse, Conn
  <2>3. ASSUME NEW t \in 1 .. built, t # r, Dwindles(t) PROVE Dwindles(t)'
    <3>1. \A v \in Upstream : InUse(<<t, v>>)' => InUse(<<t, v>>)
      BY <2>2, <2>3
    <3> QED
      BY <2>1, <2>3, <3>1 DEF Dwindles
  <2> QED
    BY <2>1, <2>3 DEF OrphanInv
<1>8. ASSUME NEW p \in Proc, Dialed(p) \/ LeaveDial(p) PROVE OrphanInv'
  <2>1. \A c : InUse(c)' => InUse(c)
    BY <1>8 DEF Dialed, LeaveDial, InUse, Conn
  <2> QED
    BY <1>8, <2>1, SameOrphans DEF Dialed, LeaveDial, poolVars, transportVars
<1>9. ASSUME NEW p \in Proc, Redial(p) PROVE OrphanInv'
  <2> DEFINE r == rt[p]
  <2>1. /\ UNCHANGED <<spared, built, idle>> /\ late \subseteq late'
        /\ \A t : t # r /\ t \in closing => t \in closing'
        /\ Reachable(r) \/ r \in late'
        /\ \A t : Reachable(t)' <=> Reachable(t)
    BY <1>9 DEF Redial, AskedFor, Reachable, poolVars
  <2>2. \A c : InUse(c)' => InUse(c)
    BY <1>9 DEF Redial, InUse, Conn
  <2>3. ASSUME NEW t \in 1 .. built, t # r, Dwindles(t) PROVE Dwindles(t)'
    BY <2>1, <2>2, <2>3 DEF Dwindles
  <2> QED
    BY <2>1, <2>3 DEF OrphanInv
<1>10. ASSUME NEW p \in Proc, DialEnds(p) \/ End(p) PROVE OrphanInv'
  <2>1. \A c : InUse(c)' => InUse(c)
    BY <1>10 DEF DialEnds, End, Forget, InUse, Conn
  <2>2. UNCHANGED <<pool, victim, built, closing, late, spared>>
    BY <1>10 DEF DialEnds, End, poolVars
  <2>3. InUse(Conn(p)) /\ Conn(p) = <<rt[p], host[p]>>
    BY <1>10 DEF DialEnds, End, InUse, Conn
  <2>4. KeepOrNot(Conn(p))
    BY <1>10 DEF DialEnds, End
  <2>5. ASSUME NEW t \in 1 .. built, Dwindles(t) PROVE Dwindles(t)'
    <3>1. ASSUME NEW u \in Upstream, <<t, u>> \notin spared
          PROVE  <<t, u>> \notin idle'
      <4>1. <<t, u>> \notin idle /\ ~(u \in Multiplexed /\ InUse(<<t, u>>))
        BY <2>5, <3>1 DEF Dwindles
      <4>2. CASE <<t, u>> = Conn(p)
        <5>1. u \notin Multiplexed /\ t \in closing
          BY <2>3, <2>5, <4>1, <4>2 DEF Dwindles
        <5>2. rt[p] = t /\ host[p] = u
          BY <2>3, <4>2
        <5> QED
          BY <2>3, <2>4, <4>1, <5>1, <5>2 DEF KeepOrNot
      <4>3. CASE <<t, u>> # Conn(p)
        BY <2>4, <4>1, <4>3 DEF KeepOrNot
      <4> QED
        BY <4>2, <4>3
    <3> QED
      BY <2>1, <2>2, <2>5, <3>1 DEF Dwindles
  <2> QED
    BY <2>2, <2>5 DEF OrphanInv, Reachable
<1>11. CASE Expire \/ CloseAll
  <2>1. \A c : InUse(c)' => InUse(c)
    BY <1>11 DEF Expire, CloseAll, InUse, Conn
  <2>2. /\ idle' \subseteq idle /\ closing \subseteq closing'
        /\ UNCHANGED <<pool, victim, built, late, spared>>
    BY <1>11 DEF Expire, CloseAll, poolVars
  <2> QED
    BY <2>1, <2>2 DEF OrphanInv, Dwindles, Reachable
<1> QED
  BY <1>1, <1>2, <1>3, <1>4, <1>5, <1>6, <1>7, <1>8, <1>9, <1>10, <1>11
  DEF Next, Step

\* A connection that is idle in a transport nobody can reach is an HTTP/2 one that was
\* in use or being dialled when the transport was closed, or the transport was asked
\* for a connection after it had been thrown out (router.go:184-187).
THEOREM ThrownOutMeansClosed == Spec => []OrphansAreClosed
<1>1. Init => OrphanInv
  BY DEF Init, OrphanInv
<1>2. PoolInv /\ OrphanInv /\ [Next]_vars => OrphanInv'
  BY StepOrphan
<1>3. PoolInv /\ OrphanInv => OrphansAreClosed
  <2> SUFFICES ASSUME PoolInv, OrphanInv, NEW c \in idle
               PROVE  Reachable(c[1]) \/ c[1] \in late \/ c \in spared
    BY DEF OrphansAreClosed
  <2>1. c[1] \in 1 .. built /\ c[2] \in Upstream /\ c = <<c[1], c[2]>>
    BY DEF PoolInv, TypeOK
  <2> QED
    BY <2>1 DEF OrphanInv, Dwindles
<1> QED
  BY <1>1, <1>2, <1>3, PoolInvariance, PTL DEF Spec
=============================================================================
