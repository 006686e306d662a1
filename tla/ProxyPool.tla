------------------------------ MODULE ProxyPool ------------------------------
(***************************************************************************)
(* The transports of the proxies that requests ask for                     *)
(* (upstream/router.go): looked up without a lock, built under one, thrown *)
(* out when there are too many.  Router.mu guards building and eviction    *)
(* only, so that every step below interleaves with the look-ups of other   *)
(* requests and with their use of a transport.  What is kept of an         *)
(* http.Transport is its connections to each upstream: those in use, idle  *)
(* or being dialled.  newTransport offers HTTP/2, where one connection     *)
(* serves many requests at a time; an upstream that does not speak it is   *)
(* reached by HTTP/1.  A request without a proxy takes the default         *)
(* transport and never comes here.                                         *)
(***************************************************************************)
EXTENDS Naturals, Sequences, FiniteSets

CONSTANTS
    Proc,     \* request goroutines
    Proxy,    \* the proxies they ask for
    Upstream, \* the upstreams behind them
    Multiplexed, \* those that speak HTTP/2
    Limit,    \* maxProxyTransports
    MaxCalls, \* bound: how many requests there are
    None      \* nobody, or nothing

ASSUME PoolAssumption ==
    /\ Limit \in Nat \ {0} /\ MaxCalls \in Nat
    /\ Multiplexed \subseteq Upstream
    /\ None \notin Proc \cup Proxy \cup Upstream

VARIABLES
    pool,     \* the sync.Map: a transport for some proxies
    newer,    \* the proxies of the pool that were used since this one was
    count,    \* Router.count
    mu,       \* who holds Router.mu
    oldest,   \* the proxy whose transport is to be taken out
    victim,   \* the transport that has been taken out and not closed yet
    pc, proxy, rt, host,  \* a goroutine: where it is, its proxy, its transport
                          \* and the upstream it has begun to talk to
    calls,
    built,    \* transports built so far; a transport is told by its number
    owner,    \* the proxy each transport was built for
    idle,     \* <<t, u>>: transport t has an idle connection to upstream u
    closing,  \* closeIdle: an HTTP/1 connection is closed, not kept
    evicted,  \* transports that were thrown out
    late,     \* those asked for a connection after they had been thrown out
    spared    \* HTTP/2 connections that were in use when theirs was closed

poolVars == <<pool, newer, count, mu, oldest, victim>>
connVars == <<idle, closing, late, spared>>
transportVars == <<built, owner, evicted, connVars>>
vars == <<poolVars, pc, proxy, rt, host, calls, transportVars>>

Place == {"idle", "load", "lock", "check", "room", "evict", "close", "got",
          "dialing", "leaving", "sending"}

At(p, from, to) == pc[p] = from /\ pc' = [pc EXCEPT ![p] = to]

\* A time stamp is kept as the set of those with a later one.
Touch(k) ==
    newer' = [j \in Proxy |-> IF j \in DOMAIN pool \ {k} THEN newer[j] \cup {k}
                                                       ELSE {}]

Init ==
    /\ pool = [k \in {} |-> 0] /\ newer = [k \in Proxy |-> {}] /\ count = 0
    /\ mu = None /\ oldest = None /\ victim = 0
    /\ pc = [p \in Proc |-> "idle"] /\ proxy = [p \in Proc |-> None]
    /\ rt = [p \in Proc |-> 0] /\ host = [p \in Proc |-> None]
    /\ calls = 0 /\ built = 0 /\ owner = <<>> /\ evicted = {}
    /\ idle = {} /\ closing = {} /\ late = {} /\ spared = {}

Conn(p) == <<rt[p], host[p]>>

\* A request has ended.
Forget(p) ==
    /\ proxy' = [proxy EXCEPT ![p] = None]
    /\ rt' = [rt EXCEPT ![p] = 0]
    /\ host' = [host EXCEPT ![p] = None]

\* A request is served by this connection or waits for it, or it is being dialled.
InUse(c) ==
    \E p \in Proc : pc[p] \in {"dialing", "leaving", "sending"} /\ Conn(p) = c

Reachable(t) == t = victim \/ \E k \in DOMAIN pool : pool[k] = t

\* RoundTrip of a request with a proxy.
Ask(p, k) ==
    /\ calls < MaxCalls
    /\ At(p, "idle", "load")
    /\ proxy' = [proxy EXCEPT ![p] = k]
    /\ calls' = calls + 1
    /\ UNCHANGED <<poolVars, rt, host, transportVars>>

\* The path without a lock.
LoadHit(p) ==
    /\ proxy[p] \in DOMAIN pool
    /\ At(p, "load", "got")
    /\ rt' = [rt EXCEPT ![p] = pool[proxy[p]]]
    /\ Touch(proxy[p])
    /\ UNCHANGED <<pool, count, mu, oldest, victim, proxy, host, calls, transportVars>>

\* A miss; an address that cannot be parsed ends the request.
LoadMiss(p) ==
    /\ proxy[p] \notin DOMAIN pool
    /\ \/ At(p, "load", "lock") /\ proxy' = proxy
       \/ At(p, "load", "idle") /\ proxy' = [proxy EXCEPT ![p] = None]
    /\ UNCHANGED <<poolVars, rt, host, calls, transportVars>>

Lock(p) ==
    /\ mu = None
    /\ At(p, "lock", "check")
    /\ mu' = p
    /\ UNCHANGED <<pool, newer, count, oldest, victim, proxy, rt, host, calls,
                   transportVars>>

\* Mutant: the lock is kept on the early return.
CheckHitKeepsLock(p) ==
    /\ proxy[p] \in DOMAIN pool
    /\ At(p, "check", "got")
    /\ rt' = [rt EXCEPT ![p] = pool[proxy[p]]]
    /\ Touch(proxy[p])
    /\ UNCHANGED <<pool, count, mu, oldest, victim, proxy, host, calls, transportVars>>

\* The second look, under the lock.
CheckHit(p) ==
    /\ proxy[p] \in DOMAIN pool
    /\ At(p, "check", "got")
    /\ rt' = [rt EXCEPT ![p] = pool[proxy[p]]]
    /\ Touch(proxy[p])
    /\ mu' = None
    /\ UNCHANGED <<pool, count, oldest, victim, proxy, host, calls, transportVars>>

\* Mutant: no second look.
CheckMissBlind(p) ==
    /\ At(p, "check", "room")
    /\ UNCHANGED <<poolVars, proxy, rt, host, calls, transportVars>>

CheckMiss(p) ==
    /\ proxy[p] \notin DOMAIN pool
    /\ At(p, "check", "room")
    /\ UNCHANGED <<poolVars, proxy, rt, host, calls, transportVars>>

\* evictOldestLocked looks for the entry that was not used for the longest time.
Scan(p) ==
    /\ count >= Limit
    /\ At(p, "room", "evict")
    /\ \E k \in DOMAIN pool : DOMAIN pool \ {k} \subseteq newer[k] /\ oldest' = k
    /\ UNCHANGED <<pool, newer, count, mu, victim, proxy, rt, host, calls,
                   transportVars>>

\* It is taken out, even if it has been used since then; requests that have it
\* go on with it.
Evict(p) ==
    /\ At(p, "evict", "close")
    /\ victim' = pool[oldest]
    /\ evicted' = evicted \cup {pool[oldest]}
    /\ pool' = [k \in DOMAIN pool \ {oldest} |-> pool[k]]
    /\ newer' = [k \in Proxy |-> IF k = oldest THEN {} ELSE newer[k] \ {oldest}]
    /\ oldest' = None
    /\ UNCHANGED <<count, mu, proxy, rt, host, calls, built, owner, connVars>>

\* Mutant: the connections of the victim are left as they are.
CloseNothing(p) ==
    /\ At(p, "close", "room")
    /\ count' = count - 1
    /\ victim' = 0
    /\ UNCHANGED <<pool, newer, mu, oldest, proxy, rt, host, calls, transportVars>>

\* CloseIdleConnections closes what is idle now.  An HTTP/1 connection in use is
\* closed when it is given back; an HTTP/2 one with a request on it is passed over
\* and not marked.
CloseVictim(p) ==
    /\ At(p, "close", "room")
    /\ idle' = {c \in idle : c[1] # victim}
    /\ closing' = closing \cup {victim}
    /\ spared' = spared \cup {c \in {victim} \X Multiplexed : InUse(c)}
    /\ count' = count - 1
    /\ victim' = 0
    /\ UNCHANGED <<pool, newer, mu, oldest, proxy, rt, host, calls, built, owner,
                   evicted, late>>

\* Mutant: the counter is forgotten.
BuildUncounted(p) ==
    /\ count < Limit \/ DOMAIN pool = {}
    /\ At(p, "room", "got")
    /\ built' = built + 1
    /\ owner' = Append(owner, proxy[p])
    /\ pool' = [k \in DOMAIN pool \cup {proxy[p]} |->
                   IF k = proxy[p] THEN built + 1 ELSE pool[k]]
    /\ Touch(proxy[p])
    /\ rt' = [rt EXCEPT ![p] = built + 1]
    /\ mu' = None
    /\ UNCHANGED <<count, oldest, victim, proxy, host, calls, evicted, connVars>>

\* There is room: build a transport, store it and unlock.
Build(p) ==
    /\ count < Limit \/ DOMAIN pool = {}
    /\ At(p, "room", "got")
    /\ built' = built + 1
    /\ owner' = Append(owner, proxy[p])
    /\ pool' = [k \in DOMAIN pool \cup {proxy[p]} |->
                   IF k = proxy[p] THEN built + 1 ELSE pool[k]]
    /\ Touch(proxy[p])
    /\ count' = count + 1
    /\ rt' = [rt EXCEPT ![p] = built + 1]
    /\ mu' = None
    /\ UNCHANGED <<oldest, victim, proxy, host, calls, evicted, connVars>>

\* getConn: a transport that is asked for a connection keeps HTTP/1 ones again.
AskedFor(t) ==
    /\ closing' = closing \ {t}
    /\ late' = IF Reachable(t) THEN late ELSE late \cup {t}

\* http.Transport.RoundTrip dials, unless a connection is idle.
BeginDial(p, u) ==
    /\ <<rt[p], u>> \notin idle
    /\ At(p, "got", "dialing")
    /\ host' = [host EXCEPT ![p] = u]
    /\ AskedFor(rt[p])
    /\ UNCHANGED <<poolVars, proxy, rt, calls, built, owner, evicted, idle, spared>>

\* It takes an idle connection, which may be the last one, or one request more
\* goes over an HTTP/2 connection that is in use; HTTP/2 leaves closeIdle alone.
BeginReuse(p, u) ==
    /\ At(p, "got", "sending")
    /\ host' = [host EXCEPT ![p] = u]
    /\ \/ <<rt[p], u>> \in idle /\ idle' \in {idle, idle \ {<<rt[p], u>>}}
       \/ /\ u \in Multiplexed /\ idle' = idle
          /\ \E q \in Proc : pc[q] = "sending" /\ Conn(q) = <<rt[p], u>>
    /\ IF u \in Multiplexed
       THEN /\ closing' = closing
            /\ late' = IF Reachable(rt[p]) THEN late ELSE late \cup {rt[p]}
       ELSE AskedFor(rt[p])
    /\ UNCHANGED <<poolVars, proxy, rt, calls, built, owner, evicted, spared>>

Dialed(p) ==
    /\ At(p, "dialing", "sending")
    /\ UNCHANGED <<poolVars, proxy, rt, host, calls, transportVars>>

\* The request leaves, or another connection that has become free has served it:
\* its dial goes on.
LeaveDial(p) ==
    /\ At(p, "dialing", "leaving")
    /\ UNCHANGED <<poolVars, proxy, rt, host, calls, transportVars>>

\* The connection was dead before anything was sent: the transport dials again.
Redial(p) ==
    /\ At(p, "sending", "dialing")
    /\ AskedFor(rt[p])
    /\ UNCHANGED <<poolVars, proxy, rt, host, calls, built, owner, evicted,
                   idle, spared>>

\* tryPutIdleConn: an HTTP/1 connection is not kept after CloseIdleConnections.
\* One that is broken, or has other requests on it, does not become idle either.
KeepOrNot(c) ==
    \/ idle' = idle
    \/ (c[2] \in Multiplexed \/ c[1] \notin closing) /\ idle' = idle \cup {c}

\* The response has been read, or the request has left.
End(p) ==
    /\ At(p, "sending", "idle")
    /\ KeepOrNot(Conn(p))
    /\ Forget(p)
    /\ UNCHANGED <<poolVars, calls, built, owner, evicted, closing, late, spared>>

\* That dial ends: without a connection, because it fails or CloseIdleConnections
\* has cancelled it (since Go 1.23), or with one.
DialEnds(p) ==
    /\ At(p, "leaving", "idle")
    /\ KeepOrNot(Conn(p))
    /\ Forget(p)
    /\ UNCHANGED <<poolVars, calls, built, owner, evicted, closing, late, spared>>

\* IdleConnTimeout, or the upstream has closed it.
Expire ==
    /\ \E c \in idle : idle' = idle \ {c}
    /\ UNCHANGED <<poolVars, pc, proxy, rt, host, calls, built, owner, evicted, closing,
                   late, spared>>

\* Router.CloseIdleConnections, once, when the process ends and takes no more
\* requests, for what is in the pool.
CloseAll ==
    /\ calls = MaxCalls /\ calls' = MaxCalls + 1
    /\ idle' = {c \in idle : \A k \in DOMAIN pool : pool[k] # c[1]}
    /\ closing' = closing \cup {pool[k] : k \in DOMAIN pool}
    /\ UNCHANGED <<poolVars, pc, proxy, rt, host, built, owner, evicted, late,
                   spared>>

Step(p) ==
    \/ LoadHit(p) \/ LoadMiss(p) \/ Lock(p) \/ CheckHit(p) \/ CheckMiss(p)
    \/ Scan(p) \/ Evict(p) \/ CloseVictim(p) \/ Build(p)
    \/ \E u \in Upstream : BeginDial(p, u) \/ BeginReuse(p, u)

Next ==
    \/ \E p \in Proc :
          \/ Step(p) \/ \E k \in Proxy : Ask(p, k)
          \/ Dialed(p) \/ LeaveDial(p) \/ Redial(p) \/ DialEnds(p) \/ End(p)
    \/ Expire
    \/ CloseAll

\* A goroutine goes on, and sync.Mutex does not starve anyone (it hands itself
\* over to a waiter after a millisecond); an upstream need not answer.
Spec ==
    /\ Init /\ [][Next]_vars
    /\ \A p \in Proc : WF_vars(Step(p)) /\ SF_vars(Lock(p))
----------------------------------------------------------------------------
(* Properties                                                              *)

\* The values the variables may have.
TypeOK ==
    /\ DOMAIN pool \subseteq Proxy /\ pool \in [DOMAIN pool -> 1 .. built]
    /\ newer \in [Proxy -> SUBSET Proxy] /\ count \in Nat
    /\ mu \in Proc \cup {None} /\ oldest \in Proxy \cup {None}
    /\ victim \in 0 .. built
    /\ pc \in [Proc -> Place] /\ proxy \in [Proc -> Proxy \cup {None}]
    /\ rt \in [Proc -> 0 .. built] /\ host \in [Proc -> Upstream \cup {None}]
    /\ calls \in 0 .. MaxCalls + 1 /\ built \in Nat
    /\ owner \in Seq(Proxy) /\ Len(owner) = built
    /\ idle \subseteq (1 .. built) \X Upstream
    /\ spared \subseteq (1 .. built) \X Multiplexed
    /\ closing \subseteq 1 .. built /\ evicted \subseteq 1 .. built
    /\ late \subseteq 1 .. built

\* router.go:76-80, 153-165: whatever proxies the clients think of, there are
\* never more than Limit transports in the pool, not even for a moment, and
\* count, which decides about that, agrees with the sync.Map.
PoolBounded ==
    /\ Cardinality(DOMAIN pool) <= Limit
    /\ count = Cardinality(DOMAIN pool) + (IF victim = 0 THEN 0 ELSE 1)

\* router.go:150-152: first requests for a proxy that race each other build one
\* transport; a connection pool is replaced only after it has been thrown out.
OneTransportEach ==
    \A t \in (1 .. built) \ evicted :
        owner[t] \in DOMAIN pool /\ pool[owner[t]] = t

\* However look-ups, builds and evictions interleave, the pool is as large as it
\* may be and holds one transport for a proxy.
PoolIsSound == PoolBounded /\ OneTransportEach

\* router.go:184-187, transport.go:113, 118, 158: throwing a transport out closes
\* every connection that is idle then, and an HTTP/1 one in use when it is given
\* back.  What is idle in a transport nobody can reach is a connection that was in
\* use or being dialled when the transport was closed, and then an HTTP/2 one, or
\* the transport was asked for a connection afterwards by a request that had
\* looked it up before.  Those stay until IdleConnTimeout.
OrphansAreClosed ==
    \A c \in idle : Reachable(c[1]) \/ c[1] \in late \/ c \in spared

\* A request that asks for a proxy gets its transport, or an error.
AskedIsServed ==
    \A p \in Proc : pc[p] = "load" ~> pc[p] \in {"dialing", "sending", "idle"}

----------------------------------------------------------------------------
(* What the documentation says and the code does not do                    *)

\* router.go:57-60: only the first request for a proxy builds a transport, which
\* is used for good; there is no eviction.
NeverEvicted ==
    [][\A k \in DOMAIN pool : k \in DOMAIN pool' /\ pool'[k] = pool[k]]_vars
=============================================================================
