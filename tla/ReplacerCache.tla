---------------------------- MODULE ReplacerCache ----------------------------
(***************************************************************************)
(* The cache behind Rules.For (sanitize/sanitize.go): a read-only snapshot *)
(* that is replaced as a whole, and shards that are filled under a lock    *)
(* and thrown away when they are full.  The keys come out of the requests' *)
(* bodies, so there may be any number of them.  Several request goroutines *)
(* call For at once; Key holds the pairs that For does not answer with the *)
(* constant noopReplacer.                                                  *)
(***************************************************************************)
EXTENDS Naturals, FiniteSets

CONSTANTS
    Proc,        \* request goroutines
    Key,         \* pairs of an upstream and a public model
    Shard,       \* shards of the cold layer
    ShardOf,     \* the hash of a key's public model
    ShardLimit,  \* repShardLimit
    HotLimit,    \* repHotLimit
    MaxCalls     \* bound: how many calls of For there are

ASSUME CacheAssumption ==
    /\ ShardOf \in [Key -> Shard]
    /\ ShardLimit \in Nat \ {0} /\ HotLimit \in Nat /\ MaxCalls \in Nat

VARIABLES
    hot,     \* the snapshot, a function on some keys
    shards,  \* the maps of the shards
    pc, key, \* where a goroutine is, and for which key
    inst,    \* the replacer it has in hand
    cur,     \* the snapshot promote has loaded
    life,    \* when inst was taken from a shard: how often that had been emptied
    calls,   \* calls so far
    built,   \* replacers built so far; a replacer is told by its number
    emptied  \* how often each shard has been thrown away

local == <<pc, key, inst, cur, life>>
vars == <<hot, shards, local, calls, built, emptied>>

Map(S) == UNION {[D -> S] : D \in SUBSET Key}
Empty == [k \in {} |-> 0]
Put(m, k, v) == [x \in DOMAIN m \cup {k} |-> IF x = k THEN v ELSE m[x]]
Size(m) == Cardinality(DOMAIN m)

At(p, from, to) == pc[p] = from /\ pc' = [pc EXCEPT ![p] = to]

Init ==
    /\ hot = Empty /\ shards = [s \in Shard |-> Empty]
    /\ pc = [p \in Proc |-> "idle"] /\ key \in [Proc -> Key]
    /\ inst = [p \in Proc |-> 0] /\ cur = [p \in Proc |-> Empty]
    /\ life = [p \in Proc |-> 0]
    /\ calls = 0 /\ built = 0 /\ emptied = [s \in Shard |-> 0]

\* For is called.
Call(p, k) ==
    /\ calls < MaxCalls
    /\ pc[p] \in {"idle", "hot_hit", "cold_hit", "stored"}
    /\ pc' = [pc EXCEPT ![p] = "hot"]
    /\ key' = [key EXCEPT ![p] = k]
    /\ inst' = [inst EXCEPT ![p] = 0]
    /\ calls' = calls + 1
    /\ UNCHANGED <<hot, shards, cur, life, built, emptied>>

LookHot(p) ==
    /\ \/ /\ key[p] \in DOMAIN hot
          /\ At(p, "hot", "hot_hit")
          /\ inst' = [inst EXCEPT ![p] = hot[key[p]]]
       \/ /\ key[p] \notin DOMAIN hot
          /\ At(p, "hot", "cold")
          /\ UNCHANGED inst
    /\ UNCHANGED <<hot, shards, key, cur, life, calls, built, emptied>>

\* Under the read lock of the shard.
LookCold(p) ==
    LET s == ShardOf[key[p]]
    IN  /\ \/ /\ key[p] \in DOMAIN shards[s]
              /\ At(p, "cold", "promote")
              /\ inst' = [inst EXCEPT ![p] = shards[s][key[p]]]
              /\ life' = [life EXCEPT ![p] = emptied[s]]
           \/ /\ key[p] \notin DOMAIN shards[s]
              /\ At(p, "cold", "build")
              /\ UNCHANGED <<inst, life>>
        /\ UNCHANGED <<hot, shards, key, cur, calls, built, emptied>>

\* promote looks at the snapshot before it asks for hotMu ...
PromoteLook(p) ==
    /\ IF Size(hot) >= HotLimit
       THEN At(p, "promote", "cold_hit") /\ UNCHANGED cur
       ELSE At(p, "promote", "locked") /\ cur' = [cur EXCEPT ![p] = hot]
    /\ UNCHANGED <<hot, shards, key, inst, life, calls, built, emptied>>

\* Mutant: ... and goes by what it saw there.
PromoteStale(p) ==
    /\ At(p, "locked", "cold_hit")
    /\ hot' = Put(cur[p], key[p], inst[p])
    /\ cur' = [cur EXCEPT ![p] = Empty]
    /\ UNCHANGED <<shards, key, inst, life, calls, built, emptied>>

\* Mutant: ... and does not look at the size again.
PromoteUnbounded(p) ==
    /\ At(p, "locked", "cold_hit")
    /\ hot' = IF key[p] \in DOMAIN hot THEN hot
              ELSE Put(hot, key[p], inst[p])
    /\ cur' = [cur EXCEPT ![p] = Empty]
    /\ UNCHANGED <<shards, key, inst, life, calls, built, emptied>>

\* Mutant: ... and overwrites what another goroutine has put there.
PromoteOver(p) ==
    /\ At(p, "locked", "cold_hit")
    /\ hot' = IF Size(hot) >= HotLimit THEN hot
              ELSE Put(hot, key[p], inst[p])
    /\ cur' = [cur EXCEPT ![p] = Empty]
    /\ UNCHANGED <<shards, key, inst, life, calls, built, emptied>>

\* ... and again under hotMu, before it replaces the snapshot by a larger one.
Promote(p) ==
    /\ At(p, "locked", "cold_hit")
    /\ hot' = IF key[p] \in DOMAIN hot \/ Size(hot) >= HotLimit THEN hot
              ELSE Put(hot, key[p], inst[p])
    /\ cur' = [cur EXCEPT ![p] = Empty]
    /\ UNCHANGED <<shards, key, inst, life, calls, built, emptied>>

\* Rules.build, outside the locks.
Build(p) ==
    /\ At(p, "build", "store")
    /\ built' = built + 1
    /\ inst' = [inst EXCEPT ![p] = built + 1]
    /\ UNCHANGED <<hot, shards, key, cur, life, calls, emptied>>

\* Mutant: no second look under the lock.
StoreOver(p) ==
    LET s == ShardOf[key[p]]
        full == Size(shards[s]) >= ShardLimit
    IN  /\ At(p, "store", "stored")
        /\ shards' = [shards EXCEPT ![s] =
                         Put(IF full THEN Empty ELSE @, key[p], inst[p])]
        /\ emptied' = [emptied EXCEPT ![s] = IF full THEN @ + 1 ELSE @]
        /\ life' = [life EXCEPT ![p] = emptied'[s]]
        /\ UNCHANGED <<hot, key, inst, cur, calls, built>>

\* Mutant: a shard may outgrow its limit by one.
StoreOneMore(p) ==
    LET s == ShardOf[key[p]]
        full == Size(shards[s]) > ShardLimit
    IN  /\ At(p, "store", "stored")
        /\ IF key[p] \in DOMAIN shards[s]
           THEN /\ inst' = [inst EXCEPT ![p] = shards[s][key[p]]]
                /\ UNCHANGED <<shards, emptied>>
           ELSE /\ shards' = [shards EXCEPT ![s] =
                                Put(IF full THEN Empty ELSE @, key[p], inst[p])]
                /\ emptied' = [emptied EXCEPT ![s] = IF full THEN @ + 1 ELSE @]
                /\ UNCHANGED inst
        /\ life' = [life EXCEPT ![p] = emptied'[s]]
        /\ UNCHANGED <<hot, key, cur, calls, built>>

\* Under the lock of the shard: somebody else may have been faster; a full
\* shard is thrown away before the new replacer goes in.
Store(p) ==
    LET s == ShardOf[key[p]]
        full == Size(shards[s]) >= ShardLimit
    IN  /\ At(p, "store", "stored")
        /\ IF key[p] \in DOMAIN shards[s]
           THEN /\ inst' = [inst EXCEPT ![p] = shards[s][key[p]]]
                /\ UNCHANGED <<shards, emptied>>
           ELSE /\ shards' = [shards EXCEPT ![s] =
                                Put(IF full THEN Empty ELSE @, key[p], inst[p])]
                /\ emptied' = [emptied EXCEPT ![s] = IF full THEN @ + 1 ELSE @]
                /\ UNCHANGED inst
        /\ life' = [life EXCEPT ![p] = emptied'[s]]
        /\ UNCHANGED <<hot, key, cur, calls, built>>

Next ==
    \E p \in Proc :
        \/ \E k \in Key : Call(p, k)
        \/ LookHot(p) \/ LookCold(p) \/ PromoteLook(p) \/ Promote(p)
        \/ Build(p) \/ Store(p)

Spec == Init /\ [][Next]_vars
----------------------------------------------------------------------------
(* Properties                                                              *)

\* The values the variables may have.
TypeOK ==
    /\ hot \in Map(1 .. built) /\ shards \in [Shard -> Map(1 .. built)]
    /\ pc \in [Proc -> {"idle", "hot", "cold", "promote", "locked", "build",
                        "store", "hot_hit", "cold_hit", "stored"}]
    /\ key \in [Proc -> Key] /\ inst \in [Proc -> 0 .. built]
    /\ cur \in [Proc -> Map(1 .. built)]
    /\ life \in [Proc -> Nat] /\ emptied \in [Shard -> Nat]
    /\ calls \in 0 .. MaxCalls /\ built \in Nat

HotBounded == Size(hot) <= HotLimit
ShardsBounded == \A s \in Shard : Size(shards[s]) <= ShardLimit

\* sanitize.go:99-103, 105-118: whatever names the clients think of, and however
\* many goroutines miss at once, neither layer outgrows its limit.
Bounded == HotBounded /\ ShardsBounded

\* promote is copy-on-write without losing writes: what once is in the snapshot
\* stays there, and stays the same replacer.
HotOnlyGrows ==
    [][\A k \in DOMAIN hot : k \in DOMAIN hot' /\ hot'[k] = hot[k]]_vars

\* A key that was found in the cold layer is in the snapshot from then on,
\* unless that is full: a steady model does not fall back to the locked path.
SteadyKeysAreHot ==
    \A p \in Proc :
        pc[p] = "cold_hit" => key[p] \in DOMAIN hot \/ Size(hot) = HotLimit

TookFromShard == {"promote", "locked", "cold_hit", "stored"}

\* The second look under the lock: goroutines that built a replacer for the
\* same pair at once agree on one, as long as its shard is not thrown away
\* between them.
RacersAgree ==
    \A p, q \in Proc :
        /\ pc[p] \in TookFromShard /\ pc[q] \in TookFromShard
        /\ key[p] = key[q] /\ life[p] = life[q]
        => inst[p] = inst[q]

----------------------------------------------------------------------------
(* What the documentation says and the code does not do                    *)

\* sanitize.go:358: the same pair is always answered with the same pointer.
SamePointer ==
    \A p, q \in Proc :
        /\ pc[p] \in {"hot_hit", "cold_hit", "stored"}
        /\ pc[q] \in {"hot_hit", "cold_hit", "stored"}
        /\ key[p] = key[q]
        => inst[p] = inst[q]
=============================================================================
