---------------------------- MODULE SanitizeProofs ----------------------------
(***************************************************************************)
(* What sanitize does to an answer, whatever the answer, the names and the *)
(* protocol: of every text the pass of replace makes what its definition   *)
(* from the end of the text backwards says, the model fields end as the    *)
(* public name, what a model has written stays as it is, and no change     *)
(* goes unreported.  If the names and their replacements are apart, a      *)
(* second pass changes nothing, and no name that is left goes unreported.  *)
(*                                                                         *)
(* The first half is about replace alone.  Its inductions go by the least  *)
(* number of places, counted from the end of the text, of which a claim    *)
(* about the reference fails, and by the places that the pass comes to.    *)
(***************************************************************************)
EXTENDS JsonSanitize, SequenceTheorems, FiniteSetTheorems, WellFoundedInduction, TLAPS

----------------------------------------------------------------------------
(* Least and greatest numbers                                              *)

LEMMA LeastNumber ==
    ASSUME NEW T \in SUBSET Nat, T # {}
    PROVE  Min(T) \in T /\ \A y \in T : Min(T) <= y
<1>1. PICK x \in T : \A y \in T : ~(<<y, x>> \in OpToRel(<, Nat))
  BY NatLessThanWellFounded, WFMin
<1>2. \A y \in T : x <= y
  <2> SUFFICES ASSUME NEW y \in T PROVE x <= y
    OBVIOUS
  <2>1. x \in Nat /\ y \in Nat
    OBVIOUS
  <2>2. ~(y < x)
    BY <1>1, <2>1 DEF OpToRel
  <2> QED
    BY <2>1, <2>2
<1>3. \E m \in T : \A y \in T : m <= y
  BY <1>2
<1> QED
  BY <1>3 DEF Min

LEMMA GreatestNumber ==
    ASSUME NEW N \in Nat, NEW T \in SUBSET (0 .. N), T # {}
    PROVE  Max(T) \in T /\ \A y \in T : Max(T) >= y
<1> DEFINE U == {N - y : y \in T}
<1>0. \A y \in T : N - y \in Nat
  <2> SUFFICES ASSUME NEW y \in T PROVE N - y \in Nat
    OBVIOUS
  <2>1. y \in 0 .. N
    OBVIOUS
  <2> QED
    BY <2>1
<1>1. U \in SUBSET Nat /\ U # {}
  BY <1>0
<1> HIDE DEF U
<1>2. Min(U) \in U /\ \A u \in U : Min(U) <= u
  BY <1>1, LeastNumber
<1>3. PICK x \in T : Min(U) = N - x
  BY <1>2 DEF U
<1>4. \A y \in T : x >= y
  <2> SUFFICES ASSUME NEW y \in T PROVE x >= y
    OBVIOUS
  <2>1. N - y \in U
    BY DEF U
  <2>2. N - x <= N - y
    BY <1>2, <1>3, <2>1
  <2>3. x \in 0 .. N /\ y \in 0 .. N
    OBVIOUS
  <2> QED
    BY <2>2, <2>3
<1>5. \E m \in T : \A y \in T : m >= y
  BY <1>4
<1> QED
  BY <1>5 DEF Max

----------------------------------------------------------------------------
(* Patterns in a text                                                      *)

Characters == Seq(STRING)
Folded == Seq({Lower[c] : c \in STRING})

\* What build makes: names that are not empty, the longer ones first.
ArePatterns(ps) ==
    /\ Len(ps) \in Nat /\ DOMAIN ps = 1 .. Len(ps)
    /\ \A j \in DOMAIN ps : /\ ps[j].src \in Folded /\ Len(ps[j].src) \in Nat \ {0}
                            /\ ps[j].dst \in Characters
                            /\ ps[j].off = FoldIndex(ps[j].dst, ps[j].src)
    /\ \A j, l \in DOMAIN ps : j < l => Len(ps[j].src) >= Len(ps[l].src)

LEMMA FoldShape ==
    ASSUME NEW S, NEW s \in Seq(S)
    PROVE  Len(Fold(s)) = Len(s) /\ DOMAIN Fold(s) = 1 .. Len(s)
<1> DEFINE R == {Lower[s[n]] : n \in DOMAIN s}
<1>1. DOMAIN s = 1 .. Len(s) /\ Len(s) \in Nat
  BY LenProperties
<1>2. Fold(s) \in [1 .. Len(s) -> R]
  BY <1>1 DEF Fold
<1> HIDE DEF R
<1> QED
  BY <1>1, <1>2

LEMMA FoldOf ==
    ASSUME NEW s \in Characters
    PROVE  /\ Fold(s) \in Folded /\ Len(Fold(s)) = Len(s)
           /\ \A a \in 1 .. Len(s) : Fold(s)[a] = Lower[s[a]]
<1> DEFINE R == {Lower[c] : c \in STRING}
<1>1. DOMAIN s = 1 .. Len(s) /\ Len(s) \in Nat
  BY LenProperties DEF Characters
<1>2. \A a \in 1 .. Len(s) : s[a] \in STRING
  BY ElementOfSeq DEF Characters
<1>3. \A a \in 1 .. Len(s) : Lower[s[a]] \in R
  BY <1>2
<1> HIDE DEF R
<1>4. Fold(s) = [a \in 1 .. Len(s) |-> Lower[s[a]]]
  BY <1>1 DEF Fold
<1>5. Fold(s) \in [1 .. Len(s) -> R]
  BY <1>3, <1>4
<1>6. Fold(s) \in Seq(R)
  BY <1>1, <1>5, SeqDef
<1> QED
  BY <1>1, <1>4, <1>6, FoldShape DEF Folded, Characters, R

LEMMA FromShape ==
    ASSUME NEW S, NEW s \in Seq(S), NEW n \in 1 .. Len(s) + 1
    PROVE  From(s, n) \in Seq(S) /\ Len(From(s, n)) = Len(s) + 1 - n
<1>1. Len(s) \in Nat /\ \A m \in 1 .. Len(s) : s[m] \in S
  BY LenProperties, ElementOfSeq
<1>2. n \in Int /\ n >= 1 /\ n <= Len(s) + 1 /\ \A m \in n .. Len(s) : s[m] \in S
  BY <1>1
<1>3. /\ SubSeq(s, n, Len(s)) \in Seq(S)
      /\ Len(SubSeq(s, n, Len(s))) = IF n <= Len(s) THEN Len(s) - n + 1 ELSE 0
  BY <1>1, <1>2, SubSeqProperties
<1> QED
  BY <1>1, <1>2, <1>3 DEF From

\* What is found at a place ends before the text does.
LEMMA FindsFit ==
    ASSUME NEW s \in Characters, NEW n \in 1 .. Len(s) + 1, NEW p
    PROVE  /\ IsPrefix(p, From(s, n)) => Len(p) <= Len(s) + 1 - n
           /\ IsPrefix(p, Fold(From(s, n))) => Len(p) <= Len(s) + 1 - n
<1>1. From(s, n) \in Characters /\ Len(From(s, n)) = Len(s) + 1 - n
  BY FromShape DEF Characters
<1>2. Len(Fold(From(s, n))) = Len(s) + 1 - n
  BY <1>1, FoldShape DEF Characters
<1> QED
  BY <1>1, <1>2 DEF IsPrefix

\* findAt finds the longest, as the patterns are sorted.
LEMMA FindAtIs ==
    ASSUME NEW s \in Characters, NEW ps, ArePatterns(ps), NEW n \in 1 .. Len(s) + 1
    PROVE  /\ FindAt(ps, s, n) = 0 <=> HitsAt(ps, s, n) = {}
           /\ FindAt(ps, s, n) # 0 =>
                 /\ FindAt(ps, s, n) \in HitsAt(ps, s, n)
                 /\ \A j \in HitsAt(ps, s, n) : FindAt(ps, s, n) <= j
           /\ FindAt(ps, s, n) \in Nat
<1> DEFINE H == HitsAt(ps, s, n)
<1>1. H \subseteq 1 .. Len(ps)
  BY DEF HitsAt, ArePatterns
<1>2. Len(ps) \in Nat
  BY DEF ArePatterns
<1>h. H = HitsAt(ps, s, n)
  OBVIOUS
<1> HIDE DEF H
<1>3. H \in SUBSET Nat
  BY <1>1, <1>2
<1>4. CASE H = {}
  BY <1>4, <1>h DEF FindAt
<1>5. CASE H # {}
  <2>1. Min(H) \in H /\ \A y \in H : Min(H) <= y
    BY <1>3, <1>5, LeastNumber
  <2>2. FindAt(ps, s, n) = Min(H)
    BY <1>5, <1>h DEF FindAt
  <2>3. Min(H) \in 1 .. Len(ps)
    BY <1>1, <2>1
  <2>4. Min(H) # 0 /\ Min(H) \in Nat
    BY <1>2, <2>3
  <2> QED
    BY <1>5, <1>h, <2>1, <2>2, <2>4
<1> QED
  BY <1>4, <1>5

LEMMA TheLongest ==
    ASSUME NEW s \in Characters, NEW ps, ArePatterns(ps), NEW n \in 1 .. Len(s) + 1,
           FindAt(ps, s, n) # 0
    PROVE  FindAt(ps, s, n) =
             CHOOSE j \in HitsAt(ps, s, n) : \A l \in HitsAt(ps, s, n) \ {j} :
                       \/ Len(ps[l].src) < Len(ps[j].src)
                       \/ Len(ps[l].src) = Len(ps[j].src) /\ j < l
<1> DEFINE H == HitsAt(ps, s, n)
           f == FindAt(ps, s, n)
           Best(j) == \A l \in H \ {j} : \/ Len(ps[l].src) < Len(ps[j].src)
                                         \/ Len(ps[l].src) = Len(ps[j].src) /\ j < l
<1>1. f \in H /\ \A j \in H : f <= j
  BY FindAtIs
<1>2. H \subseteq 1 .. Len(ps) /\ Len(ps) \in Nat
  BY DEF HitsAt, ArePatterns
<1>3. \A j \in H : Len(ps[j].src) \in Nat
  BY <1>2 DEF ArePatterns
<1>4. \A j, l \in H : j < l => Len(ps[j].src) >= Len(ps[l].src)
  BY <1>2 DEF ArePatterns
<1>n. \A j \in H : j \in Nat
  BY <1>2
<1> HIDE DEF H, f
<1>5. Best(f)
  <2> SUFFICES ASSUME NEW l \in H \ {f}
               PROVE  \/ Len(ps[l].src) < Len(ps[f].src)
                      \/ Len(ps[l].src) = Len(ps[f].src) /\ f < l
    OBVIOUS
  <2>1. f < l
    BY <1>1, <1>n
  <2>2. Len(ps[f].src) >= Len(ps[l].src)
    BY <1>1, <1>4, <2>1
  <2> QED
    BY <1>1, <1>3, <2>1, <2>2
<1>6. ASSUME NEW j \in H, Best(j) PROVE j = f
  <2> SUFFICES ASSUME j # f PROVE FALSE
    OBVIOUS
  <2>1. \/ Len(ps[f].src) < Len(ps[j].src)
        \/ Len(ps[f].src) = Len(ps[j].src) /\ j < f
    BY <1>1, <1>6
  <2>2. \/ Len(ps[j].src) < Len(ps[f].src)
        \/ Len(ps[j].src) = Len(ps[f].src) /\ f < j
    BY <1>5
  <2> QED
    BY <1>1, <1>3, <1>n, <2>1, <2>2
<1> HIDE DEF Best
<1>7. f = CHOOSE j \in H : Best(j)
  BY <1>1, <1>5, <1>6
<1> QED
  BY <1>7 DEF H, f, Best

\* How far a date reaches.
LEMMA DateFits ==
    ASSUME NEW s \in Characters, NEW n \in 1 .. Len(s) + 1
    PROVE  TrailingDate(s, n) \in Nat /\ n + TrailingDate(s, n) <= Len(s) + 1
<1> DEFINE ends == {m \in n + DateMin .. n + DateMax : m <= Len(s)}
           dates == {m \in ends : /\ s[n] = "-"
                                  /\ IsDate(SubSeq(s, n + 1, m))
                                  /\ m < Len(s) => s[m + 1] \notin Digits}
<1>1. Len(s) \in Nat /\ n \in Nat /\ n >= 1 /\ n <= Len(s) + 1
  BY LenProperties DEF Characters
<1>2. \A m \in ends : m \in 0 .. Len(s) /\ m >= n
  BY <1>1, FoldAssumption
<1>3. dates \subseteq ends
  OBVIOUS
<1>4. TrailingDate(s, n) = IF dates = {} THEN 0 ELSE Max(dates) + 1 - n
  BY DEF TrailingDate
<1> HIDE DEF dates, ends
<1>5. CASE dates = {}
  BY <1>1, <1>4, <1>5
<1>6. CASE dates # {}
  <2>1. dates \in SUBSET (0 .. Len(s))
    BY <1>2, <1>3
  <2>2. Max(dates) \in dates
    BY <1>1, <1>6, <2>1, GreatestNumber
  <2>3. Max(dates) \in 0 .. Len(s) /\ Max(dates) >= n
    BY <1>2, <1>3, <2>2
  <2>4. TrailingDate(s, n) = Max(dates) + 1 - n
    BY <1>4, <1>6
  <2> QED
    BY <1>1, <2>3, <2>4
<1> QED
  BY <1>5, <1>6

\* The places foldIndex may name.
LEMMA IndexIs ==
    ASSUME NEW s \in Characters, NEW src
    PROVE  LET at == {n \in DOMAIN s : IsPrefix(src, Fold(From(s, n)))}
           IN  /\ FoldIndex(s, src) \in Nat
               /\ FoldIndex(s, src) = 0 <=> at = {}
               /\ FoldIndex(s, src) # 0 => /\ FoldIndex(s, src) \in at
                                           /\ \A n \in at : FoldIndex(s, src) <= n
<1> DEFINE at == {n \in DOMAIN s : IsPrefix(src, Fold(From(s, n)))}
<1>1. DOMAIN s = 1 .. Len(s) /\ Len(s) \in Nat
  BY LenProperties DEF Characters
<1>2. at \subseteq 1 .. Len(s)
  BY <1>1
<1>3. FoldIndex(s, src) = IF at = {} THEN 0 ELSE Min(at)
  BY DEF FoldIndex
<1> HIDE DEF at
<1>4. CASE at = {}
  BY <1>3, <1>4 DEF at
<1>5. CASE at # {}
  <2>1. at \in SUBSET Nat
    BY <1>1, <1>2
  <2>2. Min(at) \in at /\ \A y \in at : Min(at) <= y
    BY <1>5, <2>1, LeastNumber
  <2>3. Min(at) \in 1 .. Len(s)
    BY <1>2, <2>2
  <2>4. Min(at) \in Nat /\ Min(at) # 0
    BY <1>1, <2>3
  <2> QED
    BY <1>3, <1>5, <2>2, <2>4 DEF at
<1> QED
  BY <1>4, <1>5

\* What is skipped ends before the text does.
LEMMA SkipFits ==
    ASSUME NEW s \in Characters, NEW n \in 1 .. Len(s), NEW p,
           p.dst \in Characters, p.off \in Nat, AlreadyTarget(s, n, p) > 0
    PROVE  AlreadyTarget(s, n, p) \in Nat /\ n + AlreadyTarget(s, n, p) <= Len(s) + 1
<1> DEFINE start == n + 1 - p.off
<1>1. /\ p.off > 0 /\ start > 0 /\ IsPrefix(p.dst, From(s, start))
      /\ AlreadyTarget(s, n, p) = start + Len(p.dst) - n
  BY DEF AlreadyTarget
<1>2. Len(s) \in Nat /\ Len(p.dst) \in Nat /\ n \in Nat
  BY LenProperties DEF Characters
<1>3. start \in 1 .. Len(s) + 1
  BY <1>1, <1>2
<1>4. Len(p.dst) <= Len(s) + 1 - start
  BY <1>1, <1>3, FindsFit
<1> HIDE DEF start
<1>5. start \in Int
  BY <1>3
<1> QED
  BY <1>1, <1>2, <1>4, <1>5


\* A piece of a text in front of a place.
LEMMA PieceBefore ==
    ASSUME NEW s \in Characters, NEW m \in 1 .. Len(s) + 1, NEW n \in m .. Len(s) + 1
    PROVE  /\ SubSeq(s, m, n - 1) \in Characters
           /\ \A l \in n .. Len(s) + 1 :
                 SubSeq(s, m, n - 1) \o SubSeq(s, n, l - 1) = SubSeq(s, m, l - 1)
<1>1. Len(s) \in Nat /\ m \in Int /\ n - 1 \in Int /\ \A a \in 1 .. Len(s) : s[a] \in STRING
  BY LenProperties, ElementOfSeq DEF Characters
<1>2. \A a \in m .. n - 1 : s[a] \in STRING
  BY <1>1
<1>3. SubSeq(s, m, n - 1) \in Characters
  BY <1>1, <1>2, SubSeqProperties DEF Characters
<1>4. ASSUME NEW l \in n .. Len(s) + 1
      PROVE  SubSeq(s, m, n - 1) \o SubSeq(s, n, l - 1) = SubSeq(s, m, l - 1)
  <2>1. n - 1 \in m - 1 .. Len(s) /\ l - 1 \in n - 1 .. Len(s) /\ (n - 1) + 1 = n
    BY <1>1
  <2>2. SubSeq(s, m, n - 1) \o SubSeq(s, (n - 1) + 1, l - 1) = SubSeq(s, m, l - 1)
    BY <2>1, ConcatAdjacentSubSeq DEF Characters
  <2> QED
    BY <2>1, <2>2
<1> QED
  BY <1>3, <1>4

----------------------------------------------------------------------------
(* What is built for a configuration                                       *)

IsPattern(p) ==
    /\ p.src \in Folded /\ Len(p.src) \in Nat \ {0} /\ p.dst \in Characters
    /\ p.off = FoldIndex(p.dst, p.src)

LEMMA PatternShape ==
    ASSUME NEW src \in Characters, NEW dst \in Characters, Fold(src) # <<>>
    PROVE  IsPattern(Pattern(src, dst)) /\ Pattern(src, dst).dst = dst
<1>1. Len(src) \in Nat /\ Len(Fold(src)) = Len(src) /\ DOMAIN Fold(src) = 1 .. Len(src)
  BY FoldShape, LenProperties DEF Characters
<1>2. Len(src) # 0
  <2> SUFFICES ASSUME Len(src) = 0 PROVE FALSE
    OBVIOUS
  <2>1. DOMAIN src = {}
    BY <1>1, LenProperties DEF Characters
  <2>2. Fold(src) = <<>>
    BY <2>1 DEF Fold
  <2> QED
    BY <2>2
<1> QED
  BY <1>1, <1>2, FoldOf DEF Pattern, IsPattern

LEMMA FiniteImage ==
    ASSUME NEW S, IsFiniteSet(S), NEW f, f = [x \in S |-> f[x]]
    PROVE  IsFiniteSet({f[x] : x \in S})
<1> DEFINE T == {f[x] : x \in S}
<1>1. f \in [S -> T]
  OBVIOUS
<1>2. \A t \in T : \E x \in S : f[x] = t
  OBVIOUS
<1> HIDE DEF T
<1>3. f \in Surjection(S, T)
  BY <1>1, <1>2 DEF Surjection
<1>4. IsFiniteSet(T)
  BY <1>3, FS_Surjection
<1> QED
  BY <1>4 DEF T

LEMMA TailShape ==
    ASSUME NEW s \in Characters
    PROVE  IsFiniteSet(NumericTail(s)) /\ NumericTail(s) \subseteq Characters \ {<<>>}
<1> DEFINE at == {n \in DOMAIN s : s[n] = "-" /\ IsDate(From(s, n + 1))}
           T == {SubSeq(s, 1, d - 1) : d \in at}
<1>1. DOMAIN s = 1 .. Len(s) /\ Len(s) \in Nat
  BY LenProperties DEF Characters
<1>2. at \in SUBSET (1 .. Len(s))
  BY <1>1
<1>3. NumericTail(s) = T \ {<<>>}
  BY DEF NumericTail
<1> HIDE DEF at
<1>4. IsFiniteSet(at)
  <2>1. IsFiniteSet(1 .. Len(s))
    BY <1>1, FS_Interval
  <2> QED
    BY <1>2, <2>1, FS_Subset
<1>5. IsFiniteSet(T)
  <2> DEFINE f == [d \in at |-> SubSeq(s, 1, d - 1)]
  <2>1. IsFiniteSet({f[d] : d \in at})
    BY <1>4, FiniteImage
  <2> QED
    BY <2>1
<1>6. \A d \in at : SubSeq(s, 1, d - 1) \in Characters
  <2> SUFFICES ASSUME NEW d \in at PROVE SubSeq(s, 1, d - 1) \in Characters
    OBVIOUS
  <2>1. d \in 1 .. Len(s) + 1 /\ 1 \in 1 .. Len(s) + 1
    BY <1>1, <1>2
  <2> QED
    BY <2>1, PieceBefore
<1>7. T \subseteq Characters
  BY <1>6
<1> HIDE DEF T
<1>8. T \ {<<>>} \in SUBSET T
  OBVIOUS
<1> QED
  BY <1>3, <1>5, <1>7, <1>8, FS_Subset

LEMMA SourcesShape ==
    ASSUME NEW c, IsConfig(c)
    PROVE  IsFiniteSet(Sources(c)) /\ Sources(c) \subseteq Characters \ {<<>>}
<1> DEFINE names == ({c.upstream} \cup c.aliases) \ {c.public, <<>>}
           series == UNION {NumericTail(s) : s \in names} \ {c.public}
<1>1. names \subseteq Characters \ {<<>>}
  BY DEF IsConfig, Characters
<1>2. IsFiniteSet(names)
  <2>1. IsFiniteSet({c.upstream} \cup c.aliases)
    BY FS_Singleton, FS_Union DEF IsConfig
  <2> QED
    BY <2>1, FS_Difference
<1> HIDE DEF names
<1> DEFINE tail == [s \in names |-> NumericTail(s)]
           T == {NumericTail(s) : s \in names}
<1>3. IsFiniteSet({tail[s] : s \in names})
  BY <1>2, FiniteImage
<1>4. T = {tail[s] : s \in names}
  OBVIOUS
<1>5. \A t \in T : IsFiniteSet(t) /\ t \subseteq Characters \ {<<>>}
  BY <1>1, TailShape
<1>6. IsFiniteSet(T)
  BY <1>3, <1>4
<1> HIDE DEF T
<1>7. IsFiniteSet(UNION T) /\ UNION T \subseteq Characters \ {<<>>}
  BY <1>5, <1>6, FS_UNION
<1>8. series = UNION T \ {c.public}
  BY DEF T
<1>9. series \in SUBSET UNION T
  BY <1>8
<1> HIDE DEF series
<1>10. IsFiniteSet(series) /\ series \subseteq Characters \ {<<>>}
  BY <1>7, <1>9, FS_Subset
<1>11. IsFiniteSet(names \cup series)
  BY <1>2, <1>10, FS_Union
<1>12. Sources(c) = names \cup series
  BY DEF Sources, names, series
<1> QED
  BY <1>1, <1>10, <1>11, <1>12

LEMMA OwnPatternsShape ==
    ASSUME NEW c, IsConfig(c)
    PROVE  /\ IsFiniteSet(OwnPatterns(c))
           /\ \A p \in OwnPatterns(c) : IsPattern(p) /\ p.dst = c.public
<1>1. IsFiniteSet(Sources(c)) /\ Sources(c) \subseteq Characters \ {<<>>}
  BY SourcesShape
<1> DEFINE f == [s \in Sources(c) |-> Pattern(s, c.public)]
<1>2. IsFiniteSet({f[s] : s \in Sources(c)})
  BY <1>1, FiniteImage
<1>3. OwnPatterns(c) = {f[s] : s \in Sources(c)}
  BY DEF OwnPatterns
<1>4. ASSUME NEW s \in Sources(c)
      PROVE  IsPattern(Pattern(s, c.public)) /\ Pattern(s, c.public).dst = c.public
  <2>1. s \in Characters /\ s # <<>> /\ c.public \in Characters
    BY <1>1 DEF IsConfig, Characters
  <2>2. Fold(s) # <<>>
    <3>1. Len(s) # 0
      BY <2>1, EmptySeq DEF Characters
    <3>2. Len(Fold(s)) # 0
      BY <2>1, <3>1, FoldShape DEF Characters
    <3> QED
      BY <3>2, EmptySeq
  <2> QED
    BY <2>1, <2>2, PatternShape
<1> QED
  BY <1>2, <1>3, <1>4 DEF OwnPatterns

LEMMA GlobalPatternsShape ==
    ASSUME NEW c, IsConfig(c)
    PROVE  /\ IsFiniteSet(GlobalPatterns(c))
           /\ \A p \in GlobalPatterns(c) : IsPattern(p)
           /\ c.global = {} => GlobalPatterns(c) = {}
<1> DEFINE f == [g \in c.global |-> Pattern(g[1], g[2])]
           T == {f[g] : g \in c.global}
<1>1. IsFiniteSet(T)
  BY FiniteImage DEF IsConfig
<1>2. GlobalPatterns(c) = {p \in T : p.src # <<>>}
  BY DEF GlobalPatterns
<1>3. ASSUME NEW p \in GlobalPatterns(c) PROVE IsPattern(p)
  <2>1. PICK g \in c.global : p = Pattern(g[1], g[2])
    BY <1>2
  <2>2. g[1] \in Characters /\ g[2] \in Characters
    BY DEF IsConfig, Characters
  <2>3. Fold(g[1]) # <<>>
    BY <1>2, <2>1 DEF Pattern
  <2> QED
    BY <2>1, <2>2, <2>3, PatternShape
<1>4. c.global = {} => GlobalPatterns(c) = {}
  BY DEF GlobalPatterns
<1> HIDE DEF T
<1>5. GlobalPatterns(c) \in SUBSET T
  BY <1>2
<1>6. IsFiniteSet(GlobalPatterns(c))
  BY <1>1, <1>5, FS_Subset
<1> QED
  BY <1>3, <1>4, <1>6

\* Every order of the patterns that findAt may go by is sorted by length.
LEMMA PatternsShape ==
    ASSUME NEW c, IsConfig(c), NEW w \in Patterns(c)
    PROVE  /\ ArePatterns(w)
           /\ c.global = {} => \A j \in DOMAIN w : w[j].dst = c.public
<1> DEFINE S == OwnPatterns(c) \cup GlobalPatterns(c)
           N == Cardinality(S)
<1>1. IsFiniteSet(S) /\ \A p \in S : IsPattern(p)
  BY OwnPatternsShape, GlobalPatternsShape, FS_Union
<1>2. c.global = {} => \A p \in S : p.dst = c.public
  BY OwnPatternsShape, GlobalPatternsShape
<1>3. /\ w \in SetToSeqs(S)
      /\ \A j, l \in DOMAIN w : j < l =>
            Len(w[j].src) > Len(w[l].src) \/ Len(w[j].src) = Len(w[l].src)
  BY DEF Patterns
<1> HIDE DEF S
<1>4. N \in Nat
  BY <1>1, FS_CardinalityType
<1>5. w \in [1 .. N -> S]
  BY <1>3 DEF SetToSeqs
<1> HIDE DEF N
<1>6. DOMAIN w = 1 .. N /\ Len(w) = N
  BY <1>4, <1>5
<1>7. \A j \in DOMAIN w : w[j] \in S /\ IsPattern(w[j])
  BY <1>1, <1>5, <1>6
<1>8. ASSUME NEW j \in DOMAIN w, NEW l \in DOMAIN w, j < l
      PROVE  Len(w[j].src) >= Len(w[l].src)
  <2>1. Len(w[j].src) \in Nat /\ Len(w[l].src) \in Nat
    BY <1>7 DEF IsPattern
  <2> QED
    BY <1>3, <1>8, <2>1
<1>9. c.global = {} => \A j \in DOMAIN w : w[j].dst = c.public
  BY <1>2, <1>7
<1> QED
  BY <1>4, <1>6, <1>7, <1>8, <1>9 DEF ArePatterns, IsPattern

----------------------------------------------------------------------------
(* The reference, from the end of a text backwards                         *)

\* What the reference makes of a place, and where it goes on.
Hit(ps, s, n) == ps[FindAt(ps, s, n)]

Behind(ps, s, n) == n + Len(Hit(ps, s, n).src)

PieceAt(ps, s, n) ==
    IF FindAt(ps, s, n) = 0 THEN <<s[n]>>
    ELSE IF AlreadyTarget(s, n, Hit(ps, s, n)) > 0
    THEN SubSeq(s, n, n + AlreadyTarget(s, n, Hit(ps, s, n)) - 1)
    ELSE Hit(ps, s, n).dst

NextAt(ps, s, n) ==
    IF FindAt(ps, s, n) = 0 THEN n + 1
    ELSE IF AlreadyTarget(s, n, Hit(ps, s, n)) > 0
    THEN n + AlreadyTarget(s, n, Hit(ps, s, n))
    ELSE Behind(ps, s, n) + TrailingDate(s, Behind(ps, s, n))

LEMMA HitShape ==
    ASSUME NEW s \in Characters, NEW ps, ArePatterns(ps), NEW n \in 1 .. Len(s),
           FindAt(ps, s, n) # 0
    PROVE  /\ Hit(ps, s, n).dst \in Characters /\ Hit(ps, s, n).off \in Nat
           /\ Behind(ps, s, n) \in n + 1 .. Len(s) + 1
           /\ HitsAt(ps, s, n) # {}
<1>1. Len(s) \in Nat /\ n \in 1 .. Len(s) + 1
  BY LenProperties DEF Characters
<1>2. FindAt(ps, s, n) \in HitsAt(ps, s, n)
  BY <1>1, FindAtIs
<1>3. FindAt(ps, s, n) \in DOMAIN ps /\ IsPrefix(Hit(ps, s, n).src, Fold(From(s, n)))
  BY <1>2 DEF HitsAt, Hit
<1>4. /\ Len(Hit(ps, s, n).src) \in Nat \ {0} /\ Hit(ps, s, n).dst \in Characters
      /\ Hit(ps, s, n).off = FoldIndex(Hit(ps, s, n).dst, Hit(ps, s, n).src)
  BY <1>3 DEF ArePatterns, Hit
<1>5. Hit(ps, s, n).off \in Nat
  BY <1>4, IndexIs
<1>6. Len(Hit(ps, s, n).src) <= Len(s) + 1 - n
  BY <1>1, <1>3, FindsFit
<1>7. Behind(ps, s, n) \in n + 1 .. Len(s) + 1
  BY <1>1, <1>4, <1>6 DEF Behind
<1> QED
  BY <1>2, <1>4, <1>5, <1>7

LEMMA NextFits ==
    ASSUME NEW s \in Characters, NEW ps, ArePatterns(ps), NEW n \in 1 .. Len(s)
    PROVE  NextAt(ps, s, n) \in n + 1 .. Len(s) + 1 /\ PieceAt(ps, s, n) \in Characters
<1>1. Len(s) \in Nat /\ n \in Nat /\ n >= 1 /\ n <= Len(s)
  BY LenProperties DEF Characters
<1>2. \A m \in 1 .. Len(s) : s[m] \in STRING
  BY ElementOfSeq DEF Characters
<1> DEFINE skip == AlreadyTarget(s, n, Hit(ps, s, n))
           b == Behind(ps, s, n)
<1>3. CASE FindAt(ps, s, n) = 0
  <2>1. <<s[n]>> \in Characters
    BY <1>2 DEF Characters
  <2> QED
    BY <1>1, <1>3, <2>1 DEF NextAt, PieceAt
<1>4. CASE FindAt(ps, s, n) # 0 /\ skip > 0
  <2>1. skip \in Nat /\ n + skip <= Len(s) + 1
    BY <1>4, HitShape, SkipFits
  <2>2. NextAt(ps, s, n) = n + skip /\ PieceAt(ps, s, n) = SubSeq(s, n, n + skip - 1)
    BY <1>4 DEF NextAt, PieceAt
  <2> HIDE DEF skip
  <2>3. /\ n \in Int /\ n + skip - 1 \in Int
        /\ \A m \in n .. n + skip - 1 : s[m] \in STRING
    BY <1>1, <1>2, <2>1
  <2>4. SubSeq(s, n, n + skip - 1) \in Characters
    BY <2>3, SubSeqProperties DEF Characters
  <2>5. n + skip \in n + 1 .. Len(s) + 1
    BY <1>1, <1>4, <2>1
  <2> QED
    BY <2>2, <2>4, <2>5
<1>5. CASE FindAt(ps, s, n) # 0 /\ ~(skip > 0)
  <2>1. b \in n + 1 .. Len(s) + 1 /\ Hit(ps, s, n).dst \in Characters
    BY <1>5, HitShape
  <2>2. b \in 1 .. Len(s) + 1
    BY <1>1, <2>1
  <2>3. TrailingDate(s, b) \in Nat /\ b + TrailingDate(s, b) <= Len(s) + 1
    BY <2>2, DateFits
  <2>4. NextAt(ps, s, n) = b + TrailingDate(s, b) /\ PieceAt(ps, s, n) = Hit(ps, s, n).dst
    BY <1>5 DEF NextAt, PieceAt
  <2> HIDE DEF b
  <2>5. b + TrailingDate(s, b) \in n + 1 .. Len(s) + 1
    BY <1>1, <2>1, <2>3
  <2> QED
    BY <2>1, <2>4, <2>5
<1> QED
  BY <1>3, <1>4, <1>5

LEMMA ReferenceStep ==
    ASSUME NEW s \in Characters, NEW ps, ArePatterns(ps), NEW n \in 1 .. Len(s), NEW f
    PROVE  ReferenceAt(s, ps, f, n) = PieceAt(ps, s, n) \o f[NextAt(ps, s, n)]
<1>1. Len(s) \in Nat /\ n \in 1 .. Len(s) + 1 /\ ~(n > Len(s))
  BY LenProperties DEF Characters
<1>2. CASE FindAt(ps, s, n) = 0
  <2>1. HitsAt(ps, s, n) = {}
    BY <1>1, <1>2, FindAtIs
  <2>2. ReferenceAt(s, ps, f, n) = <<s[n]>> \o f[n + 1]
    BY <1>1, <2>1 DEF ReferenceAt
  <2> QED
    BY <1>2, <2>2 DEF PieceAt, NextAt
<1>3. CASE FindAt(ps, s, n) # 0
  <2> DEFINE longest == CHOOSE j \in HitsAt(ps, s, n) : \A l \in HitsAt(ps, s, n) \ {j} :
                           \/ Len(ps[l].src) < Len(ps[j].src)
                           \/ Len(ps[l].src) = Len(ps[j].src) /\ j < l
             p == ps[longest]
  <2>1. longest = FindAt(ps, s, n)
    BY <1>1, <1>3, TheLongest
  <2>2. p = Hit(ps, s, n) /\ HitsAt(ps, s, n) # {}
    BY <1>3, <2>1, HitShape DEF Hit
  <2>3. ReferenceAt(s, ps, f, n) =
          IF AlreadyTarget(s, n, p) > 0
          THEN SubSeq(s, n, n + AlreadyTarget(s, n, p) - 1) \o f[n + AlreadyTarget(s, n, p)]
          ELSE p.dst \o f[n + Len(p.src) + TrailingDate(s, n + Len(p.src))]
    BY <1>1, <2>2 DEF ReferenceAt
  <2> HIDE DEF p
  <2> QED
    BY <1>3, <2>2, <2>3 DEF PieceAt, NextAt, Behind
<1> QED
  BY <1>2, <1>3

LEMMA ReferenceEnd ==
    ASSUME NEW s \in Characters, NEW ps, NEW f
    PROVE  ReferenceAt(s, ps, f, Len(s) + 1) = <<>>
<1>1. Len(s) \in Nat /\ Len(s) + 1 > Len(s)
  BY LenProperties DEF Characters
<1> QED
  BY <1>1 DEF ReferenceAt

\* The last m places and the end.
Places(s, m) == Len(s) + 1 - m .. Len(s) + 1

IsTail(s, ps, f, m) == f = [n \in Places(s, m) |-> ReferenceAt(s, ps, f, n)]

LEMMA OnePlaceMore ==
    ASSUME NEW s \in Characters, NEW ps, ArePatterns(ps),
           NEW m \in 0 .. Len(s), m + 1 <= Len(s), NEW f, IsTail(s, ps, f, m)
    PROVE  \E g : IsTail(s, ps, g, m + 1)
<1>1. Len(s) \in Nat /\ m \in Nat
  BY LenProperties DEF Characters
<1> DEFINE a == Len(s) - m
           g == [n \in Places(s, m + 1) |-> IF n = a THEN ReferenceAt(s, ps, f, n) ELSE f[n]]
<1>2. a \in 1 .. Len(s) /\ Places(s, m + 1) = a .. Len(s) + 1 /\ Places(s, m) = a + 1 .. Len(s) + 1
  BY <1>1 DEF Places
<1> HIDE DEF a
<1>3. \A n \in a + 1 .. Len(s) + 1 : n \in Places(s, m + 1) /\ n # a
  BY <1>1, <1>2
<1>4. \A n \in a + 1 .. Len(s) + 1 : g[n] = f[n]
  BY <1>3
<1>5. a \in Places(s, m + 1)
  BY <1>1, <1>2
<1>6. g[a] = ReferenceAt(s, ps, f, a)
  BY <1>5
<1>g. DOMAIN g = Places(s, m + 1) /\ g = [n \in Places(s, m + 1) |-> g[n]]
  OBVIOUS
<1> HIDE DEF g
<1>7. ASSUME NEW n \in a .. Len(s) PROVE ReferenceAt(s, ps, g, n) = ReferenceAt(s, ps, f, n)
  <2>1. n \in 1 .. Len(s)
    BY <1>1, <1>2
  <2>2. NextAt(ps, s, n) \in n + 1 .. Len(s) + 1
    BY <2>1, NextFits
  <2>3. NextAt(ps, s, n) \in a + 1 .. Len(s) + 1
    BY <1>1, <1>2, <2>2
  <2>4. g[NextAt(ps, s, n)] = f[NextAt(ps, s, n)]
    BY <1>4, <2>3
  <2> QED
    BY <2>1, <2>4, ReferenceStep
<1>8. ReferenceAt(s, ps, g, Len(s) + 1) = ReferenceAt(s, ps, f, Len(s) + 1)
  BY ReferenceEnd
<1>9. ASSUME NEW n \in a + 1 .. Len(s) + 1 PROVE g[n] = ReferenceAt(s, ps, g, n)
  <2>1. f[n] = ReferenceAt(s, ps, f, n)
    BY <1>2 DEF IsTail
  <2>2. n \in a .. Len(s) \/ n = Len(s) + 1
    BY <1>1, <1>2
  <2> QED
    BY <1>4, <1>7, <1>8, <2>1, <2>2
<1>10. a \in a .. Len(s)
  BY <1>1, <1>2
<1>11. g[a] = ReferenceAt(s, ps, g, a)
  BY <1>6, <1>7, <1>10
<1>12. \A n \in Places(s, m + 1) : n = a \/ n \in a + 1 .. Len(s) + 1
  BY <1>1, <1>2
<1>13. \A n \in Places(s, m + 1) : g[n] = ReferenceAt(s, ps, g, n)
  BY <1>9, <1>11, <1>12
<1>14. IsTail(s, ps, g, m + 1)
  BY <1>g, <1>13 DEF IsTail
<1> QED
  BY <1>14

\* The recursion of Reference has a solution: it only looks ahead.
LEMMA TailsExist ==
    ASSUME NEW s \in Characters, NEW ps, ArePatterns(ps)
    PROVE  \A m \in 0 .. Len(s) : \E f : IsTail(s, ps, f, m)
<1> DEFINE Bad == {m \in 0 .. Len(s) : ~\E f : IsTail(s, ps, f, m)}
<1>1. Len(s) \in Nat
  BY LenProperties DEF Characters
<1> SUFFICES ASSUME Bad # {} PROVE FALSE
  OBVIOUS
<1>2. Bad \in SUBSET Nat
  BY <1>1
<1>b. \A m \in 0 .. Len(s) : m \in Bad \/ \E f : IsTail(s, ps, f, m)
  OBVIOUS
<1>c. \A m \in Bad : m \in 0 .. Len(s) /\ ~\E f : IsTail(s, ps, f, m)
  OBVIOUS
<1> HIDE DEF Bad
<1>3. PICK m \in Bad : \A y \in Bad : m <= y
  BY <1>2, LeastNumber
<1>4. CASE m = 0
  <2> DEFINE f == [n \in Places(s, 0) |-> <<>>]
  <2>1. Places(s, 0) = {Len(s) + 1}
    BY <1>1 DEF Places
  <2>2. \A n \in Places(s, 0) : ReferenceAt(s, ps, f, n) = <<>>
    BY <2>1, ReferenceEnd
  <2>3. f = [n \in Places(s, 0) |-> ReferenceAt(s, ps, f, n)]
    BY <2>2
  <2>4. IsTail(s, ps, f, 0)
    BY <2>3 DEF IsTail
  <2> QED
    BY <1>4, <1>c, <2>4
<1>5. CASE m # 0
  <2>1. m \in 0 .. Len(s) /\ m - 1 \in 0 .. Len(s) /\ (m - 1) + 1 = m /\ m <= Len(s)
    BY <1>1, <1>5, <1>c
  <2>2. m - 1 \notin Bad
    BY <1>3, <2>1
  <2>3. PICK f : IsTail(s, ps, f, m - 1)
    BY <1>b, <2>1, <2>2
  <2>4. \E g : IsTail(s, ps, g, (m - 1) + 1)
    BY <2>1, <2>3, OnePlaceMore
  <2> QED
    BY <1>c, <2>1, <2>4
<1> QED
  BY <1>4, <1>5

\* What the reference makes of what is left of a text, at each place.
Rest(s, ps) == CHOOSE at : at = [n \in 1 .. Len(s) + 1 |-> ReferenceAt(s, ps, at, n)]

LEMMA ReferenceIsRest == \A s, ps : Reference(s, ps) = Rest(s, ps)[1]
  BY DEF Reference, Rest

LEMMA RestIs ==
    ASSUME NEW s \in Characters, NEW ps, ArePatterns(ps)
    PROVE  /\ Rest(s, ps)[Len(s) + 1] = <<>>
           /\ \A n \in 1 .. Len(s) :
                 Rest(s, ps)[n] = PieceAt(ps, s, n) \o Rest(s, ps)[NextAt(ps, s, n)]
<1>1. Len(s) \in Nat
  BY LenProperties DEF Characters
<1>2. PICK f : IsTail(s, ps, f, Len(s))
  BY <1>1, TailsExist
<1>3. Places(s, Len(s)) = 1 .. Len(s) + 1
  BY <1>1 DEF Places
<1>4. f = [n \in 1 .. Len(s) + 1 |-> ReferenceAt(s, ps, f, n)]
  BY <1>2, <1>3 DEF IsTail
<1> DEFINE r == Rest(s, ps)
<1>5. r = [n \in 1 .. Len(s) + 1 |-> ReferenceAt(s, ps, r, n)]
  BY <1>4 DEF Rest
<1> HIDE DEF r
<1>6. \A n \in 1 .. Len(s) + 1 : r[n] = ReferenceAt(s, ps, r, n)
  BY <1>5
<1>7. \A n \in 1 .. Len(s) : n \in 1 .. Len(s) + 1
  BY <1>1
<1>8. \A n \in 1 .. Len(s) : r[n] = PieceAt(ps, s, n) \o r[NextAt(ps, s, n)]
  BY <1>6, <1>7, ReferenceStep
<1>9. Len(s) + 1 \in 1 .. Len(s) + 1
  BY <1>1
<1>10. r[Len(s) + 1] = <<>>
  BY <1>6, <1>9, ReferenceEnd
<1> QED
  BY <1>8, <1>10 DEF r

\* It makes a text of the rest, by the number of places that are left.
LEMMA RestShape ==
    ASSUME NEW s \in Characters, NEW ps, ArePatterns(ps)
    PROVE  \A n \in 1 .. Len(s) + 1 : Rest(s, ps)[n] \in Characters
<1> DEFINE r == Rest(s, ps)
           Bad == {m \in 0 .. Len(s) : r[Len(s) + 1 - m] \notin Characters}
<1>1. Len(s) \in Nat
  BY LenProperties DEF Characters
<1>2. Bad \in SUBSET Nat
  BY <1>1
<1>r. /\ r[Len(s) + 1] = <<>>
      /\ \A n \in 1 .. Len(s) : r[n] = PieceAt(ps, s, n) \o r[NextAt(ps, s, n)]
  BY RestIs
<1>b. \A m \in 0 .. Len(s) : m \notin Bad => r[Len(s) + 1 - m] \in Characters
  OBVIOUS
<1>c. \A m \in Bad : m \in 0 .. Len(s) /\ r[Len(s) + 1 - m] \notin Characters
  OBVIOUS
<1> HIDE DEF Bad, r
<1>3. ASSUME Bad # {} PROVE FALSE
  <2>1. PICK m \in Bad : \A y \in Bad : m <= y
    BY <1>2, <1>3, LeastNumber
  <2>2. m \in 0 .. Len(s) /\ r[Len(s) + 1 - m] \notin Characters
    BY <1>c
  <2>3. m # 0
    <3>1. <<>> \in Characters
      BY EmptySeq DEF Characters
    <3>2. Len(s) + 1 - 0 = Len(s) + 1
      BY <1>1
    <3> QED
      BY <1>r, <2>2, <3>1, <3>2
  <2> DEFINE n == Len(s) + 1 - m
  <2>4. n \in 1 .. Len(s)
    BY <1>1, <2>2, <2>3
  <2>5. NextAt(ps, s, n) \in n + 1 .. Len(s) + 1 /\ PieceAt(ps, s, n) \in Characters
    BY <2>4, NextFits
  <2> DEFINE l == Len(s) + 1 - NextAt(ps, s, n)
  <2>6. l \in 0 .. Len(s) /\ l < m /\ Len(s) + 1 - l = NextAt(ps, s, n)
    BY <1>1, <2>2, <2>5
  <2> HIDE DEF l
  <2>7. l \notin Bad
    <3>1. l \in Bad => m <= l
      BY <2>1
    <3> QED
      BY <1>1, <2>2, <2>6, <3>1
  <2>8. r[NextAt(ps, s, n)] \in Characters
    BY <1>b, <2>6, <2>7
  <2>9. r[n] \in Characters
    BY <1>r, <2>4, <2>5, <2>8, ConcatProperties DEF Characters
  <2> QED
    BY <2>2, <2>9
<1>4. ASSUME NEW n \in 1 .. Len(s) + 1 PROVE r[n] \in Characters
  <2>1. Len(s) + 1 - n \in 0 .. Len(s) /\ Len(s) + 1 - (Len(s) + 1 - n) = n
    BY <1>1
  <2>2. Len(s) + 1 - n \notin Bad
    BY <1>3
  <2> QED
    BY <1>b, <2>1, <2>2
<1> QED
  BY <1>4 DEF r

\* Behind the last name the text is left as it is.
LEMMA RestIsText ==
    ASSUME NEW s \in Characters, NEW ps, ArePatterns(ps), NEW i0 \in 1 .. Len(s) + 1,
           \A n \in i0 .. Len(s) : FindAt(ps, s, n) = 0
    PROVE  Rest(s, ps)[i0] = From(s, i0)
<1> DEFINE r == Rest(s, ps)
           Bad == {m \in 0 .. Len(s) + 1 - i0 : r[Len(s) + 1 - m] # From(s, Len(s) + 1 - m)}
<1>1. Len(s) \in Nat /\ i0 \in Nat /\ i0 >= 1 /\ i0 <= Len(s) + 1
  BY LenProperties DEF Characters
<1>2. Bad \in SUBSET Nat
  BY <1>1
<1>r. /\ r[Len(s) + 1] = <<>>
      /\ \A n \in 1 .. Len(s) : r[n] = PieceAt(ps, s, n) \o r[NextAt(ps, s, n)]
  BY RestIs
<1>b. \A m \in 0 .. Len(s) + 1 - i0 : m \notin Bad => r[Len(s) + 1 - m] = From(s, Len(s) + 1 - m)
  OBVIOUS
<1>c. \A m \in Bad : m \in 0 .. Len(s) + 1 - i0 /\ r[Len(s) + 1 - m] # From(s, Len(s) + 1 - m)
  OBVIOUS
<1> HIDE DEF Bad, r
<1>3. ASSUME Bad # {} PROVE FALSE
  <2>1. PICK m \in Bad : \A y \in Bad : m <= y
    BY <1>2, <1>3, LeastNumber
  <2>2. m \in 0 .. Len(s) + 1 - i0 /\ r[Len(s) + 1 - m] # From(s, Len(s) + 1 - m)
    BY <1>c
  <2>3. m # 0
    <3>1. Len(s) + 1 - 0 = Len(s) + 1
      BY <1>1
    <3>2. From(s, Len(s) + 1) = <<>>
      BY <1>1, SubSeqEmpty DEF From
    <3> QED
      BY <1>r, <2>2, <3>1, <3>2
  <2> DEFINE n == Len(s) + 1 - m
  <2>4. n \in 1 .. Len(s) /\ n \in i0 .. Len(s)
    BY <1>1, <2>2, <2>3
  <2>5. NextAt(ps, s, n) = n + 1 /\ PieceAt(ps, s, n) = <<s[n]>>
    BY <2>4 DEF NextAt, PieceAt
  <2>6. m - 1 \in 0 .. Len(s) + 1 - i0 /\ Len(s) + 1 - (m - 1) = n + 1 /\ ~(m <= m - 1)
    BY <1>1, <2>2, <2>3
  <2>7. m - 1 \notin Bad
    BY <2>1, <2>6
  <2>8. r[n + 1] = From(s, n + 1)
    BY <1>b, <2>6, <2>7
  <2>9. r[n] = <<s[n]>> \o From(s, n + 1)
    BY <1>r, <2>4, <2>5, <2>8
  <2>10. Len(s) \in n .. Len(s)
    BY <1>1, <2>4
  <2> HIDE DEF n
  <2>11. SubSeq(s, n, Len(s)) = <<s[n]>> \o SubSeq(s, n + 1, Len(s))
    BY <2>4, <2>10, SubSeqRecursiveFirst DEF Characters
  <2> QED
    BY <2>2, <2>9, <2>11 DEF n, From
<1>4. Len(s) + 1 - i0 \in 0 .. Len(s) + 1 - i0 /\ Len(s) + 1 - (Len(s) + 1 - i0) = i0
  BY <1>1
<1>5. Len(s) + 1 - i0 \notin Bad
  BY <1>3
<1> QED
  BY <1>b, <1>4, <1>5 DEF r

----------------------------------------------------------------------------
(* Names and replacements in a text                                        *)

\* x stands in s at n, to the letter; or, as a folded name does, but for case.
Stands(x, s, n) ==
    /\ n \in Nat \ {0} /\ n + Len(x) <= Len(s) + 1
    /\ \A a \in 1 .. Len(x) : s[n + a - 1] = x[a]

Lies(x, s, n) ==
    /\ n \in Nat \ {0} /\ n + Len(x) <= Len(s) + 1
    /\ \A a \in 1 .. Len(x) : Lower[s[n + a - 1]] = x[a]

LEMMA PrefixIs ==
    ASSUME NEW S, NEW x \in Seq(S), NEW u \in Seq(S)
    PROVE  IsPrefix(x, u) <=> Len(x) <= Len(u) /\ \A a \in 1 .. Len(x) : u[a] = x[a]
<1>1. Len(x) \in Nat /\ Len(u) \in Nat
  BY LenProperties
<1>2. SubSeq(x, 1, Len(x)) = x
  BY SubSeqFull
<1>3. CASE ~(Len(x) <= Len(u))
  BY <1>3 DEF IsPrefix
<1>4. CASE Len(x) <= Len(u)
  <2> DEFINE v == SubSeq(u, 1, Len(x))
  <2>1. \A a \in 1 .. Len(x) : u[a] \in S
    BY <1>1, <1>4, ElementOfSeq
  <2>2. /\ v \in Seq(S) /\ Len(v) = IF 1 <= Len(x) THEN Len(x) - 1 + 1 ELSE 0
        /\ \A a \in 1 .. Len(x) - 1 + 1 : v[a] = u[1 + a - 1]
    BY <1>1, <2>1, SubSeqProperties
  <2>3. Len(v) = Len(x) /\ \A a \in 1 .. Len(x) : v[a] = u[a]
    BY <1>1, <2>2
  <2>4. x = v <=> \A a \in 1 .. Len(x) : v[a] = x[a]
    <3>1. x = v => \A a \in 1 .. Len(x) : v[a] = x[a]
      OBVIOUS
    <3> HIDE DEF v
    <3>2. (\A a \in 1 .. Len(x) : x[a] = v[a]) => x = v
      BY <2>2, <2>3, SeqEqual
    <3> QED
      BY <3>1, <3>2
  <2> QED
    BY <1>2, <1>4, <2>3, <2>4 DEF IsPrefix
<1> QED
  BY <1>3, <1>4

LEMMA FromIs ==
    ASSUME NEW S, NEW s \in Seq(S), NEW n \in 1 .. Len(s) + 1
    PROVE  /\ From(s, n) \in Seq(S) /\ Len(From(s, n)) = Len(s) + 1 - n
           /\ \A a \in 1 .. Len(s) + 1 - n : From(s, n)[a] = s[n + a - 1]
<1>1. Len(s) \in Nat /\ n \in Int
  BY LenProperties
<1>2. \A m \in n .. Len(s) : s[m] \in S
  <2> TAKE m \in n .. Len(s)
  <2>1. m \in 1 .. Len(s)
    BY <1>1
  <2> QED
    BY <2>1, ElementOfSeq
<1>3. \A a \in 1 .. Len(s) - n + 1 : From(s, n)[a] = s[n + a - 1]
  BY <1>1, <1>2, SubSeqProperties DEF From
<1>4. Len(s) - n + 1 = Len(s) + 1 - n
  BY <1>1
<1> QED
  BY <1>3, <1>4, FromShape

LEMMA StandsIs ==
    ASSUME NEW s \in Characters, NEW x \in Characters, NEW n \in 1 .. Len(s) + 1
    PROVE  IsPrefix(x, From(s, n)) <=> Stands(x, s, n)
<1>1. Len(s) \in Nat /\ Len(x) \in Nat /\ n \in Nat \ {0}
  BY LenProperties DEF Characters
<1>2. /\ From(s, n) \in Characters /\ Len(From(s, n)) = Len(s) + 1 - n
      /\ \A a \in 1 .. Len(s) + 1 - n : From(s, n)[a] = s[n + a - 1]
  BY FromIs DEF Characters
<1>3. IsPrefix(x, From(s, n)) <=>
        Len(x) <= Len(s) + 1 - n /\ \A a \in 1 .. Len(x) : From(s, n)[a] = x[a]
  BY <1>2, PrefixIs DEF Characters
<1>4. Len(x) <= Len(s) + 1 - n <=> n + Len(x) <= Len(s) + 1
  BY <1>1
<1>5. ASSUME Len(x) <= Len(s) + 1 - n, NEW a \in 1 .. Len(x)
      PROVE  From(s, n)[a] = s[n + a - 1]
  <2>1. a \in 1 .. Len(s) + 1 - n
    BY <1>1, <1>5
  <2> QED
    BY <1>2, <2>1
<1> QED
  BY <1>1, <1>3, <1>4, <1>5 DEF Stands

LEMMA LiesIs ==
    ASSUME NEW s \in Characters, NEW x \in Folded, NEW n \in 1 .. Len(s) + 1
    PROVE  IsPrefix(x, Fold(From(s, n))) <=> Lies(x, s, n)
<1>1. Len(s) \in Nat /\ Len(x) \in Nat /\ n \in Nat \ {0}
  BY LenProperties DEF Characters, Folded
<1>2. /\ From(s, n) \in Characters /\ Len(From(s, n)) = Len(s) + 1 - n
      /\ \A a \in 1 .. Len(s) + 1 - n : From(s, n)[a] = s[n + a - 1]
  BY FromIs DEF Characters
<1>3. /\ Fold(From(s, n)) \in Folded /\ Len(Fold(From(s, n))) = Len(s) + 1 - n
      /\ \A a \in 1 .. Len(s) + 1 - n : Fold(From(s, n))[a] = Lower[s[n + a - 1]]
  BY <1>2, FoldOf
<1> DEFINE u == Fold(From(s, n))
<1> HIDE DEF u
<1>4. IsPrefix(x, u) <=> Len(x) <= Len(s) + 1 - n /\ \A a \in 1 .. Len(x) : u[a] = x[a]
  BY <1>3, PrefixIs DEF Folded, u
<1>5. Len(x) <= Len(s) + 1 - n <=> n + Len(x) <= Len(s) + 1
  BY <1>1
<1>6. ASSUME Len(x) <= Len(s) + 1 - n, NEW a \in 1 .. Len(x)
      PROVE  u[a] = Lower[s[n + a - 1]]
  <2>1. a \in 1 .. Len(s) + 1 - n
    BY <1>1, <1>6
  <2> QED
    BY <1>3, <2>1 DEF u
<1> QED
  BY <1>1, <1>4, <1>5, <1>6 DEF Lies, u

LEMMA OffIs ==
    ASSUME NEW p, IsPattern(p)
    PROVE  /\ p.off \in Nat /\ Len(p.dst) \in Nat
           /\ p.off # 0 => Lies(p.src, p.dst, p.off) /\ p.off <= Len(p.dst)
           /\ \A c : Lies(p.src, p.dst, c) => p.off # 0 /\ p.off <= c
<1>1. /\ p.src \in Folded /\ Len(p.src) \in Nat \ {0} /\ p.dst \in Characters
      /\ Len(p.dst) \in Nat /\ DOMAIN p.dst = 1 .. Len(p.dst)
      /\ p.off = FoldIndex(p.dst, p.src)
  BY LenProperties DEF IsPattern, Characters
<1> DEFINE at == {n \in DOMAIN p.dst : IsPrefix(p.src, Fold(From(p.dst, n)))}
<1>2. /\ p.off \in Nat
      /\ p.off = 0 <=> at = {}
      /\ p.off # 0 => p.off \in at /\ \A n \in at : p.off <= n
  BY <1>1, IndexIs
<1>3. \A n \in 1 .. Len(p.dst) : n \in at <=> Lies(p.src, p.dst, n)
  <2> TAKE n \in 1 .. Len(p.dst)
  <2>1. n \in 1 .. Len(p.dst) + 1
    BY <1>1
  <2> QED
    BY <1>1, <2>1, LiesIs
<1>4. at \subseteq 1 .. Len(p.dst)
  BY <1>1
<1> HIDE DEF at
<1>5. ASSUME NEW c, Lies(p.src, p.dst, c) PROVE c \in at
  <2>1. c \in 1 .. Len(p.dst)
    BY <1>1, <1>5 DEF Lies
  <2> QED
    BY <1>3, <1>5, <2>1
<1>6. p.off # 0 => p.off \in 1 .. Len(p.dst)
  BY <1>2, <1>4
<1>7. p.off # 0 => p.off <= Len(p.dst)
  BY <1>1, <1>6
<1>8. p.off # 0 => Lies(p.src, p.dst, p.off)
  BY <1>2, <1>3, <1>6
<1> QED
  BY <1>1, <1>2, <1>5, <1>7, <1>8

LEMMA EachIsPattern ==
    ASSUME NEW ps, ArePatterns(ps), NEW j \in DOMAIN ps
    PROVE  IsPattern(ps[j])
  BY DEF ArePatterns, IsPattern

LEMMA HitsAre ==
    ASSUME NEW s \in Characters, NEW ps, ArePatterns(ps), NEW n \in 1 .. Len(s) + 1
    PROVE  \A j : j \in HitsAt(ps, s, n) <=> j \in DOMAIN ps /\ Lies(ps[j].src, s, n)
<1>1. \A j \in DOMAIN ps : ps[j].src \in Folded
  BY DEF ArePatterns
<1> QED
  BY <1>1, LiesIs DEF HitsAt

LEMMA TargetIs ==
    ASSUME NEW s \in Characters, NEW n \in 1 .. Len(s), NEW p, IsPattern(p)
    PROVE  /\ AlreadyTarget(s, n, p) > 0 <=>
                 p.off > 0 /\ n + 1 - p.off > 0 /\ Stands(p.dst, s, n + 1 - p.off)
           /\ AlreadyTarget(s, n, p) > 0 => AlreadyTarget(s, n, p) = Len(p.dst) + 1 - p.off
<1>1. /\ p.off \in Nat /\ Len(p.dst) \in Nat /\ p.dst \in Characters
      /\ p.off # 0 => p.off <= Len(p.dst)
  BY OffIs DEF IsPattern
<1>2. Len(s) \in Nat /\ n \in Nat /\ n >= 1 /\ n <= Len(s)
  BY LenProperties DEF Characters
<1>3. ASSUME p.off > 0, n + 1 - p.off > 0
      PROVE  IsPrefix(p.dst, From(s, n + 1 - p.off)) <=> Stands(p.dst, s, n + 1 - p.off)
  <2>1. n + 1 - p.off \in 1 .. Len(s) + 1
    BY <1>1, <1>2, <1>3
  <2> QED
    BY <1>1, <2>1, StandsIs
<1>4. ASSUME p.off > 0
      PROVE  /\ n + 1 - p.off + Len(p.dst) - n = Len(p.dst) + 1 - p.off
             /\ Len(p.dst) + 1 - p.off > 0
  BY <1>1, <1>2, <1>4
<1> QED
  BY <1>3, <1>4 DEF AlreadyTarget

LEMMA MeetsIs ==
    ASSUME NEW S, NEW x \in Seq(S), NEW y \in Seq(S), NEW n \in 2 .. Len(x),
           Len(x) + 1 - n < Len(y),
           \A a \in 1 .. Len(x) + 1 - n : y[a] = x[n + a - 1]
    PROVE  Meets(x, y)
<1>1. Len(x) \in Nat /\ Len(y) \in Nat
  BY LenProperties
<1>2. n \in 1 .. Len(x) + 1
  BY <1>1
<1>3. /\ From(x, n) \in Seq(S) /\ Len(From(x, n)) = Len(x) + 1 - n
      /\ \A a \in 1 .. Len(x) + 1 - n : From(x, n)[a] = x[n + a - 1]
  BY <1>2, FromIs
<1>4. IsPrefix(From(x, n), y)
  <2>1. Len(From(x, n)) <= Len(y)
    BY <1>1, <1>3
  <2>2. \A a \in 1 .. Len(From(x, n)) : y[a] = From(x, n)[a]
    BY <1>3
  <2> QED
    BY <1>3, <2>1, <2>2, PrefixIs
<1> QED
  BY <1>3, <1>4 DEF Meets

LEMMA WithinIs ==
    ASSUME NEW S, NEW x \in Seq(S), NEW y \in Seq(S), NEW n \in 1 .. Len(y),
           n + Len(x) <= Len(y) + 1,
           \A a \in 1 .. Len(x) : y[n + a - 1] = x[a]
    PROVE  Within(x, y)
<1>1. Len(x) \in Nat /\ Len(y) \in Nat /\ DOMAIN y = 1 .. Len(y)
  BY LenProperties
<1>2. n \in 1 .. Len(y) + 1
  BY <1>1
<1>3. /\ From(y, n) \in Seq(S) /\ Len(From(y, n)) = Len(y) + 1 - n
      /\ \A a \in 1 .. Len(y) + 1 - n : From(y, n)[a] = y[n + a - 1]
  BY <1>2, FromIs
<1>4. Len(x) <= Len(y) + 1 - n
  BY <1>1
<1>5. \A a \in 1 .. Len(x) : From(y, n)[a] = x[a]
  BY <1>1, <1>3, <1>4
<1>6. IsPrefix(x, From(y, n))
  BY <1>3, <1>4, <1>5, PrefixIs
<1> QED
  BY <1>1, <1>6 DEF Within

\* Where names and replacements are apart, a name either keeps off a replacement
\* or lies in it, and then in its own.
LEMMA KeepsOff ==
    ASSUME NEW p, NEW q, IsPattern(p), IsPattern(q), ~Splices(p, q),
           NEW u \in Characters, NEW a, NEW b, Lies(p.src, u, a), Stands(q.dst, u, b)
    PROVE  \/ a + Len(p.src) <= b
           \/ b + Len(q.dst) <= a
           \/ /\ b <= a /\ a + Len(p.src) <= b + Len(q.dst)
              /\ p.dst = q.dst /\ Lies(p.src, q.dst, a - b + 1)
<1> DEFINE src == p.src
           dst == q.dst
           F == Fold(dst)
           S == Len(src)
           D == Len(dst)
<1>1. /\ src \in Folded /\ S \in Nat \ {0} /\ dst \in Characters /\ D \in Nat
      /\ Len(u) \in Nat
  BY LenProperties DEF IsPattern, Characters
<1>2. F \in Folded /\ Len(F) = D /\ \A c \in 1 .. D : F[c] = Lower[dst[c]]
  BY <1>1, FoldOf
<1>3. a \in Nat \ {0} /\ a + S <= Len(u) + 1 /\ \A e \in 1 .. S : Lower[u[a + e - 1]] = src[e]
  BY DEF Lies
<1>4. b \in Nat \ {0} /\ b + D <= Len(u) + 1 /\ \A c \in 1 .. D : u[b + c - 1] = dst[c]
  BY DEF Stands
<1>5. /\ ~Meets(src, F) /\ ~Meets(F, src)
      /\ ~(D < S /\ Within(F, src))
      /\ p.dst = q.dst \/ ~Within(src, F)
  BY <1>2 DEF Splices
<1> HIDE DEF src, dst, F, S, D
<1>c. \A c \in 1 .. D : Lower[u[b + c - 1]] = F[c]
  BY <1>2, <1>4
\* Where both have a letter they have the same.
<1>6. \A e \in 1 .. S, c \in 1 .. D : a + e = b + c => src[e] = F[c]
  <2> SUFFICES ASSUME NEW e \in 1 .. S, NEW c \in 1 .. D, a + e = b + c
               PROVE  src[e] = F[c]
    OBVIOUS
  <2>1. a + e - 1 = b + c - 1
    BY <1>1, <1>3, <1>4
  <2> QED
    BY <1>3, <1>c, <2>1
<1>7. SUFFICES ASSUME a + S > b, b + D > a
               PROVE  /\ b <= a /\ a + S <= b + D
                      /\ p.dst = q.dst /\ Lies(src, dst, a - b + 1)
  BY <1>1, <1>3, <1>4 DEF src, dst, S, D
<1>f. src \in Seq({Lower[c] : c \in STRING}) /\ F \in Seq({Lower[c] : c \in STRING})
  BY <1>1, <1>2 DEF Folded
<1>l. Len(src) = S
  BY DEF S
<1>8. CASE b <= a /\ a + S <= b + D
  <2> DEFINE n == a - b + 1
  <2>1. n \in 1 .. D /\ n + S <= D + 1
    BY <1>1, <1>3, <1>4, <1>8
  <2>2. \A e \in 1 .. S : n + e - 1 \in 1 .. D /\ a + e = b + (n + e - 1)
    BY <1>1, <1>3, <1>4, <1>8
  <2> HIDE DEF n
  <2>3. \A e \in 1 .. S : F[n + e - 1] = src[e]
    BY <1>6, <2>2
  <2>4. Within(src, F)
    BY <1>2, <1>f, <1>l, <2>1, <2>3, WithinIs
  <2>5. \A e \in 1 .. S : Lower[dst[n + e - 1]] = src[e]
    BY <1>2, <2>2, <2>3
  <2>6. n \in Nat \ {0}
    BY <1>1, <2>1
  <2>7. Lies(src, dst, n)
    BY <1>l, <2>1, <2>5, <2>6 DEF Lies, D
  <2> QED
    BY <1>5, <1>8, <2>4, <2>7 DEF n
<1>9. CASE b < a /\ a + S > b + D
  <2> DEFINE n == a - b + 1
  <2>1. n \in 2 .. D /\ D + 1 - n < S
    BY <1>1, <1>3, <1>4, <1>7, <1>9
  <2>2. \A e \in 1 .. D + 1 - n : e \in 1 .. S /\ n + e - 1 \in 1 .. D /\ a + e = b + (n + e - 1)
    BY <1>1, <1>3, <1>4, <1>9
  <2> HIDE DEF n
  <2>3. \A e \in 1 .. D + 1 - n : src[e] = F[n + e - 1]
    BY <1>6, <2>2
  <2>4. Meets(F, src)
    BY <1>2, <1>f, <1>l, <2>1, <2>3, MeetsIs
  <2> QED
    BY <1>5, <2>4
<1>10. CASE b >= a /\ a + S >= b + D /\ D < S
  <2> DEFINE n == b - a + 1
  <2>1. n \in 1 .. S /\ n + D <= S + 1
    BY <1>1, <1>3, <1>4, <1>7, <1>10
  <2>2. \A c \in 1 .. D : n + c - 1 \in 1 .. S /\ a + (n + c - 1) = b + c
    BY <1>1, <1>3, <1>4, <1>10
  <2> HIDE DEF n
  <2>3. \A c \in 1 .. D : src[n + c - 1] = F[c]
    BY <1>6, <2>2
  <2>4. Within(F, src)
    BY <1>2, <1>f, <1>l, <2>1, <2>3, WithinIs
  <2> QED
    BY <1>5, <1>10, <2>4
<1>11. CASE b > a /\ a + S < b + D
  <2> DEFINE n == b - a + 1
  <2>1. n \in 2 .. S /\ S + 1 - n < D
    BY <1>1, <1>3, <1>4, <1>7, <1>11
  <2>2. \A c \in 1 .. S + 1 - n : c \in 1 .. D /\ n + c - 1 \in 1 .. S /\ a + (n + c - 1) = b + c
    BY <1>1, <1>3, <1>4, <1>11
  <2> HIDE DEF n
  <2>3. \A c \in 1 .. S + 1 - n : F[c] = src[n + c - 1]
    BY <1>6, <2>2
  <2>4. Meets(src, F)
    BY <1>2, <1>f, <1>l, <2>1, <2>3, MeetsIs
  <2> QED
    BY <1>5, <2>4
<1>12. \/ b <= a /\ a + S <= b + D
       \/ b < a /\ a + S > b + D
       \/ b >= a /\ a + S >= b + D /\ D < S
       \/ b > a /\ a + S < b + D
  BY <1>1, <1>3, <1>4
<1> QED
  BY <1>8, <1>9, <1>10, <1>11, <1>12

\* Where a replacement ends in another one.
LEMMA DoNotOverlap ==
    ASSUME NEW p, NEW q, IsPattern(p), IsPattern(q), ~Obscures(p, q), p.off > 0, q.off > 0,
           NEW u \in Characters, NEW a, NEW b, Stands(p.dst, u, a), Stands(q.dst, u, b),
           a < b, b < a + Len(p.dst)
    PROVE  b + Len(q.dst) <= a + Len(p.dst)
<1> DEFINE x == p.dst
           y == q.dst
           X == Len(x)
           Y == Len(y)
<1>1. x \in Seq(STRING) /\ y \in Seq(STRING) /\ X \in Nat /\ Y \in Nat /\ Len(u) \in Nat
  BY LenProperties DEF IsPattern, Characters
<1>2. a \in Nat \ {0} /\ \A c \in 1 .. X : u[a + c - 1] = x[c]
  BY DEF Stands
<1>3. b \in Nat \ {0} /\ \A c \in 1 .. Y : u[b + c - 1] = y[c]
  BY DEF Stands
<1>4. ~Meets(x, y)
  BY DEF Obscures
<1>5. a < b /\ b < a + X
  OBVIOUS
<1> HIDE DEF x, y
<1>6. SUFFICES ASSUME b + Y > a + X PROVE FALSE
  BY <1>1, <1>2, <1>3 DEF x, y
<1> DEFINE n == b - a + 1
<1>7. n \in 2 .. X /\ X + 1 - n < Y
  BY <1>1, <1>2, <1>3, <1>5, <1>6
<1>8. \A c \in 1 .. X + 1 - n : c \in 1 .. Y /\ n + c - 1 \in 1 .. X /\ a + (n + c - 1) - 1 = b + c - 1
  BY <1>1, <1>2, <1>3, <1>5, <1>6
<1> HIDE DEF n
<1>9. \A c \in 1 .. X + 1 - n : y[c] = x[n + c - 1]
  BY <1>2, <1>3, <1>8
<1>10. Meets(x, y)
  BY <1>1, <1>7, <1>9, MeetsIs
<1> QED
  BY <1>4, <1>10

----------------------------------------------------------------------------
(* What is copied and what is replaced                                     *)

Replaces(ps, s, n) ==
    FindAt(ps, s, n) # 0 /\ ~(AlreadyTarget(s, n, Hit(ps, s, n)) > 0)

\* What is made of the rest of the text at a is the text up to b, and then what
\* is made of it at b.
Joined(s, ps, a, b) ==
    LET r == Rest(s, ps)
    IN  /\ a \in 1 .. Len(s) + 1 /\ b \in a .. Len(s) + 1
        /\ Len(r[a]) = b - a + Len(r[b])
        /\ \A e \in 1 .. b - a : r[a][e] = s[a + e - 1]
        /\ \A e \in 1 .. Len(r[b]) : r[a][b - a + e] = r[b][e]

LEMMA RestHas ==
    ASSUME NEW s \in Characters, NEW ps, ArePatterns(ps)
    PROVE  /\ \A n \in 1 .. Len(s) + 1 : Rest(s, ps)[n] \in Characters /\ Len(Rest(s, ps)[n]) \in Nat
           /\ Len(Rest(s, ps)[Len(s) + 1]) = 0
<1>1. \A n \in 1 .. Len(s) + 1 : Rest(s, ps)[n] \in Seq(STRING)
  BY RestShape DEF Characters
<1>2. \A n \in 1 .. Len(s) + 1 : Len(Rest(s, ps)[n]) \in Nat
  BY <1>1, LenProperties
<1>3. Len(<<>>) = 0
  BY EmptySeq
<1> QED
  BY <1>1, <1>2, <1>3, RestIs DEF Characters

LEMMA PieceThenRest ==
    ASSUME NEW s \in Characters, NEW ps, ArePatterns(ps), NEW n \in 1 .. Len(s)
    PROVE  LET r == Rest(s, ps)
               piece == PieceAt(ps, s, n)
               l == NextAt(ps, s, n)
           IN  /\ l \in n + 1 .. Len(s) + 1 /\ piece \in Characters /\ Len(piece) \in Nat
               /\ Len(r[n]) = Len(piece) + Len(r[l])
               /\ \A e \in 1 .. Len(piece) : r[n][e] = piece[e]
               /\ \A e \in 1 .. Len(r[l]) : r[n][Len(piece) + e] = r[l][e]
<1> DEFINE r == Rest(s, ps)
           piece == PieceAt(ps, s, n)
           l == NextAt(ps, s, n)
<1>1. l \in n + 1 .. Len(s) + 1 /\ piece \in Seq(STRING)
  BY NextFits DEF Characters
<1>2. Len(s) \in Nat
  BY LenProperties DEF Characters
<1>3. l \in 1 .. Len(s) + 1
  BY <1>1, <1>2
<1>4. r[l] \in Seq(STRING)
  BY <1>3, RestHas DEF Characters
<1>5. r[n] = piece \o r[l]
  BY RestIs
<1> DEFINE last == r[l]
<1> HIDE DEF r, piece, l
<1>6. Len(piece) \in Nat /\ Len(last) \in Nat /\ last \in Seq(STRING)
  BY <1>1, <1>4, LenProperties
<1>7. r[n] = piece \o last
  BY <1>5
<1> HIDE DEF last
<1>8. /\ Len(r[n]) = Len(piece) + Len(last)
      /\ \A e \in 1 .. Len(piece) + Len(last) : r[n][e] =
            IF e <= Len(piece) THEN piece[e] ELSE last[e - Len(piece)]
  BY <1>1, <1>6, <1>7, ConcatProperties
<1>9. \A e \in 1 .. Len(piece) : r[n][e] = piece[e]
  BY <1>6, <1>8
<1>10. ASSUME NEW e \in 1 .. Len(last) PROVE r[n][Len(piece) + e] = last[e]
  <2>1. Len(piece) + e \in 1 .. Len(piece) + Len(last) /\ ~(Len(piece) + e <= Len(piece))
        /\ Len(piece) + e - Len(piece) = e
    BY <1>6
  <2> QED
    BY <1>8, <2>1
<1> QED
  BY <1>1, <1>6, <1>8, <1>9, <1>10 DEF r, piece, l, last, Characters

LEMMA CopyJoins ==
    ASSUME NEW s \in Characters, NEW ps, ArePatterns(ps), NEW n \in 1 .. Len(s),
           ~Replaces(ps, s, n)
    PROVE  Joined(s, ps, n, NextAt(ps, s, n))
<1> DEFINE r == Rest(s, ps)
           piece == PieceAt(ps, s, n)
           l == NextAt(ps, s, n)
           skip == AlreadyTarget(s, n, Hit(ps, s, n))
<1>1. /\ l \in n + 1 .. Len(s) + 1 /\ Len(piece) \in Nat
      /\ Len(r[n]) = Len(piece) + Len(r[l])
      /\ \A e \in 1 .. Len(piece) : r[n][e] = piece[e]
      /\ \A e \in 1 .. Len(r[l]) : r[n][Len(piece) + e] = r[l][e]
  BY PieceThenRest
<1>2. Len(s) \in Nat /\ n \in Nat /\ n >= 1 /\ n <= Len(s)
  BY LenProperties DEF Characters
<1>3. Len(piece) = l - n /\ \A e \in 1 .. l - n : piece[e] = s[n + e - 1]
  <2>1. CASE FindAt(ps, s, n) = 0
    <3>1. l = n + 1 /\ piece = <<s[n]>>
      BY <2>1 DEF NextAt, PieceAt
    <3> QED
      BY <1>2, <3>1
  <2>2. CASE FindAt(ps, s, n) # 0 /\ skip > 0
    <3>1. l = n + skip /\ piece = SubSeq(s, n, n + skip - 1)
      BY <2>2 DEF NextAt, PieceAt
    <3>2. skip \in Nat /\ n + skip <= Len(s) + 1
      BY <2>2, HitShape, SkipFits
    <3> DEFINE z == n + skip - 1
    <3> HIDE DEF skip, l, piece
    <3>3. z \in Int /\ n \in Int /\ z <= Len(s) /\ l = z + 1 /\ n <= z
      BY <1>2, <2>2, <3>1, <3>2
    <3>4. piece = SubSeq(s, n, z)
      BY <3>1
    <3> HIDE DEF z
    <3>5. \A m \in n .. z : s[m] \in STRING
      <4> TAKE m \in n .. z
      <4>1. m \in 1 .. Len(s)
        BY <1>2, <3>3
      <4> QED
        BY <4>1, ElementOfSeq DEF Characters
    <3>6. /\ Len(SubSeq(s, n, z)) = IF n <= z THEN z - n + 1 ELSE 0
          /\ \A e \in 1 .. z - n + 1 : SubSeq(s, n, z)[e] = s[n + e - 1]
      BY <3>3, <3>5, SubSeqProperties
    <3>7. z - n + 1 = l - n
      BY <1>2, <3>3
    <3> QED
      BY <3>3, <3>4, <3>6, <3>7
  <2> QED
    BY <2>1, <2>2 DEF Replaces
<1> HIDE DEF r, piece, l, skip
<1>4. n \in 1 .. Len(s) + 1 /\ l \in n .. Len(s) + 1
  BY <1>1, <1>2
<1>5. \A e \in 1 .. l - n : r[n][e] = s[n + e - 1]
  BY <1>1, <1>3
<1>6. \A e \in 1 .. Len(r[l]) : r[n][l - n + e] = r[l][e]
  BY <1>1, <1>3
<1>7. Len(r[n]) = l - n + Len(r[l])
  BY <1>1, <1>3
<1> QED
  BY <1>4, <1>5, <1>6, <1>7 DEF Joined, r, l

LEMMA ReplaceWrites ==
    ASSUME NEW s \in Characters, NEW ps, ArePatterns(ps), NEW n \in 1 .. Len(s),
           Replaces(ps, s, n)
    PROVE  LET r == Rest(s, ps)
               dst == Hit(ps, s, n).dst
               l == NextAt(ps, s, n)
           IN  /\ dst \in Characters /\ Len(dst) \in Nat
               /\ Len(r[n]) = Len(dst) + Len(r[l]) /\ Stands(dst, r[n], 1)
               /\ \A e \in 1 .. Len(r[l]) : r[n][Len(dst) + e] = r[l][e]
               /\ l = Behind(ps, s, n) + TrailingDate(s, Behind(ps, s, n))
<1>1. PieceAt(ps, s, n) = Hit(ps, s, n).dst
  BY DEF Replaces, PieceAt
<1>2. NextAt(ps, s, n) = Behind(ps, s, n) + TrailingDate(s, Behind(ps, s, n))
  BY DEF Replaces, NextAt
<1> DEFINE r == Rest(s, ps)
           l == NextAt(ps, s, n)
           dst == Hit(ps, s, n).dst
<1>3. /\ l \in n + 1 .. Len(s) + 1 /\ dst \in Characters /\ Len(dst) \in Nat
      /\ Len(r[n]) = Len(dst) + Len(r[l])
      /\ \A e \in 1 .. Len(dst) : r[n][e] = dst[e]
      /\ \A e \in 1 .. Len(r[l]) : r[n][Len(dst) + e] = r[l][e]
  <2> DEFINE piece == PieceAt(ps, s, n)
  <2>1. /\ l \in n + 1 .. Len(s) + 1 /\ piece \in Characters /\ Len(piece) \in Nat
        /\ Len(r[n]) = Len(piece) + Len(r[l])
    BY PieceThenRest
  <2>2. \A e \in 1 .. Len(piece) : r[n][e] = piece[e]
    BY PieceThenRest
  <2>3. \A e \in 1 .. Len(r[l]) : r[n][Len(piece) + e] = r[l][e]
    BY PieceThenRest
  <2>4. piece = dst
    BY <1>1
  <2> HIDE DEF piece, dst, r, l
  <2>5. dst \in Characters /\ Len(dst) \in Nat /\ Len(r[n]) = Len(dst) + Len(r[l])
    BY <2>1, <2>4
  <2>6. \A e \in 1 .. Len(dst) : r[n][e] = dst[e]
    BY <2>2, <2>4
  <2>7. \A e \in 1 .. Len(r[l]) : r[n][Len(dst) + e] = r[l][e]
    BY <2>3, <2>4
  <2> QED
    BY <2>1, <2>5, <2>6, <2>7
<1>4. Len(s) \in Nat /\ n \in Nat /\ n >= 1 /\ n <= Len(s)
  BY LenProperties DEF Characters
<1>5. l \in 1 .. Len(s) + 1
  BY <1>3, <1>4
<1>6. Len(r[l]) \in Nat
  BY <1>5, RestHas
<1> HIDE DEF r, l, dst
<1>7. Stands(dst, r[n], 1)
  <2>1. 1 + Len(dst) <= Len(r[n]) + 1
    BY <1>3, <1>6
  <2>2. \A e \in 1 .. Len(dst) : 1 + e - 1 = e
    BY <1>3
  <2>3. \A e \in 1 .. Len(dst) : r[n][1 + e - 1] = dst[e]
    BY <1>3, <2>2
  <2> QED
    BY <2>1, <2>3 DEF Stands
<1> QED
  BY <1>2, <1>3, <1>7 DEF r, l, dst

LEMMA JoinsOn ==
    ASSUME NEW s \in Characters, NEW ps, ArePatterns(ps), NEW a, NEW b, NEW c,
           Joined(s, ps, a, b), Joined(s, ps, b, c)
    PROVE  Joined(s, ps, a, c)
<1> DEFINE r == Rest(s, ps)
<1>1. /\ a \in 1 .. Len(s) + 1 /\ b \in a .. Len(s) + 1
      /\ Len(r[a]) = b - a + Len(r[b])
      /\ \A e \in 1 .. b - a : r[a][e] = s[a + e - 1]
      /\ \A e \in 1 .. Len(r[b]) : r[a][b - a + e] = r[b][e]
  BY DEF Joined
<1>2. /\ b \in 1 .. Len(s) + 1 /\ c \in b .. Len(s) + 1
      /\ Len(r[b]) = c - b + Len(r[c])
      /\ \A e \in 1 .. c - b : r[b][e] = s[b + e - 1]
      /\ \A e \in 1 .. Len(r[c]) : r[b][c - b + e] = r[c][e]
  BY DEF Joined
<1>3. Len(s) \in Nat
  BY LenProperties DEF Characters
<1>4. c \in 1 .. Len(s) + 1 /\ c \in a .. Len(s) + 1
  BY <1>1, <1>2, <1>3
<1>5. Len(r[b]) \in Nat /\ Len(r[c]) \in Nat
  BY <1>2, <1>4, RestHas
<1> HIDE DEF r
<1>6. Len(r[a]) = c - a + Len(r[c])
  BY <1>1, <1>2, <1>3, <1>5
<1>7. ASSUME NEW e \in 1 .. c - a PROVE r[a][e] = s[a + e - 1]
  <2>1. CASE e <= b - a
    <3>1. e \in 1 .. b - a
      BY <1>1, <1>2, <1>3, <2>1
    <3> QED
      BY <1>1, <3>1
  <2>2. CASE ~(e <= b - a)
    <3> DEFINE f == e - (b - a)
    <3>1. /\ f \in 1 .. c - b /\ f \in 1 .. Len(r[b]) /\ b - a + f = e
          /\ b + f - 1 = a + e - 1
      BY <1>1, <1>2, <1>3, <1>5, <2>2
    <3> HIDE DEF f
    <3>2. r[a][b - a + f] = r[b][f] /\ r[b][f] = s[b + f - 1]
      BY <1>1, <1>2, <3>1
    <3> QED
      BY <3>1, <3>2
  <2> QED
    BY <2>1, <2>2
<1>8. ASSUME NEW e \in 1 .. Len(r[c]) PROVE r[a][c - a + e] = r[c][e]
  <2> DEFINE f == c - b + e
  <2>1. f \in 1 .. Len(r[b]) /\ b - a + f = c - a + e
    BY <1>1, <1>2, <1>3, <1>5
  <2> HIDE DEF f
  <2>2. r[a][b - a + f] = r[b][f]
    BY <1>1, <2>1
  <2>3. r[b][f] = r[c][e]
    BY <1>2 DEF f
  <2> QED
    BY <2>1, <2>2, <2>3
<1> QED
  BY <1>1, <1>4, <1>6, <1>7, <1>8 DEF Joined, r

LEMMA JoinsSelf ==
    ASSUME NEW s \in Characters, NEW ps, ArePatterns(ps), NEW n \in 1 .. Len(s) + 1
    PROVE  Joined(s, ps, n, n)
<1> DEFINE len == Len(Rest(s, ps)[n])
<1>1. Len(s) \in Nat /\ len \in Nat
  BY RestHas, LenProperties DEF Characters
<1> HIDE DEF len
<1>2. n \in n .. Len(s) + 1 /\ n - n = 0 /\ len = n - n + len
  BY <1>1
<1>3. \A e \in 1 .. len : n - n + e = e
  BY <1>1
<1>4. \A e \in 1 .. n - n : FALSE
  BY <1>1
<1> QED
  BY <1>2, <1>3, <1>4 DEF Joined, len

\* What is copied goes on to the end, or to the next name that is replaced.
LEMMA RunEnds ==
    ASSUME NEW s \in Characters, NEW ps, ArePatterns(ps)
    PROVE  \A n \in 1 .. Len(s) + 1 : \E m :
              /\ Joined(s, ps, n, m)
              /\ m = Len(s) + 1 \/ (m \in 1 .. Len(s) /\ Replaces(ps, s, m))
<1> DEFINE End(n, m) == /\ Joined(s, ps, n, m)
                        /\ m = Len(s) + 1 \/ (m \in 1 .. Len(s) /\ Replaces(ps, s, m))
           Bad == {b \in 0 .. Len(s) : ~\E m : End(Len(s) + 1 - b, m)}
<1>1. Len(s) \in Nat
  BY LenProperties DEF Characters
<1>2. Bad \in SUBSET Nat
  BY <1>1
<1>b. \A b \in 0 .. Len(s) : b \notin Bad => \E m : End(Len(s) + 1 - b, m)
  OBVIOUS
<1>c. \A b \in Bad : b \in 0 .. Len(s) /\ ~\E m : End(Len(s) + 1 - b, m)
  OBVIOUS
<1> HIDE DEF Bad
<1>3. ASSUME Bad # {} PROVE FALSE
  <2>1. PICK b \in Bad : \A y \in Bad : b <= y
    BY <1>2, <1>3, LeastNumber
  <2> DEFINE n == Len(s) + 1 - b
  <2>2. b \in 0 .. Len(s) /\ ~\E m : End(n, m)
    BY <1>c
  <2>3. n \in 1 .. Len(s) + 1
    BY <1>1, <2>2
  <2> HIDE DEF n, End
  <2>4. CASE n = Len(s) + 1
    <3>1. End(n, n)
      BY <2>3, <2>4, JoinsSelf DEF End
    <3> QED
      BY <2>2, <3>1
  <2>5. CASE n # Len(s) + 1 /\ Replaces(ps, s, n)
    <3>1. n \in 1 .. Len(s)
      BY <1>1, <2>3, <2>5
    <3>2. End(n, n)
      BY <2>3, <2>5, <3>1, JoinsSelf DEF End
    <3> QED
      BY <2>2, <3>2
  <2>6. CASE n # Len(s) + 1 /\ ~Replaces(ps, s, n)
    <3>1. n \in 1 .. Len(s)
      BY <1>1, <2>3, <2>6
    <3> DEFINE l == NextAt(ps, s, n)
               c == Len(s) + 1 - l
    <3>2. l \in n + 1 .. Len(s) + 1 /\ Joined(s, ps, n, l)
      BY <2>6, <3>1, NextFits, CopyJoins
    <3> HIDE DEF l
    <3>3. c \in 0 .. Len(s) /\ ~(b <= c) /\ Len(s) + 1 - c = l
      BY <1>1, <2>2, <3>1, <3>2 DEF n
    <3> HIDE DEF c
    <3>4. c \notin Bad
      BY <2>1, <3>3
    <3>5. PICK m : End(l, m)
      BY <1>b, <3>3, <3>4
    <3>6. Joined(s, ps, n, m)
      BY <3>2, <3>5, JoinsOn DEF End
    <3>7. End(n, m)
      BY <3>5, <3>6 DEF End
    <3> QED
      BY <2>2, <3>7
  <2> QED
    BY <2>4, <2>5, <2>6
<1>4. ASSUME NEW n \in 1 .. Len(s) + 1 PROVE \E m : End(n, m)
  <2>1. Len(s) + 1 - n \in 0 .. Len(s) /\ Len(s) + 1 - (Len(s) + 1 - n) = n
    BY <1>1
  <2>2. Len(s) + 1 - n \notin Bad
    BY <1>3
  <2> QED
    BY <1>b, <2>1, <2>2
<1> QED
  BY <1>4

----------------------------------------------------------------------------
(* The places the pass comes to                                            *)

Reached(s, ps) ==
    {n \in 1 .. Len(s) + 1 : \A S \in SUBSET (1 .. Len(s) + 1) :
        1 \in S /\ (\A m \in S : m <= Len(s) => NextAt(ps, s, m) \in S) => n \in S}

LEMMA ReachedIs ==
    ASSUME NEW s \in Characters, NEW ps, ArePatterns(ps)
    PROVE  /\ 1 \in Reached(s, ps) /\ Reached(s, ps) \subseteq 1 .. Len(s) + 1
           /\ \A n \in Reached(s, ps) : n <= Len(s) =>
                 n \in 1 .. Len(s) /\ NextAt(ps, s, n) \in Reached(s, ps)
<1>1. Len(s) \in Nat /\ 1 \in 1 .. Len(s) + 1
  BY LenProperties DEF Characters
<1>2. ASSUME NEW n \in Reached(s, ps), n <= Len(s)
      PROVE  n \in 1 .. Len(s) /\ NextAt(ps, s, n) \in Reached(s, ps)
  <2>1. n \in 1 .. Len(s) + 1
    BY DEF Reached
  <2>2. n \in 1 .. Len(s)
    BY <1>1, <1>2, <2>1
  <2>3. NextAt(ps, s, n) \in 1 .. Len(s) + 1
    BY <1>1, <2>2, NextFits
  <2>4. ASSUME NEW S \in SUBSET (1 .. Len(s) + 1), 1 \in S,
               \A m \in S : m <= Len(s) => NextAt(ps, s, m) \in S
        PROVE  NextAt(ps, s, n) \in S
    BY <1>2, <2>4 DEF Reached
  <2> QED
    BY <2>2, <2>3, <2>4 DEF Reached
<1> QED
  BY <1>1, <1>2 DEF Reached

LEMMA ReachedOnly ==
    ASSUME NEW s \in Characters, NEW ps, ArePatterns(ps), NEW S, 1 \in S,
           \A n \in Reached(s, ps) \cap S : n <= Len(s) => NextAt(ps, s, n) \in S
    PROVE  Reached(s, ps) \subseteq S
<1> DEFINE T == Reached(s, ps) \cap S
<1>1. T \in SUBSET (1 .. Len(s) + 1) /\ 1 \in T
  BY ReachedIs
<1>2. \A m \in T : m <= Len(s) => NextAt(ps, s, m) \in T
  BY ReachedIs
<1> HIDE DEF T
<1>3. \A n \in Reached(s, ps) : n \in T
  BY <1>1, <1>2 DEF Reached
<1> QED
  BY <1>3 DEF T

\* Where in what is made of the text the part made of the rest at n begins.
PlaceOf(s, ps, n) == Len(Rest(s, ps)[1]) + 1 - Len(Rest(s, ps)[n])

Aligned(s, ps, n) ==
    LET r == Rest(s, ps)
    IN  /\ PlaceOf(s, ps, n) \in 1 .. Len(r[1]) + 1
        /\ \A e \in 1 .. Len(r[n]) : r[1][PlaceOf(s, ps, n) + e - 1] = r[n][e]

LEMMA PlacesAligned ==
    ASSUME NEW s \in Characters, NEW ps, ArePatterns(ps)
    PROVE  \A n \in Reached(s, ps) : Aligned(s, ps, n)
<1> DEFINE r == Rest(s, ps)
           S == {n \in 1 .. Len(s) + 1 : Aligned(s, ps, n)}
<1>1. Len(s) \in Nat /\ 1 \in 1 .. Len(s) + 1
  BY LenProperties DEF Characters
<1>2. \A n \in 1 .. Len(s) + 1 : Len(r[n]) \in Nat
  BY RestHas
<1>3. 1 \in S
  <2>1. Len(r[1]) + 1 - Len(r[1]) = 1
    BY <1>1, <1>2
  <2>2. \A e \in 1 .. Len(r[1]) : 1 + e - 1 = e
    BY <1>1, <1>2
  <2>3. 1 \in 1 .. Len(r[1]) + 1
    BY <1>1, <1>2
  <2> QED
    BY <1>1, <2>1, <2>2, <2>3 DEF Aligned, PlaceOf
<1>4. ASSUME NEW n \in Reached(s, ps) \cap S, n <= Len(s)
      PROVE  NextAt(ps, s, n) \in S
  <2> DEFINE piece == PieceAt(ps, s, n)
             l == NextAt(ps, s, n)
  <2>1. n \in 1 .. Len(s)
    BY <1>4, ReachedIs
  <2>2. /\ l \in n + 1 .. Len(s) + 1 /\ Len(piece) \in Nat
        /\ Len(r[n]) = Len(piece) + Len(r[l])
        /\ \A e \in 1 .. Len(r[l]) : r[n][Len(piece) + e] = r[l][e]
    BY <2>1, PieceThenRest
  <2>3. l \in 1 .. Len(s) + 1 /\ n \in 1 .. Len(s) + 1
    BY <1>1, <2>1, <2>2
  <2>4. Len(r[1]) \in Nat /\ Len(r[n]) \in Nat /\ Len(r[l]) \in Nat
    BY <1>1, <1>2, <2>3
  <2> DEFINE c == Len(r[1]) + 1 - Len(r[n])
             d == Len(r[1]) + 1 - Len(r[l])
  <2>5. /\ c \in 1 .. Len(r[1]) + 1
        /\ \A e \in 1 .. Len(r[n]) : r[1][c + e - 1] = r[n][e]
    BY DEF Aligned, PlaceOf
  <2> HIDE DEF r, piece, l
  <2>6. d \in 1 .. Len(r[1]) + 1 /\ d = c + Len(piece)
    <3> DEFINE A == Len(r[1])
               B == Len(r[n])
               C == Len(r[l])
               P == Len(piece)
    <3>1. A \in Nat /\ B \in Nat /\ C \in Nat /\ P \in Nat /\ B = P + C
          /\ A + 1 - B \in 1 .. A + 1
      BY <2>2, <2>4, <2>5
    <3> HIDE DEF A, B, C, P
    <3>2. A + 1 - C \in 1 .. A + 1 /\ A + 1 - C = (A + 1 - B) + P
      BY <3>1
    <3> QED
      BY <3>2 DEF A, B, C, P
  <2>7. ASSUME NEW e \in 1 .. Len(r[l]) PROVE r[1][d + e - 1] = r[l][e]
    <3> HIDE DEF c, d
    <3>1. /\ Len(piece) + e \in 1 .. Len(r[n])
          /\ c + (Len(piece) + e) - 1 = d + e - 1
      BY <2>2, <2>4, <2>5, <2>6
    <3>2. r[1][c + (Len(piece) + e) - 1] = r[n][Len(piece) + e]
      BY <2>5, <3>1
    <3> QED
      BY <2>2, <3>1, <3>2
  <2>8. Aligned(s, ps, l)
    BY <2>6, <2>7 DEF Aligned, PlaceOf, r
  <2> QED
    BY <2>3, <2>8 DEF l
<1> HIDE DEF S
<1>5. Reached(s, ps) \subseteq S
  BY <1>3, <1>4, ReachedOnly
<1> QED
  BY <1>5 DEF S

----------------------------------------------------------------------------
(* What of a name or a replacement is left                                 *)

LEMMA LiesInside ==
    ASSUME NEW p, IsPattern(p), NEW u \in Characters, NEW b, NEW c,
           Stands(p.dst, u, b), Lies(p.src, p.dst, c)
    PROVE  Lies(p.src, u, b + c - 1)
<1> DEFINE src == p.src
           dst == p.dst
<1>1. Len(src) \in Nat /\ Len(dst) \in Nat /\ Len(u) \in Nat
  BY LenProperties DEF IsPattern, Characters
<1>2. /\ b \in Nat \ {0} /\ b + Len(dst) <= Len(u) + 1
      /\ \A e \in 1 .. Len(dst) : u[b + e - 1] = dst[e]
  BY DEF Stands
<1>3. /\ c \in Nat \ {0} /\ c + Len(src) <= Len(dst) + 1
      /\ \A e \in 1 .. Len(src) : Lower[dst[c + e - 1]] = src[e]
  BY DEF Lies
<1> HIDE DEF src, dst
<1>4. \A e \in 1 .. Len(src) : /\ c + e - 1 \in 1 .. Len(dst)
                               /\ b + (c + e - 1) - 1 = (b + c - 1) + e - 1
  BY <1>1, <1>2, <1>3
<1>5. \A e \in 1 .. Len(src) : Lower[u[(b + c - 1) + e - 1]] = src[e]
  <2> TAKE e \in 1 .. Len(src)
  <2>1. u[b + (c + e - 1) - 1] = dst[c + e - 1]
    BY <1>2, <1>4
  <2> QED
    BY <1>3, <1>4, <2>1
<1>6. b + c - 1 \in Nat \ {0} /\ (b + c - 1) + Len(src) <= Len(u) + 1
  BY <1>1, <1>2, <1>3
<1> QED
  BY <1>5, <1>6 DEF Lies, src

\* Replacing does not make names that were not there.
LEMMA NoNewName ==
    ASSUME NEW s \in Characters, NEW ps, ArePatterns(ps), Apart(ps), NEW j \in DOMAIN ps,
           NEW n \in 1 .. Len(s), ~Replaces(ps, s, n), Lies(ps[j].src, Rest(s, ps)[n], 1)
    PROVE  Lies(ps[j].src, s, n)
<1> DEFINE r == Rest(s, ps)
           src == ps[j].src
<1>1. Len(s) \in Nat /\ n \in 1 .. Len(s) + 1
  BY LenProperties DEF Characters
<1>2. PICK m : /\ Joined(s, ps, n, m)
               /\ m = Len(s) + 1 \/ (m \in 1 .. Len(s) /\ Replaces(ps, s, m))
  BY <1>1, RunEnds
<1>3. /\ m \in n .. Len(s) + 1 /\ Len(r[n]) = m - n + Len(r[m])
      /\ \A e \in 1 .. m - n : r[n][e] = s[n + e - 1]
      /\ \A e \in 1 .. Len(r[m]) : r[n][m - n + e] = r[m][e]
  BY <1>2 DEF Joined
<1>4. IsPattern(ps[j]) /\ Len(src) \in Nat \ {0}
  BY EachIsPattern DEF IsPattern
<1>5. 1 + Len(src) <= Len(r[n]) + 1 /\ \A e \in 1 .. Len(src) : Lower[r[n][1 + e - 1]] = src[e]
  BY DEF Lies
<1>6. m \in 1 .. Len(s) + 1
  BY <1>1, <1>3
<1>7. Len(r[m]) \in Nat /\ Len(r[n]) \in Nat /\ r[n] \in Characters
  BY <1>1, <1>6, RestHas
<1>8. Len(src) <= m - n
  <2>1. CASE m = Len(s) + 1
    <3>1. Len(r[m]) = 0
      BY <2>1, RestHas
    <3> QED
      BY <1>1, <1>3, <1>4, <1>5, <3>1
  <2>2. CASE m \in 1 .. Len(s) /\ Replaces(ps, s, m)
    <3> DEFINE g == FindAt(ps, s, m)
               dst == ps[g].dst
               l == NextAt(ps, s, m)
    <3>1. m # n
      BY <2>2
    <3>2. g \in DOMAIN ps
      <4>1. g \in HitsAt(ps, s, m)
        BY <1>6, <2>2, FindAtIs DEF Replaces
      <4> QED
        BY <4>1 DEF HitsAt
    <3>3. /\ dst \in Characters /\ Len(dst) \in Nat
          /\ Len(r[m]) = Len(dst) + Len(r[l]) /\ Stands(dst, r[m], 1)
      BY <2>2, ReplaceWrites DEF Hit
    <3>4. IsPattern(ps[g]) /\ ~Splices(ps[j], ps[g])
      BY <3>2, EachIsPattern DEF Apart
    <3>5. /\ 1 + Len(dst) <= Len(r[m]) + 1
          /\ \A e \in 1 .. Len(dst) : r[m][1 + e - 1] = dst[e]
      BY <3>3 DEF Stands
    <3> DEFINE b == m - n + 1
    <3>6. Stands(dst, r[n], b)
      <4> HIDE DEF r, dst
      <4>1. b \in Nat \ {0} /\ b + Len(dst) <= Len(r[n]) + 1
        BY <1>1, <1>3, <1>7, <3>3, <3>5
      <4>2. ASSUME NEW e \in 1 .. Len(dst) PROVE r[n][b + e - 1] = dst[e]
        <5>1. e \in 1 .. Len(r[m]) /\ b + e - 1 = m - n + e /\ 1 + e - 1 = e
          BY <1>1, <1>3, <1>7, <3>3, <3>5
        <5> QED
          BY <1>3, <3>5, <5>1
      <4> QED
        BY <4>1, <4>2 DEF Stands
    <3> HIDE DEF b, dst
    <3>7. \/ 1 + Len(src) <= b
          \/ b + Len(dst) <= 1
          \/ b <= 1
      BY <1>4, <1>7, <3>4, <3>6, KeepsOff DEF dst, r, src
    <3> QED
      BY <1>1, <1>3, <1>4, <3>1, <3>3, <3>7 DEF b
  <2> QED
    BY <1>2, <2>1, <2>2
<1> HIDE DEF r, src
<1>9. n \in Nat \ {0} /\ n + Len(src) <= Len(s) + 1
  BY <1>1, <1>3, <1>4, <1>8
<1>10. ASSUME NEW e \in 1 .. Len(src) PROVE Lower[s[n + e - 1]] = src[e]
  <2>1. e \in 1 .. m - n /\ 1 + e - 1 = e
    BY <1>1, <1>3, <1>4, <1>8
  <2> QED
    BY <1>3, <1>5, <2>1
<1> QED
  BY <1>9, <1>10 DEF Lies, src

\* What a date consists of.
LEMMA DateLetters ==
    ASSUME NEW s \in Characters, NEW n \in 1 .. Len(s) + 1,
           NEW m \in n .. n + TrailingDate(s, n) - 1
    PROVE  s[m] \in Digits \cup {"-"}
<1> DEFINE ends == {z \in n + DateMin .. n + DateMax : z <= Len(s)}
           dates == {z \in ends : /\ s[n] = "-"
                                  /\ IsDate(SubSeq(s, n + 1, z))
                                  /\ z < Len(s) => s[z + 1] \notin Digits}
<1>1. Len(s) \in Nat /\ n \in Nat /\ n >= 1 /\ n <= Len(s) + 1
  BY LenProperties DEF Characters
<1>2. \A z \in ends : z \in 0 .. Len(s) /\ z >= n
  BY <1>1, FoldAssumption
<1>3. dates \subseteq ends
  OBVIOUS
<1>4. TrailingDate(s, n) = IF dates = {} THEN 0 ELSE Max(dates) + 1 - n
  BY DEF TrailingDate
<1>d. \A z \in dates : s[n] = "-" /\ IsDate(SubSeq(s, n + 1, z))
  OBVIOUS
<1> HIDE DEF dates, ends
<1>5. dates # {}
  BY <1>1, <1>4
<1>6. dates \in SUBSET (0 .. Len(s))
  BY <1>2, <1>3
<1>7. Max(dates) \in dates
  BY <1>1, <1>5, <1>6, GreatestNumber
<1> DEFINE z == Max(dates)
<1>8. z \in 0 .. Len(s) /\ z >= n /\ s[n] = "-" /\ IsDate(SubSeq(s, n + 1, z))
  BY <1>2, <1>3, <1>7, <1>d
<1>9. m \in n .. z
  BY <1>1, <1>4, <1>5, <1>8
<1> HIDE DEF z
<1>10. CASE m = n
  BY <1>8, <1>10
<1>11. CASE m # n
  <2> DEFINE t == SubSeq(s, n + 1, z)
  <2>1. \A y \in n + 1 .. z : s[y] \in STRING
    <3> TAKE y \in n + 1 .. z
    <3>1. y \in 1 .. Len(s)
      BY <1>1, <1>8
    <3> QED
      BY <3>1, ElementOfSeq DEF Characters
  <2>2. n + 1 \in Int /\ z \in Int
    BY <1>1, <1>8
  <2>3. /\ t \in Seq(STRING) /\ Len(t) = IF n + 1 <= z THEN z - (n + 1) + 1 ELSE 0
        /\ \A y \in 1 .. z - (n + 1) + 1 : t[y] = s[n + 1 + y - 1]
    BY <2>1, <2>2, SubSeqProperties
  <2>4. DOMAIN t = 1 .. Len(t)
    BY <2>3, LenProperties
  <2>5. \A y \in DOMAIN t : t[y] \in Digits
    BY <1>8 DEF IsDate
  <2> HIDE DEF t
  <2>6. m - n \in DOMAIN t /\ m - n \in 1 .. z - (n + 1) + 1 /\ n + 1 + (m - n) - 1 = m
    BY <1>1, <1>8, <1>9, <1>11, <2>3, <2>4
  <2>7. t[m - n] = s[m]
    BY <2>3, <2>6
  <2> QED
    BY <2>5, <2>6, <2>7
<1> QED
  BY <1>10, <1>11

----------------------------------------------------------------------------
(* What is left in place until a replacement                               *)

\* What is found at a place, as a pattern.
LEMMA FoundIs ==
    ASSUME NEW s \in Characters, NEW ps, ArePatterns(ps), NEW n \in 1 .. Len(s),
           FindAt(ps, s, n) # 0
    PROVE  /\ FindAt(ps, s, n) \in DOMAIN ps /\ IsPattern(Hit(ps, s, n))
           /\ Lies(Hit(ps, s, n).src, s, n)
<1>1. n \in 1 .. Len(s) + 1
  BY LenProperties DEF Characters
<1>2. FindAt(ps, s, n) \in HitsAt(ps, s, n)
  BY <1>1, FindAtIs
<1> QED
  BY <1>1, <1>2, HitsAre, EachIsPattern DEF Hit

\* A replacement that begins before n and has its name not before n: nothing has been
\* replaced since it began.
Whole(s, ps, b, n) ==
    /\ b \in Reached(s, ps) /\ Joined(s, ps, b, n)
    /\ \A h \in b .. n - 1 : HitsAt(ps, s, h) = {}

WholeSoFar(s, ps, n) ==
    \A g \in DOMAIN ps, b \in 1 .. Len(s) :
        b < n /\ n <= b + ps[g].off - 1 /\ Stands(ps[g].dst, s, b) => Whole(s, ps, b, n)

LEMMA PassedOver ==
    ASSUME NEW s \in Characters, NEW ps, ArePatterns(ps), NEW n \in Reached(s, ps),
           n \in 1 .. Len(s), FindAt(ps, s, n) = 0, WholeSoFar(s, ps, n)
    PROVE  WholeSoFar(s, ps, n + 1)
<1>1. Len(s) \in Nat /\ n \in Nat /\ n >= 1 /\ n <= Len(s) /\ n \in 1 .. Len(s) + 1
  BY LenProperties DEF Characters
<1>2. HitsAt(ps, s, n) = {}
  BY <1>1, FindAtIs
<1>3. Joined(s, ps, n, n + 1)
  <2>1. NextAt(ps, s, n) = n + 1 /\ ~Replaces(ps, s, n)
    BY DEF NextAt, Replaces
  <2> QED
    BY <2>1, CopyJoins
<1> SUFFICES ASSUME NEW g \in DOMAIN ps, NEW b \in 1 .. Len(s), b < n + 1,
                    n + 1 <= b + ps[g].off - 1, Stands(ps[g].dst, s, b)
             PROVE  Whole(s, ps, b, n + 1)
  BY DEF WholeSoFar
<1>4. ps[g].off \in Nat
  BY EachIsPattern, OffIs
<1>5. CASE b < n
  <2>1. n <= b + ps[g].off - 1
    BY <1>1, <1>4
  <2>2. Whole(s, ps, b, n)
    BY <1>5, <2>1 DEF WholeSoFar
  <2>3. Joined(s, ps, b, n + 1)
    BY <1>3, <2>2, JoinsOn DEF Whole
  <2>4. \A h \in b .. (n + 1) - 1 : h \in b .. n - 1 \/ h = n
    BY <1>1
  <2>5. \A h \in b .. (n + 1) - 1 : HitsAt(ps, s, h) = {}
    BY <1>2, <2>2, <2>4 DEF Whole
  <2> QED
    BY <2>2, <2>3, <2>5 DEF Whole
<1>6. CASE ~(b < n)
  <2>1. b = n /\ \A h \in b .. (n + 1) - 1 : h = n
    BY <1>1, <1>6
  <2> QED
    BY <1>2, <1>3, <2>1 DEF Whole
<1> QED
  BY <1>5, <1>6

\* The end of a replacement that is skipped is in no other one, and so is what
\* follows a name that is replaced.
LEMMA EndsApart ==
    ASSUME NEW s \in Characters, NEW ps, ArePatterns(ps), Apart(ps),
           NEW n \in Reached(s, ps), n \in 1 .. Len(s), FindAt(ps, s, n) # 0,
           WholeSoFar(s, ps, n)
    PROVE  WholeSoFar(s, ps, NextAt(ps, s, n))
<1> DEFINE p == Hit(ps, s, n)
           l == NextAt(ps, s, n)
<1>1. Len(s) \in Nat /\ n \in Nat /\ n >= 1 /\ n <= Len(s) /\ n \in 1 .. Len(s) + 1
  BY LenProperties DEF Characters
<1>2. /\ FindAt(ps, s, n) \in DOMAIN ps /\ IsPattern(p) /\ Lies(p.src, s, n)
      /\ Len(p.src) \in Nat \ {0} /\ l \in n + 1 .. Len(s) + 1
  BY FoundIs, NextFits DEF IsPattern
<1> SUFFICES ASSUME NEW g \in DOMAIN ps, NEW b \in 1 .. Len(s), b < l,
                    l <= b + ps[g].off - 1, Stands(ps[g].dst, s, b)
             PROVE  FALSE
  BY DEF WholeSoFar
<1> DEFINE x == ps[g]
<1>3. /\ IsPattern(x) /\ x.off \in Nat /\ Len(x.dst) \in Nat
      /\ x.off # 0 => x.off <= Len(x.dst)
      /\ b \in Nat \ {0} /\ b < l /\ l <= b + x.off - 1 /\ Stands(x.dst, s, b)
  BY <1>1, EachIsPattern, OffIs
<1>5. ~Splices(p, x) /\ ~Obscures(p, x)
  BY <1>2 DEF Apart, Hit
<1>p. p = ps[FindAt(ps, s, n)]
  BY DEF Hit
<1> HIDE DEF p, l, x
<1>4. x.off > 1 /\ b + Len(x.dst) > l /\ l \in Nat /\ n < l
  BY <1>1, <1>2, <1>3
<1>6. \/ n + Len(p.src) <= b
      \/ b <= n /\ p.dst = x.dst /\ Lies(p.src, x.dst, n - b + 1)
  <2>1. \/ n + Len(p.src) <= b
        \/ b + Len(x.dst) <= n
        \/ b <= n /\ p.dst = x.dst /\ Lies(p.src, x.dst, n - b + 1)
    BY <1>2, <1>3, <1>5, KeepsOff
  <2> QED
    BY <1>1, <1>2, <1>3, <1>4, <2>1
<1>7. CASE ~Replaces(ps, s, n)
  <2> DEFINE start == n + 1 - p.off
  <2>1. AlreadyTarget(s, n, p) > 0
    BY <1>7 DEF Replaces, p
  <2>2. /\ p.off > 0 /\ start > 0 /\ Stands(p.dst, s, start)
        /\ AlreadyTarget(s, n, p) = Len(p.dst) + 1 - p.off
        /\ p.off \in Nat /\ Len(p.dst) \in Nat
    BY <1>2, <2>1, TargetIs, OffIs
  <2>3. l = n + AlreadyTarget(s, n, p)
    BY <2>1 DEF NextAt, l, p
  <2>4. l = start + Len(p.dst) /\ start \in Nat \ {0} /\ start <= n
    BY <1>1, <2>2, <2>3
  <2> HIDE DEF start
  <2>5. CASE start < b
    <3>1. b < start + Len(p.dst) /\ x.off > 0
      BY <1>3, <1>4, <2>4
    <3>2. b + Len(x.dst) <= start + Len(p.dst)
      BY <1>2, <1>3, <1>5, <2>2, <2>5, <3>1, DoNotOverlap
    <3> QED
      BY <1>1, <1>2, <1>3, <1>4, <2>2, <2>4, <3>2
  <2>6. CASE ~(start < b)
    <3>1. ~(n + Len(p.src) <= b)
      BY <1>1, <1>2, <2>4, <2>6
    <3>2. p.dst = x.dst
      BY <1>6, <3>1
    <3> QED
      BY <1>1, <1>2, <1>3, <1>4, <2>2, <2>4, <2>6, <3>2
  <2> QED
    BY <2>5, <2>6
<1>8. CASE Replaces(ps, s, n)
  <2> DEFINE end == Behind(ps, s, n)
  <2>1. l = end + TrailingDate(s, end) /\ end = n + Len(p.src)
    BY <1>8, ReplaceWrites DEF Behind, l, p
  <2>2. end \in 1 .. Len(s) + 1
    <3>1. end \in n + 1 .. Len(s) + 1
      BY <1>8, HitShape DEF Replaces
    <3> QED
      BY <1>1, <3>1
  <2>3. TrailingDate(s, end) \in Nat
    BY <2>2, DateFits
  <2> HIDE DEF end
  <2>4. CASE n + Len(p.src) <= b
    <3>1. b \in end .. end + TrailingDate(s, end) - 1
      BY <1>1, <2>1, <2>2, <2>3, <2>4
    <3>2. s[b] \in Digits \cup {"-"}
      BY <2>2, <3>1, DateLetters
    <3>3. 1 \in 1 .. Len(x.dst) /\ b + 1 - 1 = b
      BY <1>3, <1>4
    <3>4. s[b + 1 - 1] = x.dst[1]
      BY <1>3, <3>3 DEF Stands
    <3>5. x.dst[1] \in Digits \cup {"-"}
      BY <3>2, <3>3, <3>4
    <3> QED
      BY <1>4, <1>5, <3>5 DEF Obscures
  <2>5. CASE b <= n /\ p.dst = x.dst /\ Lies(p.src, x.dst, n - b + 1)
    <3>1. /\ p.off \in Nat /\ p.off # 0 /\ p.off <= n - b + 1
          /\ Lies(p.src, p.dst, p.off) /\ Stands(p.dst, s, b)
      BY <1>2, <1>3, <2>5, OffIs
    <3>2. CASE p.off = n - b + 1
      <4>1. n + 1 - p.off = b /\ p.off > 0 /\ b > 0
        BY <1>1, <1>3, <3>1, <3>2
      <4>2. AlreadyTarget(s, n, p) > 0
        BY <1>2, <3>1, <4>1, TargetIs
      <4> QED
        BY <1>8, <4>2 DEF Replaces, p
    <3>3. CASE p.off # n - b + 1
      <4> DEFINE h == b + p.off - 1
      <4>1. b < n /\ h \in b .. n - 1 /\ h \in 1 .. Len(s) + 1
        BY <1>1, <1>3, <3>1, <3>3
      <4>2. Lies(p.src, s, h)
        BY <1>2, <3>1, LiesInside
      <4> HIDE DEF h
      <4>3. FindAt(ps, s, n) \in HitsAt(ps, s, h)
        BY <1>2, <1>p, <4>1, <4>2, HitsAre
      <4>4. n <= b + x.off - 1
        BY <1>1, <1>2, <1>3
      <4>5. Whole(s, ps, b, n)
        BY <1>3, <4>1, <4>4 DEF WholeSoFar, x
      <4> QED
        BY <4>1, <4>3, <4>5 DEF Whole
    <3> QED
      BY <3>2, <3>3
  <2> QED
    BY <1>6, <2>4, <2>5
<1> QED
  BY <1>7, <1>8

LEMMA AllWhole ==
    ASSUME NEW s \in Characters, NEW ps, ArePatterns(ps), Apart(ps)
    PROVE  \A n \in Reached(s, ps) : WholeSoFar(s, ps, n)
<1> DEFINE S == {n \in 1 .. Len(s) + 1 : WholeSoFar(s, ps, n)}
<1>1. Len(s) \in Nat /\ 1 \in 1 .. Len(s) + 1
  BY LenProperties DEF Characters
<1>2. 1 \in S
  <2>1. \A b \in 1 .. Len(s) : ~(b < 1)
    BY <1>1
  <2> QED
    BY <1>1, <2>1 DEF WholeSoFar
<1>3. ASSUME NEW n \in Reached(s, ps) \cap S, n <= Len(s)
      PROVE  NextAt(ps, s, n) \in S
  <2>1. n \in 1 .. Len(s) /\ NextAt(ps, s, n) \in Reached(s, ps) /\ WholeSoFar(s, ps, n)
    BY <1>3, ReachedIs
  <2>2. NextAt(ps, s, n) \in 1 .. Len(s) + 1
    BY <2>1, ReachedIs
  <2>3. CASE FindAt(ps, s, n) = 0
    <3>1. NextAt(ps, s, n) = n + 1
      BY <2>3 DEF NextAt
    <3> QED
      BY <2>1, <2>2, <2>3, <3>1, PassedOver
  <2>4. CASE FindAt(ps, s, n) # 0
    BY <2>1, <2>2, <2>4, EndsApart
  <2> QED
    BY <2>3, <2>4
<1> HIDE DEF S
<1>4. Reached(s, ps) \subseteq S
  BY <1>2, <1>3, ReachedOnly
<1> QED
  BY <1>4 DEF S

----------------------------------------------------------------------------
(* A second pass                                                           *)

LEMMA PlaceFacts ==
    ASSUME NEW s \in Characters, NEW ps, ArePatterns(ps), NEW n \in Reached(s, ps)
    PROVE  LET r == Rest(s, ps)
               v == PlaceOf(s, ps, n)
           IN  /\ n \in 1 .. Len(s) + 1 /\ r[1] \in Characters /\ Len(r[1]) \in Nat
               /\ r[n] \in Characters /\ Len(r[n]) \in Nat
               /\ v \in Nat \ {0} /\ v + Len(r[n]) = Len(r[1]) + 1
               /\ \A e \in 1 .. Len(r[n]) : r[1][v + e - 1] = r[n][e]
<1>1. n \in 1 .. Len(s) + 1 /\ 1 \in 1 .. Len(s) + 1 /\ Aligned(s, ps, n)
  BY ReachedIs, PlacesAligned
<1>2. /\ Rest(s, ps)[1] \in Characters /\ Len(Rest(s, ps)[1]) \in Nat
      /\ Rest(s, ps)[n] \in Characters /\ Len(Rest(s, ps)[n]) \in Nat
  BY <1>1, RestHas
<1> DEFINE v == PlaceOf(s, ps, n)
           W == Len(Rest(s, ps)[1])
           L == Len(Rest(s, ps)[n])
<1>3. v = W + 1 - L /\ v \in 1 .. W + 1 /\ W \in Nat /\ L \in Nat
  BY <1>1, <1>2 DEF Aligned, PlaceOf
<1> HIDE DEF v, W, L
<1>4. v \in Nat \ {0} /\ v + L = W + 1
  BY <1>3
<1> QED
  BY <1>1, <1>2, <1>4 DEF Aligned, v, W, L

LEMMA NameIsInRest ==
    ASSUME NEW s \in Characters, NEW ps, ArePatterns(ps), NEW n \in Reached(s, ps),
           NEW x \in Folded, Lies(x, Rest(s, ps)[1], PlaceOf(s, ps, n))
    PROVE  Lies(x, Rest(s, ps)[n], 1)
<1> DEFINE w == Rest(s, ps)[1]
           t == Rest(s, ps)[n]
           v == PlaceOf(s, ps, n)
<1>1. /\ Len(w) \in Nat /\ Len(t) \in Nat /\ v \in Nat \ {0} /\ v + Len(t) = Len(w) + 1
      /\ \A e \in 1 .. Len(t) : w[v + e - 1] = t[e]
  BY PlaceFacts
<1>2. v + Len(x) <= Len(w) + 1 /\ \A e \in 1 .. Len(x) : Lower[w[v + e - 1]] = x[e]
  BY DEF Lies
<1>3. Len(x) \in Nat
  BY LenProperties DEF Folded
<1> HIDE DEF w, t, v
<1>4. 1 + Len(x) <= Len(t) + 1
  BY <1>1, <1>2, <1>3
<1>5. ASSUME NEW e \in 1 .. Len(x) PROVE Lower[t[1 + e - 1]] = x[e]
  <2>1. e \in 1 .. Len(t) /\ 1 + e - 1 = e
    BY <1>1, <1>3, <1>4
  <2> QED
    BY <1>1, <1>2, <2>1
<1> QED
  BY <1>4, <1>5 DEF Lies, t

LEMMA TextIsInWhole ==
    ASSUME NEW s \in Characters, NEW ps, ArePatterns(ps), NEW n \in Reached(s, ps),
           NEW x \in Characters, Stands(x, Rest(s, ps)[n], 1)
    PROVE  Stands(x, Rest(s, ps)[1], PlaceOf(s, ps, n))
<1> DEFINE w == Rest(s, ps)[1]
           t == Rest(s, ps)[n]
           v == PlaceOf(s, ps, n)
<1>1. /\ Len(w) \in Nat /\ Len(t) \in Nat /\ v \in Nat \ {0} /\ v + Len(t) = Len(w) + 1
      /\ \A e \in 1 .. Len(t) : w[v + e - 1] = t[e]
  BY PlaceFacts
<1>2. 1 + Len(x) <= Len(t) + 1 /\ \A e \in 1 .. Len(x) : t[1 + e - 1] = x[e]
  BY DEF Stands
<1>3. Len(x) \in Nat
  BY LenProperties DEF Characters
<1> HIDE DEF w, t, v
<1>4. v + Len(x) <= Len(w) + 1
  BY <1>1, <1>2, <1>3
<1>5. ASSUME NEW e \in 1 .. Len(x) PROVE w[v + e - 1] = x[e]
  <2>1. e \in 1 .. Len(t) /\ 1 + e - 1 = e
    BY <1>1, <1>2, <1>3
  <2> QED
    BY <1>1, <1>2, <2>1
<1> QED
  BY <1>1, <1>4, <1>5 DEF Stands, w, v

LEMMA PlaceOfJoined ==
    ASSUME NEW s \in Characters, NEW ps, ArePatterns(ps), NEW a \in Reached(s, ps),
           NEW b, Joined(s, ps, a, b)
    PROVE  PlaceOf(s, ps, b) = PlaceOf(s, ps, a) + (b - a)
<1> DEFINE r == Rest(s, ps)
           A == Len(r[a])
           B == Len(r[b])
           W == Len(r[1])
<1>1. Len(s) \in Nat /\ a \in 1 .. Len(s) + 1 /\ b \in a .. Len(s) + 1 /\ A = b - a + B
  BY ReachedIs, LenProperties DEF Joined, Characters
<1>2. b \in 1 .. Len(s) + 1 /\ 1 \in 1 .. Len(s) + 1
  BY <1>1
<1>3. A \in Nat /\ B \in Nat /\ W \in Nat
  BY <1>1, <1>2, RestHas
<1> HIDE DEF A, B, W
<1>4. W + 1 - B = (W + 1 - A) + (b - a)
  BY <1>1, <1>3
<1> QED
  BY <1>4 DEF PlaceOf, A, B, W

\* What is skipped is found again, whole.
LEMMA SkippedAgain ==
    ASSUME NEW s \in Characters, NEW ps, ArePatterns(ps), Apart(ps),
           NEW n \in Reached(s, ps), n \in 1 .. Len(s), FindAt(ps, s, n) # 0,
           ~Replaces(ps, s, n)
    PROVE  LET p == Hit(ps, s, n)
               w == Rest(s, ps)[1]
               v == PlaceOf(s, ps, n)
           IN  /\ p.off > 0 /\ v + 1 - p.off > 0 /\ Stands(p.dst, w, v + 1 - p.off)
               /\ Lies(p.src, w, v)
               /\ NextAt(ps, s, n) - n = Len(p.dst) + 1 - p.off
<1> DEFINE p == Hit(ps, s, n)
           r == Rest(s, ps)
           w == r[1]
           v == PlaceOf(s, ps, n)
           l == NextAt(ps, s, n)
           b == n + 1 - p.off
<1>1. /\ Len(s) \in Nat /\ n \in Nat /\ n >= 1 /\ n <= Len(s)
      /\ FindAt(ps, s, n) \in DOMAIN ps /\ IsPattern(p)
  BY FoundIs, LenProperties DEF Characters
<1>2. AlreadyTarget(s, n, p) > 0 /\ l = n + AlreadyTarget(s, n, p)
  BY DEF Replaces, NextAt
<1>3. /\ p.off > 0 /\ b > 0 /\ Stands(p.dst, s, b)
      /\ AlreadyTarget(s, n, p) = Len(p.dst) + 1 - p.off
  BY <1>1, <1>2, TargetIs
<1>4. /\ p.off \in Nat /\ Len(p.dst) \in Nat /\ p.off <= Len(p.dst)
      /\ Lies(p.src, p.dst, p.off) /\ p.dst \in Characters
  BY <1>1, <1>3, OffIs DEF IsPattern
<1>5. l = b + Len(p.dst) /\ b \in 1 .. Len(s) /\ b <= n
  BY <1>1, <1>2, <1>3, <1>4
<1>6. b \in Reached(s, ps) /\ Joined(s, ps, b, n)
  <2>1. CASE b = n
    <3>1. n \in 1 .. Len(s) + 1
      BY <1>1
    <3>2. Joined(s, ps, n, n)
      BY <3>1, JoinsSelf
    <3> QED
      BY <2>1, <3>2
  <2>2. CASE b # n
    <3>1. b < n /\ n <= b + p.off - 1
      BY <1>1, <1>4, <1>5, <2>2
    <3>2. WholeSoFar(s, ps, n)
      BY AllWhole
    <3> HIDE DEF b
    <3>3. Whole(s, ps, b, n)
      BY <1>1, <1>3, <1>5, <3>1, <3>2 DEF WholeSoFar, Hit
    <3> QED
      BY <3>3 DEF Whole
  <2> QED
    BY <2>1, <2>2
<1>7. Joined(s, ps, b, l)
  <2>1. Joined(s, ps, n, l)
    BY CopyJoins
  <2> QED
    BY <1>6, <2>1, JoinsOn
<1>8. PlaceOf(s, ps, n) = PlaceOf(s, ps, b) + (n - b)
  BY <1>6, PlaceOfJoined
<1>9. PlaceOf(s, ps, b) \in Nat \ {0}
  BY <1>6, PlaceFacts
<1>10. PlaceOf(s, ps, b) = v + 1 - p.off
  BY <1>1, <1>4, <1>8, <1>9
<1>w. w \in Characters
  BY PlaceFacts
<1> DEFINE dst == p.dst
<1>11. Stands(dst, r[b], 1)
  <2>1. /\ Len(r[b]) = l - b + Len(r[l]) /\ \A e \in 1 .. l - b : r[b][e] = s[b + e - 1]
        /\ l \in b .. Len(s) + 1
    BY <1>7 DEF Joined
  <2>2. l \in 1 .. Len(s) + 1
    BY <1>1, <1>5, <2>1
  <2>3. Len(r[l]) \in Nat
    BY <2>2, RestHas
  <2>4. \A e \in 1 .. Len(dst) : s[b + e - 1] = dst[e]
    BY <1>3 DEF Stands
  <2>5. Len(dst) \in Nat /\ l - b = Len(dst)
    BY <1>1, <1>4, <1>5
  <2> HIDE DEF dst, r, l, b
  <2>6. \A e \in 1 .. Len(dst) : r[b][1 + e - 1] = dst[e]
    <3> TAKE e \in 1 .. Len(dst)
    <3>1. 1 + e - 1 = e /\ e \in 1 .. l - b
      BY <2>5
    <3> QED
      BY <2>1, <2>4, <3>1
  <2>7. 1 + Len(dst) <= Len(r[b]) + 1
    BY <2>1, <2>3, <2>5
  <2> QED
    BY <2>6, <2>7 DEF Stands
<1>12. Stands(dst, w, PlaceOf(s, ps, b))
  BY <1>4, <1>6, <1>11, TextIsInWhole
<1>13. Lies(p.src, w, PlaceOf(s, ps, b) + p.off - 1)
  BY <1>1, <1>4, <1>w, <1>12, LiesInside
<1>14. PlaceOf(s, ps, b) + p.off - 1 = v /\ v + 1 - p.off > 0
  BY <1>1, <1>4, <1>5, <1>8, <1>9, <1>10
<1>15. l - n = Len(p.dst) + 1 - p.off
  BY <1>1, <1>2, <1>3, <1>4
<1> QED
  BY <1>3, <1>10, <1>12, <1>13, <1>14, <1>15

\* Where something is copied the second pass goes as the first does.
LEMMA CopiedAgain ==
    ASSUME NEW s \in Characters, NEW ps, ArePatterns(ps), Apart(ps),
           NEW n \in Reached(s, ps), n \in 1 .. Len(s), ~Replaces(ps, s, n)
    PROVE  LET w == Rest(s, ps)[1]
               v == PlaceOf(s, ps, n)
           IN  /\ v \in 1 .. Len(w) /\ ~Replaces(ps, w, v)
               /\ NextAt(ps, w, v) = PlaceOf(s, ps, NextAt(ps, s, n))
<1> DEFINE r == Rest(s, ps)
           w == r[1]
           v == PlaceOf(s, ps, n)
           l == NextAt(ps, s, n)
<1>1. Len(s) \in Nat /\ n \in 1 .. Len(s) + 1
  BY LenProperties DEF Characters
<1>2. /\ w \in Characters /\ Len(w) \in Nat /\ Len(r[n]) \in Nat
      /\ v \in Nat \ {0} /\ v + Len(r[n]) = Len(w) + 1
  BY PlaceFacts
<1>3. Joined(s, ps, n, l) /\ l \in n + 1 .. Len(s) + 1
  BY CopyJoins, NextFits
<1>4. PlaceOf(s, ps, l) = v + (l - n)
  BY <1>3, PlaceOfJoined
<1>5. v \in 1 .. Len(w)
  <2>1. l \in 1 .. Len(s) + 1
    BY <1>1, <1>3
  <2>2. Len(r[n]) = l - n + Len(r[l]) /\ Len(r[l]) \in Nat
    BY <1>3, <2>1, RestHas DEF Joined
  <2> HIDE DEF r, v, l, w
  <2> QED
    BY <1>1, <1>2, <1>3, <2>2
<1>6. v \in 1 .. Len(w) + 1
  BY <1>2
<1>7. ASSUME NEW j \in HitsAt(ps, w, v) PROVE j \in HitsAt(ps, s, n)
  <2>1. j \in DOMAIN ps /\ Lies(ps[j].src, w, v)
    BY <1>2, <1>6, HitsAre
  <2>2. ps[j].src \in Folded
    BY <2>1 DEF ArePatterns
  <2>3. Lies(ps[j].src, r[n], 1)
    BY <2>1, <2>2, NameIsInRest
  <2>4. Lies(ps[j].src, s, n)
    BY <2>1, <2>3, NoNewName
  <2> QED
    BY <1>1, <2>1, <2>4, HitsAre
<1>8. CASE FindAt(ps, s, n) = 0
  <2>1. HitsAt(ps, s, n) = {}
    BY <1>1, <1>8, FindAtIs
  <2>2. HitsAt(ps, w, v) = {}
    BY <1>7, <2>1
  <2>3. FindAt(ps, w, v) = 0
    BY <1>2, <1>6, <2>2, FindAtIs
  <2>4. NextAt(ps, w, v) = v + 1 /\ ~Replaces(ps, w, v)
    BY <2>3 DEF NextAt, Replaces
  <2>5. l = n + 1
    BY <1>8 DEF NextAt
  <2>6. v + (l - n) = v + 1
    BY <1>1, <1>2, <2>5
  <2> QED
    BY <1>4, <1>5, <2>4, <2>6
<1>9. CASE FindAt(ps, s, n) # 0
  <2> DEFINE p == Hit(ps, s, n)
             f == FindAt(ps, s, n)
             g == FindAt(ps, w, v)
  <2>1. /\ p.off > 0 /\ v + 1 - p.off > 0 /\ Stands(p.dst, w, v + 1 - p.off)
        /\ Lies(p.src, w, v) /\ l - n = Len(p.dst) + 1 - p.off
    BY <1>9, SkippedAgain
  <2>2. f \in DOMAIN ps /\ IsPattern(p)
    BY <1>9, FoundIs
  <2>3. f \in HitsAt(ps, w, v)
    BY <1>2, <1>6, <2>1, <2>2, HitsAre DEF Hit
  <2>4. g # 0 /\ g \in HitsAt(ps, w, v) /\ g <= f /\ g \in Nat
    <3>1. g # 0
      BY <1>2, <1>6, <2>3, FindAtIs
    <3> QED
      BY <1>2, <1>6, <2>3, <3>1, FindAtIs
  <2>5. g \in HitsAt(ps, s, n)
    BY <1>7, <2>4
  <2>6. f <= g /\ f \in Nat
    BY <1>1, <1>9, <2>5, FindAtIs
  <2>7. g = f
    <3> HIDE DEF f, g
    <3> QED
      BY <2>4, <2>6
  <2>8. Hit(ps, w, v) = p
    BY <2>7 DEF Hit
  <2>9. AlreadyTarget(w, v, p) > 0 /\ AlreadyTarget(w, v, p) = Len(p.dst) + 1 - p.off
    BY <1>2, <1>5, <2>1, <2>2, TargetIs
  <2>10. NextAt(ps, w, v) = v + (l - n) /\ ~Replaces(ps, w, v)
    BY <2>1, <2>4, <2>8, <2>9 DEF NextAt, Replaces
  <2> QED
    BY <1>4, <1>5, <2>10
<1> QED
  BY <1>8, <1>9

\* In what has replaced a name, before the first name that is found there.
InReplacement(s, ps, n, v) ==
    LET w == Rest(s, ps)[1]
        b == PlaceOf(s, ps, n)
    IN  /\ n \in 1 .. Len(s) /\ Replaces(ps, s, n)
        /\ v \in b .. b + Len(Hit(ps, s, n).dst) - 1
        /\ \A h \in b .. v - 1 : HitsAt(ps, w, h) = {}

\* Where the second pass may come to.
Followed(s, ps) ==
    {v \in 1 .. Len(Rest(s, ps)[1]) + 1 :
        \E n \in Reached(s, ps) : v = PlaceOf(s, ps, n) \/ InReplacement(s, ps, n, v)}

\* A replacement lies whole in what is made of the text, and is not empty.
LEMMA ReplacementStands ==
    ASSUME NEW s \in Characters, NEW ps, ArePatterns(ps), Apart(ps),
           NEW n \in Reached(s, ps), n \in 1 .. Len(s), Replaces(ps, s, n)
    PROVE  LET q == Hit(ps, s, n)
               b == PlaceOf(s, ps, n)
           IN  /\ IsPattern(q) /\ FindAt(ps, s, n) \in DOMAIN ps
               /\ Len(q.dst) \in Nat \ {0} /\ Stands(q.dst, Rest(s, ps)[1], b)
               /\ PlaceOf(s, ps, NextAt(ps, s, n)) = b + Len(q.dst)
               /\ NextAt(ps, s, n) \in Reached(s, ps)
<1> DEFINE q == Hit(ps, s, n)
           r == Rest(s, ps)
           b == PlaceOf(s, ps, n)
           l == NextAt(ps, s, n)
           dst == q.dst
<1>1. IsPattern(q) /\ FindAt(ps, s, n) \in DOMAIN ps /\ q = ps[FindAt(ps, s, n)]
  BY FoundIs DEF Replaces, Hit
<1>2. /\ dst \in Characters /\ Len(dst) \in Nat /\ Stands(dst, r[n], 1)
      /\ Len(r[n]) = Len(dst) + Len(r[l])
  BY ReplaceWrites
<1>3. Stands(dst, r[1], b)
  BY <1>2, TextIsInWhole
<1>4. l \in Reached(s, ps)
  <2>1. n <= Len(s)
    BY LenProperties DEF Characters
  <2> QED
    BY <2>1, ReachedIs
<1>5. PlaceOf(s, ps, l) = b + Len(dst)
  <2>1. b + Len(r[n]) = Len(r[1]) + 1 /\ b \in Nat /\ Len(r[n]) \in Nat /\ Len(r[1]) \in Nat
    BY PlaceFacts
  <2>2. PlaceOf(s, ps, l) + Len(r[l]) = Len(r[1]) + 1 /\ PlaceOf(s, ps, l) \in Nat /\ Len(r[l]) \in Nat
    BY <1>4, PlaceFacts
  <2> DEFINE d == PlaceOf(s, ps, l)
  <2> HIDE DEF b, d, dst, r, l
  <2> QED
    BY <1>2, <2>1, <2>2 DEF d
<1>6. Len(dst) # 0
  <2> SUFFICES ASSUME Len(dst) = 0 PROVE FALSE
    OBVIOUS
  <2> DEFINE F == Fold(dst)
             src == q.src
  <2>1. F \in Folded /\ Len(F) = 0
    BY <1>2, FoldOf
  <2>2. src \in Folded /\ Len(src) \in Nat \ {0}
    BY <1>1 DEF IsPattern
  <2>3. ~(Len(F) < Len(src) /\ Within(F, src))
    BY <1>1 DEF Apart, Splices
  <2> HIDE DEF F, src
  <2>4. 1 \in 1 .. Len(src) /\ 1 + Len(F) <= Len(src) + 1 /\ Len(F) < Len(src)
    BY <2>1, <2>2
  <2>5. \A e \in 1 .. Len(F) : src[1 + e - 1] = F[e]
    BY <2>1
  <2>6. Within(F, src)
    BY <2>1, <2>2, <2>4, <2>5, WithinIs DEF Folded
  <2> QED
    BY <2>3, <2>4, <2>6
<1> QED
  BY <1>1, <1>2, <1>3, <1>4, <1>5, <1>6

LEMMA ReplacedAgain ==
    ASSUME NEW s \in Characters, NEW ps, ArePatterns(ps), Apart(ps),
           NEW n \in Reached(s, ps), NEW v, InReplacement(s, ps, n, v)
    PROVE  LET w == Rest(s, ps)[1]
           IN  /\ v \in 1 .. Len(w) /\ ~Replaces(ps, w, v)
               /\ \/ NextAt(ps, w, v) = PlaceOf(s, ps, NextAt(ps, s, n))
                  \/ InReplacement(s, ps, n, NextAt(ps, w, v))
               /\ NextAt(ps, s, n) \in Reached(s, ps)
<1> DEFINE q == Hit(ps, s, n)
           w == Rest(s, ps)[1]
           b == PlaceOf(s, ps, n)
           D == Len(q.dst)
<1>1. /\ n \in 1 .. Len(s) /\ Replaces(ps, s, n) /\ v \in b .. b + D - 1
      /\ \A h \in b .. v - 1 : HitsAt(ps, w, h) = {}
  BY DEF InReplacement
<1>2. /\ IsPattern(q) /\ FindAt(ps, s, n) \in DOMAIN ps /\ q = ps[FindAt(ps, s, n)]
      /\ D \in Nat \ {0} /\ Stands(q.dst, w, b)
      /\ PlaceOf(s, ps, NextAt(ps, s, n)) = b + D
      /\ NextAt(ps, s, n) \in Reached(s, ps)
  BY <1>1, ReplacementStands DEF Hit
<1>3. w \in Characters /\ Len(w) \in Nat /\ b \in Nat \ {0}
  BY PlaceFacts
<1>4. b + D <= Len(w) + 1
  BY <1>2 DEF Stands
<1> DEFINE next == PlaceOf(s, ps, NextAt(ps, s, n))
<1> HIDE DEF w, b, D, next
<1>5. v \in 1 .. Len(w) /\ v \in 1 .. Len(w) + 1 /\ v \in Nat
  BY <1>1, <1>2, <1>3, <1>4
<1>6. CASE FindAt(ps, w, v) = 0
  <2>1. ~Replaces(ps, w, v) /\ NextAt(ps, w, v) = v + 1
    BY <1>6 DEF Replaces, NextAt
  <2>2. HitsAt(ps, w, v) = {}
    BY <1>3, <1>5, <1>6, FindAtIs
  <2>3. CASE v = b + D - 1
    <3>1. v + 1 = next
      BY <1>2, <1>3, <2>3 DEF next
    <3> QED
      BY <1>2, <1>5, <2>1, <3>1 DEF next, w
  <2>4. CASE v # b + D - 1
    <3>1. v + 1 \in b .. b + D - 1
      BY <1>1, <1>2, <1>3, <2>4
    <3>2. \A h \in b .. (v + 1) - 1 : h \in b .. v - 1 \/ h = v
      BY <1>1, <1>2, <1>3
    <3>3. \A h \in b .. (v + 1) - 1 : HitsAt(ps, w, h) = {}
      BY <1>1, <2>2, <3>2
    <3>4. InReplacement(s, ps, n, v + 1)
      BY <1>1, <3>1, <3>3 DEF InReplacement, b, D, w
    <3> QED
      BY <1>2, <1>5, <2>1, <3>4 DEF w
  <2> QED
    BY <2>3, <2>4
<1>7. CASE FindAt(ps, w, v) # 0
  <2> DEFINE p == Hit(ps, w, v)
  <2>1. /\ FindAt(ps, w, v) \in DOMAIN ps /\ p = ps[FindAt(ps, w, v)]
        /\ IsPattern(p) /\ Lies(p.src, w, v)
    BY <1>3, <1>5, <1>7, FoundIs DEF Hit
  <2>2. ~Splices(p, q) /\ Len(p.src) \in Nat \ {0}
    BY <1>2, <2>1 DEF Apart, IsPattern
  <2>3. \/ v + Len(p.src) <= b
        \/ b + D <= v
        \/ p.dst = q.dst /\ Lies(p.src, q.dst, v - b + 1)
    BY <1>2, <1>3, <2>1, <2>2, KeepsOff DEF D
  <2> HIDE DEF p
  <2>4. p.dst = q.dst /\ Lies(p.src, p.dst, v - b + 1)
    BY <1>1, <1>2, <1>3, <2>2, <2>3
  <2>5. /\ p.off \in Nat \ {0} /\ p.off <= v - b + 1 /\ p.off <= Len(p.dst)
        /\ Lies(p.src, p.dst, p.off)
    BY <2>1, <2>4, OffIs
  <2>6. Stands(p.dst, w, b)
    BY <1>2, <2>4
  <2>7. p.off = v - b + 1
    <3> SUFFICES ASSUME p.off # v - b + 1 PROVE FALSE
      OBVIOUS
    <3> DEFINE h == b + p.off - 1
    <3>1. h \in b .. v - 1 /\ h \in 1 .. Len(w) + 1
      BY <1>3, <1>5, <2>5
    <3>2. Lies(p.src, w, h)
      BY <1>3, <2>1, <2>5, <2>6, LiesInside
    <3> HIDE DEF h
    <3>3. FindAt(ps, w, v) \in HitsAt(ps, w, h)
      BY <1>3, <2>1, <3>1, <3>2, HitsAre
    <3> QED
      BY <1>1, <3>1, <3>3
  <2>8. v + 1 - p.off = b /\ p.off > 0 /\ b > 0
    BY <1>3, <1>5, <2>5, <2>7
  <2>9. AlreadyTarget(w, v, p) > 0 /\ AlreadyTarget(w, v, p) = Len(p.dst) + 1 - p.off
    BY <1>3, <1>5, <2>1, <2>6, <2>8, TargetIs
  <2>10. ~Replaces(ps, w, v) /\ NextAt(ps, w, v) = v + (Len(p.dst) + 1 - p.off)
    BY <1>7, <2>9 DEF Replaces, NextAt, p
  <2>11. Len(p.dst) = D
    BY <2>4 DEF D
  <2>12. v + (Len(p.dst) + 1 - p.off) = next
    BY <1>2, <1>3, <1>5, <2>7, <2>11 DEF next
  <2> QED
    BY <1>2, <1>5, <2>10, <2>12 DEF next, w
<1> QED
  BY <1>6, <1>7

\* Of a text of which nothing is replaced.
Final(u, ps) == \A v \in Reached(u, ps) : v <= Len(u) => ~Replaces(ps, u, v)

LEMMA PassIsFinal ==
    ASSUME NEW s \in Characters, NEW ps, ArePatterns(ps), Apart(ps)
    PROVE  Final(Rest(s, ps)[1], ps)
<1> DEFINE w == Rest(s, ps)[1]
           S == Followed(s, ps)
<1>1. Len(s) \in Nat /\ 1 \in 1 .. Len(s) + 1 /\ 1 \in Reached(s, ps)
  BY ReachedIs, LenProperties DEF Characters
<1>2. w \in Characters /\ Len(w) \in Nat
  BY <1>1, PlaceFacts
<1>3. \A n \in Reached(s, ps) : PlaceOf(s, ps, n) \in 1 .. Len(w) + 1
  BY PlacesAligned DEF Aligned
<1>4. 1 \in S
  <2>1. Len(w) + 1 - Len(w) = 1 /\ 1 \in 1 .. Len(w) + 1
    BY <1>2
  <2>2. PlaceOf(s, ps, 1) = 1
    BY <2>1 DEF PlaceOf
  <2> QED
    BY <1>1, <2>1, <2>2 DEF Followed
<1>5. ASSUME NEW v \in S, v <= Len(w)
      PROVE  ~Replaces(ps, w, v) /\ NextAt(ps, w, v) \in S
  <2>1. PICK n \in Reached(s, ps) : v = PlaceOf(s, ps, n) \/ InReplacement(s, ps, n, v)
    BY DEF Followed
  <2>2. n \in 1 .. Len(s) + 1
    BY ReachedIs
  <2>3. CASE InReplacement(s, ps, n, v)
    <3>1. /\ v \in 1 .. Len(w) /\ ~Replaces(ps, w, v)
          /\ \/ NextAt(ps, w, v) = PlaceOf(s, ps, NextAt(ps, s, n))
             \/ InReplacement(s, ps, n, NextAt(ps, w, v))
          /\ NextAt(ps, s, n) \in Reached(s, ps)
      BY <2>3, ReplacedAgain
    <3> HIDE DEF w
    <3>2. NextAt(ps, w, v) \in 1 .. Len(w) + 1
      <4>1. NextAt(ps, w, v) \in v + 1 .. Len(w) + 1
        BY <1>2, <3>1, NextFits
      <4> QED
        BY <1>2, <3>1, <4>1
    <3> QED
      BY <3>1, <3>2 DEF Followed, w
  <2>4. CASE v = PlaceOf(s, ps, n) /\ n = Len(s) + 1
    <3>1. Len(Rest(s, ps)[n]) = 0
      BY <2>4, RestHas
    <3>2. v = Len(w) + 1
      BY <1>2, <2>4, <3>1 DEF PlaceOf
    <3> HIDE DEF w
    <3> QED
      BY <1>2, <1>5, <3>2
  <2>5. CASE v = PlaceOf(s, ps, n) /\ n \in 1 .. Len(s) /\ ~Replaces(ps, s, n)
    <3>1. ~Replaces(ps, w, v) /\ NextAt(ps, w, v) = PlaceOf(s, ps, NextAt(ps, s, n))
      BY <2>5, CopiedAgain
    <3>2. NextAt(ps, s, n) \in Reached(s, ps)
      <4>1. n <= Len(s)
        BY <1>1, <2>5
      <4> QED
        BY <4>1, ReachedIs
    <3> QED
      BY <1>3, <3>1, <3>2 DEF Followed
  <2>6. CASE v = PlaceOf(s, ps, n) /\ n \in 1 .. Len(s) /\ Replaces(ps, s, n)
    <3> DEFINE D == Len(Hit(ps, s, n).dst)
    <3>1. D \in Nat \ {0}
      BY <2>6, ReplacementStands
    <3>2. v \in Nat
      BY <1>2, <1>3, <2>6
    <3> HIDE DEF D
    <3>3. v \in v .. v + D - 1 /\ \A h \in v .. v - 1 : FALSE
      BY <3>1, <3>2
    <3>4. InReplacement(s, ps, n, v)
      BY <2>6, <3>3 DEF InReplacement, D
    <3> QED
      BY <2>3, <3>4
  <2>7. n = Len(s) + 1 \/ n \in 1 .. Len(s)
    BY <1>1, <2>2
  <2> QED
    BY <2>1, <2>3, <2>4, <2>5, <2>6, <2>7
<1> HIDE DEF S, w
<1>6. Reached(w, ps) \subseteq S
  BY <1>2, <1>4, <1>5, ReachedOnly
<1> QED
  BY <1>5, <1>6 DEF Final, w

LEMMA FinalStays ==
    ASSUME NEW u \in Characters, NEW ps, ArePatterns(ps), Final(u, ps)
    PROVE  Rest(u, ps)[1] = u
<1> DEFINE last == Len(u) + 1
           Bad == {b \in 0 .. Len(u) : last - b \in Reached(u, ps) /\ ~Joined(u, ps, last - b, last)}
           r == Rest(u, ps)
<1>1. Len(u) \in Nat /\ 1 \in 1 .. Len(u) + 1 /\ last - Len(u) = 1 /\ 1 \in Reached(u, ps)
  BY LenProperties, ReachedIs DEF Characters
<1>2. Bad \in SUBSET Nat
  BY <1>1
<1>b. \A b \in 0 .. Len(u) :
          b \notin Bad /\ last - b \in Reached(u, ps) => Joined(u, ps, last - b, last)
  OBVIOUS
<1>c. \A b \in Bad : /\ b \in 0 .. Len(u) /\ last - b \in Reached(u, ps)
                     /\ ~Joined(u, ps, last - b, last)
  OBVIOUS
<1> HIDE DEF Bad
<1>3. ASSUME Bad # {} PROVE FALSE
  <2>1. PICK b \in Bad : \A y \in Bad : b <= y
    BY <1>2, <1>3, LeastNumber
  <2> DEFINE n == last - b
  <2>2. b \in 0 .. Len(u) /\ n \in Reached(u, ps) /\ ~Joined(u, ps, n, last)
    BY <1>c
  <2>3. n \in 1 .. Len(u) + 1
    BY <1>1, <2>2
  <2>4. CASE n = last
    BY <2>2, <2>3, <2>4, JoinsSelf
  <2>5. CASE n # last
    <3>1. n \in 1 .. Len(u) /\ n <= Len(u)
      BY <1>1, <2>3, <2>5
    <3> DEFINE l == NextAt(ps, u, n)
               c == last - l
    <3>2. ~Replaces(ps, u, n) /\ l \in Reached(u, ps)
      BY <2>2, <3>1, ReachedIs DEF Final
    <3> HIDE DEF n
    <3>3. l \in n + 1 .. Len(u) + 1 /\ Joined(u, ps, n, l)
      BY <3>1, <3>2, NextFits, CopyJoins
    <3> HIDE DEF l
    <3>4. c \in 0 .. Len(u) /\ ~(b <= c) /\ last - c = l
      BY <1>1, <2>2, <3>1, <3>3 DEF n
    <3> HIDE DEF c, last
    <3>5. Joined(u, ps, l, last)
      BY <1>b, <2>1, <3>2, <3>4
    <3>6. Joined(u, ps, n, last)
      BY <3>3, <3>5, JoinsOn
    <3> QED
      BY <2>2, <3>6
  <2> QED
    BY <2>4, <2>5
<1>4. Joined(u, ps, 1, last)
  <2>1. Len(u) \in 0 .. Len(u) /\ Len(u) \notin Bad
    BY <1>1, <1>3
  <2> QED
    BY <1>1, <1>b, <2>1
<1>5. /\ Len(r[1]) = last - 1 + Len(r[last])
      /\ \A e \in 1 .. last - 1 : r[1][e] = u[1 + e - 1]
  BY <1>4 DEF Joined
<1>6. r[1] \in Characters /\ Len(r[last]) = 0
  BY <1>1, RestHas
<1>7. Len(r[1]) = Len(u) /\ last - 1 = Len(u)
  BY <1>1, <1>5, <1>6
<1>8. \A e \in 1 .. Len(u) : r[1][e] = u[e]
  <2> TAKE e \in 1 .. Len(u)
  <2>1. 1 + e - 1 = e
    BY <1>1
  <2> HIDE DEF r
  <2> QED
    BY <1>5, <1>7, <2>1
<1> HIDE DEF r
<1>9. r[1] = u
  BY <1>6, <1>7, <1>8, SeqEqual DEF Characters
<1> QED
  BY <1>9 DEF r

\* A name found in a text of which nothing is replaced lies in a replacement.
LEMMA FinalClean ==
    ASSUME NEW u \in Characters, NEW ps, ArePatterns(ps), Final(u, ps), Apart(ps)
    PROVE  ~Leaks(u, ps)
<1>1. Len(u) \in Nat /\ DOMAIN u = 1 .. Len(u)
  BY LenProperties DEF Characters
<1> SUFFICES ASSUME NEW j \in DOMAIN ps, NEW v \in 1 .. Len(u),
                    IsPrefix(ps[j].src, Fold(From(u, v)))
             PROVE  \E g \in DOMAIN ps, m \in 1 .. v :
                        /\ IsPrefix(ps[g].dst, From(u, m))
                        /\ v + Len(ps[j].src) <= m + Len(ps[g].dst)
  BY <1>1 DEF Leaks
<1>2. v \in 1 .. Len(u) + 1 /\ v \in Nat
  BY <1>1
<1>3. ps[j].src \in Folded /\ IsPattern(ps[j]) /\ Len(ps[j].src) \in Nat \ {0}
  BY EachIsPattern DEF IsPattern
<1>4. Lies(ps[j].src, u, v)
  BY <1>2, <1>3, LiesIs
<1> DEFINE T == {m \in Reached(u, ps) : m <= v}
<1>5. 1 \in Reached(u, ps) /\ Reached(u, ps) \subseteq 1 .. Len(u) + 1
  BY ReachedIs
<1>6. 1 \in T /\ T \in SUBSET (0 .. Len(u) + 1)
  BY <1>1, <1>2, <1>5
<1> DEFINE m == Max(T)
<1>7. m \in T /\ \A y \in T : m >= y
  <2>1. Len(u) + 1 \in Nat /\ T # {}
    BY <1>1, <1>6
  <2> HIDE DEF T
  <2> QED
    BY <1>6, <2>1, GreatestNumber
<1> HIDE DEF m
<1>8. m \in Reached(u, ps) /\ m <= v /\ m \in 1 .. Len(u) /\ m <= Len(u) /\ m \in 1 .. Len(u) + 1
  BY <1>1, <1>2, <1>5, <1>7
<1> DEFINE l == NextAt(ps, u, m)
<1>9. l \in Reached(u, ps) /\ ~Replaces(ps, u, m) /\ l \in m + 1 .. Len(u) + 1
  BY <1>8, ReachedIs, NextFits DEF Final
<1>10. l > v
  <2> HIDE DEF l
  <2>1. CASE l <= v
    <3>1. l \in T
      BY <1>9, <2>1
    <3>2. m >= l
      BY <1>7, <3>1
    <3> QED
      BY <1>8, <1>9, <3>2
  <2> QED
    BY <1>2, <1>9, <2>1
<1>11. FindAt(ps, u, m) # 0
  <2> SUFFICES ASSUME FindAt(ps, u, m) = 0 PROVE FALSE
    OBVIOUS
  <2>1. l = m + 1 /\ HitsAt(ps, u, m) = {}
    BY <1>8, FindAtIs DEF NextAt
  <2>2. m = v
    BY <1>2, <1>8, <1>10, <2>1
  <2> QED
    BY <1>2, <1>4, <2>1, <2>2, HitsAre
<1> DEFINE g == FindAt(ps, u, m)
           b == m + 1 - ps[g].off
<1>12. g \in DOMAIN ps /\ IsPattern(ps[g]) /\ ps[g] = Hit(ps, u, m)
  BY <1>8, <1>11, FoundIs DEF Hit
<1>13. AlreadyTarget(u, m, ps[g]) > 0 /\ l = m + AlreadyTarget(u, m, ps[g])
  BY <1>9, <1>11, <1>12 DEF Replaces, NextAt
<1>14. /\ ps[g].off > 0 /\ b > 0 /\ Stands(ps[g].dst, u, b)
       /\ AlreadyTarget(u, m, ps[g]) = Len(ps[g].dst) + 1 - ps[g].off
  BY <1>8, <1>12, <1>13, TargetIs
<1>15. /\ ps[g].off \in Nat /\ Len(ps[g].dst) \in Nat /\ ps[g].dst \in Characters
  BY <1>12, OffIs DEF IsPattern
<1>16. ~Splices(ps[j], ps[g])
  BY <1>12 DEF Apart
<1>17. \/ v + Len(ps[j].src) <= b
       \/ b + Len(ps[g].dst) <= v
       \/ b <= v /\ v + Len(ps[j].src) <= b + Len(ps[g].dst)
  BY <1>3, <1>4, <1>12, <1>14, <1>16, KeepsOff
<1> HIDE DEF g, l, T
<1>18. b \in 1 .. v /\ b \in 1 .. Len(u) + 1 /\ v + Len(ps[j].src) <= b + Len(ps[g].dst)
  <2> DEFINE o == ps[g].off
             D == Len(ps[g].dst)
             S == Len(ps[j].src)
  <2>1. b = m + 1 - o /\ b > 0 /\ o > 0 /\ o \in Nat /\ D \in Nat /\ S \in Nat \ {0}
    BY <1>3, <1>14, <1>15
  <2>2. l = m + (D + 1 - o)
    BY <1>13, <1>14
  <2>3. v + S <= b \/ b + D <= v \/ (b <= v /\ v + S <= b + D)
    BY <1>17
  <2> HIDE DEF o, D, S, b
  <2>4. b \in Int /\ b <= m /\ b + D > v
    BY <1>2, <1>8, <1>10, <2>1, <2>2
  <2>5. b <= v /\ v + S <= b + D
    BY <1>2, <1>8, <2>1, <2>3, <2>4
  <2>6. b \in 1 .. v /\ b \in 1 .. Len(u) + 1
    BY <1>1, <1>2, <1>8, <2>1, <2>4
  <2> QED
    BY <2>5, <2>6 DEF D, S
<1>19. IsPrefix(ps[g].dst, From(u, b))
  BY <1>14, <1>15, <1>18, StandsIs
<1> QED
  BY <1>12, <1>18, <1>19

LEMMA OnePass ==
    ASSUME NEW s \in Characters, NEW ps, ArePatterns(ps), Apart(ps)
    PROVE  LET w == Rest(s, ps)[1]
           IN  w \in Characters /\ Rest(w, ps)[1] = w /\ ~Leaks(w, ps)
<1>1. Len(s) \in Nat /\ 1 \in 1 .. Len(s) + 1
  BY LenProperties DEF Characters
<1>2. Rest(s, ps)[1] \in Characters
  BY <1>1, RestHas
<1> QED
  BY <1>2, PassIsFinal, FinalStays, FinalClean

----------------------------------------------------------------------------
(* The pass                                                                *)

\* minLen bounds the places where there can be anything at all.
LEMMA LeastLength ==
    ASSUME NEW ps, ArePatterns(ps), ps # <<>>
    PROVE  /\ MinLen(ps) \in Nat \ {0}
           /\ \A j \in DOMAIN ps : MinLen(ps) <= Len(ps[j].src)
<1> DEFINE T == {Len(ps[j].src) : j \in DOMAIN ps}
<1>1. T \subseteq Nat \ {0} /\ \A j \in DOMAIN ps : Len(ps[j].src) \in T
  BY DEF ArePatterns
<1>2. DOMAIN ps # {}
  BY DEF ArePatterns
<1>3. T # {}
  BY <1>2
<1>4. MinLen(ps) = Min(T)
  BY DEF MinLen
<1> HIDE DEF T
<1>5. Min(T) \in T /\ \A y \in T : Min(T) <= y
  BY <1>1, <1>3, LeastNumber
<1> QED
  BY <1>1, <1>4, <1>5

LEMMA RangeEnds ==
    ASSUME ArePatterns(pats), text \in Characters, i \in 1 .. Len(text) + 1
    PROVE  /\ InRange => i \in 1 .. Len(text)
           /\ ~InRange => \A n \in i .. Len(text) : FindAt(pats, text, n) = 0
<1>1. Len(text) \in Nat
  BY LenProperties DEF Characters
<1>2. CASE pats = <<>>
  <2>1. \A n : HitsAt(pats, text, n) = {}
    BY <1>2 DEF HitsAt
  <2> QED
    BY <1>2, <2>1 DEF InRange, FindAt
<1>3. CASE pats # <<>>
  <2> DEFINE M == MinLen(pats)
  <2>1. M \in Nat \ {0} /\ \A j \in DOMAIN pats : M <= Len(pats[j].src)
    BY <1>3, LeastLength
  <2>2. InRange <=> i <= Len(text) + 1 - M
    BY <1>3 DEF InRange
  <2> HIDE DEF M
  <2>3. InRange => i \in 1 .. Len(text)
    BY <1>1, <2>1, <2>2
  <2>4. ASSUME ~InRange, NEW n \in i .. Len(text) PROVE FindAt(pats, text, n) = 0
    <3> SUFFICES ASSUME FindAt(pats, text, n) # 0 PROVE FALSE
      OBVIOUS
    <3>1. n \in 1 .. Len(text) + 1 /\ n >= i
      BY <1>1, <2>4
    <3>2. PICK j \in HitsAt(pats, text, n) : TRUE
      BY <3>1, FindAtIs
    <3>3. j \in DOMAIN pats /\ IsPrefix(pats[j].src, Fold(From(text, n)))
      BY DEF HitsAt
    <3>4. Len(pats[j].src) <= Len(text) + 1 - n
      BY <3>1, <3>3, FindsFit
    <3>5. M <= Len(pats[j].src) /\ Len(pats[j].src) \in Nat
      BY <2>1, <3>3 DEF ArePatterns
    <3> QED
      BY <1>1, <2>1, <2>2, <2>4, <3>1, <3>4, <3>5
  <2> QED
    BY <2>3, <2>4
<1> QED
  BY <1>2, <1>3

\* The table of first bytes rules out no place where there is a name.
LEMMA TableIsRight ==
    ASSUME NEW s \in Characters, NEW ps, ArePatterns(ps), NEW n \in 1 .. Len(s)
    PROVE  FoundAt(ps, s, n) = FindAt(ps, s, n)
<1>1. Len(s) \in Nat /\ n \in 1 .. Len(s) + 1
  BY LenProperties DEF Characters
<1>2. CASE FindAt(ps, s, n) = 0
  BY <1>2 DEF FoundAt
<1>3. CASE FindAt(ps, s, n) # 0
  <2>1. PICK j \in HitsAt(ps, s, n) : TRUE
    BY <1>1, <1>3, FindAtIs
  <2>2. /\ j \in DOMAIN ps /\ ps[j].src \in Folded /\ Len(ps[j].src) \in Nat \ {0}
        /\ IsPrefix(ps[j].src, Fold(From(s, n)))
    BY DEF HitsAt, ArePatterns
  <2>3. From(s, n) \in Characters /\ Len(From(s, n)) = Len(s) + 1 - n
    BY <1>1, FromShape DEF Characters
  <2>4. Fold(From(s, n)) \in Folded /\ Fold(From(s, n))[1] = Lower[From(s, n)[1]]
    BY <1>1, <2>3, FoldOf
  <2>5. Fold(From(s, n))[1] = ps[j].src[1]
    BY <2>2, <2>4, PrefixIs DEF Folded
  <2>6. From(s, n)[1] = s[n]
    BY <1>1, SubSeqProperties, ElementOfSeq DEF From, Characters
  <2> QED
    BY <2>2, <2>4, <2>5, <2>6 DEF FoundAt, FirstBytes
<1> QED
  BY <1>2, <1>3

\* What has been written, what is held back and what the reference makes of the
\* rest are together what it makes of the text.
OnTheWay ==
    out \o (SubSeq(text, prev, i - 1) \o Rest(text, pats)[i]) = Rest(text, pats)[1]

\* As long as the text is the public name, and no pair is global: no hit was before
\* i, or the whole name has been skipped.
NothingReplaced ==
    /\ prev = 1 /\ out = <<>>
    /\ i = Len(text) + 1 \/ \A m \in 1 .. i - 1 : FindAt(pats, text, m) = 0

PassInv ==
    /\ ArePatterns(pats)
    /\ config.global = {} => \A j \in DOMAIN pats : pats[j].dst = config.public
    /\ text \in Characters /\ done \in BOOLEAN /\ out \in Characters
    /\ i \in 1 .. Len(text) + 1 /\ prev \in 1 .. i
    /\ IF done THEN out = Rest(text, pats)[1] ELSE OnTheWay
    /\ config.global = {} /\ text = config.public =>
          IF done THEN out = text ELSE NothingReplaced

LEMMA PassBegins ==
    ASSUME ArePatterns(pats), NEW s \in Characters
    PROVE  <<>> \o (SubSeq(s, 1, 1 - 1) \o Rest(s, pats)[1]) = Rest(s, pats)[1]
<1>1. 1 \in 1 .. Len(s) + 1
  BY LenProperties DEF Characters
<1>2. Rest(s, pats)[1] \in Characters
  BY <1>1, RestShape
<1>3. SubSeq(s, 1, 1 - 1) = <<>>
  BY SubSeqEmpty
<1> QED
  BY <1>2, <1>3, ConcatEmptySeq DEF Characters

\* A step that moves i without writing.
LEMMA GoOn ==
    ASSUME PassInv, ~done, i \in 1 .. Len(text),
           PieceAt(pats, text, i) = SubSeq(text, i, NextAt(pats, text, i) - 1)
    PROVE  LET l == NextAt(pats, text, i)
           IN  /\ l \in i + 1 .. Len(text) + 1
               /\ out \o (SubSeq(text, prev, l - 1) \o Rest(text, pats)[l])
                     = Rest(text, pats)[1]
<1> DEFINE l == NextAt(pats, text, i)
           r == Rest(text, pats)
           held == SubSeq(text, prev, i - 1)
           p == SubSeq(text, i, l - 1)
<1>1. Len(text) \in Nat /\ ArePatterns(pats) /\ text \in Characters /\ prev \in 1 .. i
  BY LenProperties DEF PassInv, Characters
<1>2. l \in i + 1 .. Len(text) + 1 /\ p \in Characters
  BY <1>1, NextFits
<1>3. r[i] = p \o r[l]
  BY <1>1, RestIs
<1>4. /\ prev \in 1 .. Len(text) + 1 /\ i \in prev .. Len(text) + 1
      /\ l \in i .. Len(text) + 1 /\ l \in 1 .. Len(text) + 1
  BY <1>1, <1>2
<1>5. held \in Characters /\ held \o p = SubSeq(text, prev, l - 1)
  BY <1>1, <1>4, PieceBefore
<1>6. r[l] \in Characters
  BY <1>1, <1>4, RestShape
<1>7. out \o (held \o r[i]) = r[1]
  BY DEF PassInv, OnTheWay
<1> HIDE DEF l, r, held, p
<1> DEFINE last == r[l]
<1>8. held \in Seq(STRING) /\ p \in Seq(STRING) /\ last \in Seq(STRING)
  BY <1>2, <1>5, <1>6 DEF Characters
<1> HIDE DEF last
<1>9. held \o (p \o last) = (held \o p) \o last
  BY <1>8, ConcatAssociative
<1> QED
  BY <1>2, <1>3, <1>5, <1>7, <1>9 DEF l, r, held, p, last

\* Where the text is the public name the first hit is in that name.
LEMMA PublicIsSkipped ==
    ASSUME PassInv, config.global = {}, text = config.public, ~done,
           i \in 1 .. Len(text), FindAt(pats, text, i) # 0
    PROVE  /\ i + AlreadyTarget(text, i, Hit(pats, text, i)) = Len(text) + 1
           /\ AlreadyTarget(text, i, Hit(pats, text, i)) > 0
<1> DEFINE p == Hit(pats, text, i)
           f == FindAt(pats, text, i)
<1>1. /\ Len(text) \in Nat /\ ArePatterns(pats) /\ text \in Characters
      /\ i \in 1 .. Len(text) + 1 /\ DOMAIN text = 1 .. Len(text)
  BY LenProperties DEF PassInv, Characters
<1>2. f \in HitsAt(pats, text, i)
  BY <1>1, FindAtIs
<1>3. f \in DOMAIN pats /\ IsPrefix(p.src, Fold(From(text, i)))
  BY <1>2 DEF HitsAt, Hit
<1>4. p.dst = text /\ p.off = FoldIndex(text, p.src)
  BY <1>3 DEF PassInv, ArePatterns, Hit
<1>5. \A m \in 1 .. i - 1 : FindAt(pats, text, m) = 0
  BY <1>1 DEF PassInv, NothingReplaced
<1>6. /\ p.off \in Nat /\ p.off # 0 /\ p.off <= i
      /\ p.off \in DOMAIN text /\ IsPrefix(p.src, Fold(From(text, p.off)))
  BY <1>1, <1>3, <1>4, IndexIs
<1>7. f \in HitsAt(pats, text, p.off)
  BY <1>3, <1>6 DEF HitsAt, Hit
<1>8. FindAt(pats, text, p.off) # 0
  <2>1. p.off \in 1 .. Len(text) + 1
    BY <1>1, <1>6
  <2> QED
    BY <1>1, <1>7, <2>1, FindAtIs
<1>9. p.off = i
  BY <1>1, <1>5, <1>6, <1>8
<1>10. i + 1 - p.off = 1
  BY <1>1, <1>9
<1>11. IsPrefix(p.dst, From(text, 1))
  <2>1. From(text, 1) = text
    BY <1>1, SubSeqFull DEF From, Characters
  <2> QED
    BY <1>1, <1>4, <2>1 DEF IsPrefix
<1>12. AlreadyTarget(text, i, p) = 1 + Len(text) - i
  BY <1>1, <1>4, <1>9, <1>10, <1>11 DEF AlreadyTarget
<1> HIDE DEF p
<1>13. 1 + Len(text) - i > 0 /\ i + (1 + Len(text) - i) = Len(text) + 1
  BY <1>1
<1> QED
  BY <1>12, <1>13 DEF p

----------------------------------------------------------------------------
(* The steps of the pass                                                   *)

\* Of no text nothing is made.
LEMMA NoText ==
    ASSUME NEW ps, ArePatterns(ps)
    PROVE  <<>> \in Characters /\ Rest(<<>>, ps)[1] = <<>>
<1>1. <<>> \in Characters /\ Len(<<>>) + 1 = 1
  BY EmptySeq DEF Characters
<1> QED
  BY <1>1, RestIs

\* The patterns stay.
Kept ==
    /\ ArePatterns(pats)
    /\ config.global = {} => \A j \in DOMAIN pats : pats[j].dst = config.public

LEMMA IdleIsPass ==
    ASSUME Kept, Idle
    PROVE  PassInv
<1>1. /\ text = <<>> /\ i = 1 /\ prev = 1 /\ out = <<>> /\ done = TRUE
      /\ ArePatterns(pats)
  BY DEF Idle, Kept
<1>2. text \in Characters /\ out \in Characters /\ out = Rest(text, pats)[1] /\ out = text
  BY <1>1, NoText
<1>3. i \in 1 .. Len(text) + 1 /\ prev \in 1 .. i
  BY <1>1
<1>4. done
  BY <1>1
<1> QED
  BY <1>1, <1>2, <1>3, <1>4 DEF PassInv, Kept

LEMMA CallKeeps ==
    ASSUME PassInv, NEW s \in Characters, Call(s)
    PROVE  PassInv'
<1>1. text' = s /\ i' = 1 /\ prev' = 1 /\ out' = <<>> /\ pats' = pats /\ config' = config
  BY DEF Call, matcher
<1>2. done' = FALSE
  BY DEF Call
<1>3. Kept'
  BY <1>1 DEF PassInv, Kept
<1>4. OnTheWay'
  BY <1>1, PassBegins DEF OnTheWay, PassInv
<1>5. NothingReplaced'
  BY <1>1 DEF NothingReplaced
<1>6. /\ text' \in Characters /\ out' \in Characters
      /\ i' \in 1 .. Len(text') + 1 /\ prev' \in 1 .. i'
  <2>1. Len(s) \in Nat /\ <<>> \in Characters
    BY LenProperties, EmptySeq DEF Characters
  <2> QED
    BY <1>1, <2>1
<1> QED
  BY <1>2, <1>3, <1>4, <1>5, <1>6 DEF PassInv, Kept

LEMMA ReturnKeeps ==
    ASSUME PassInv, Return
    PROVE  PassInv'
<1>1. /\ text' = <<>> /\ i' = 1 /\ prev' = 1 /\ out' = <<>> /\ done' = TRUE
      /\ pats' = pats /\ config' = config
  BY DEF Return, matcher
<1>2. Kept' /\ Idle'
  BY <1>1 DEF PassInv, Kept, Idle
<1>3. ArePatterns(pats')
  BY <1>2 DEF Kept
<1>4. text' \in Characters /\ out' \in Characters /\ out' = Rest(text', pats')[1] /\ out' = text'
  BY <1>1, <1>3, NoText
<1>5. i' \in 1 .. Len(text') + 1 /\ prev' \in 1 .. i'
  BY <1>1
<1>6. done'
  BY <1>1
<1> QED
  BY <1>1, <1>2, <1>4, <1>5, <1>6 DEF PassInv, Kept

\* What a step that moves i without writing leaves to show.
LEMMA MovesOn ==
    ASSUME PassInv, ~done, i \in 1 .. Len(text),
           PieceAt(pats, text, i) = SubSeq(text, i, NextAt(pats, text, i) - 1),
           i' = NextAt(pats, text, i), UNCHANGED <<matcher, text, prev, out, done>>,
           config.global = {} /\ text = config.public => NothingReplaced'
    PROVE  PassInv'
<1>1. /\ i' \in i + 1 .. Len(text) + 1
      /\ out \o (SubSeq(text, prev, i' - 1) \o Rest(text, pats)[i']) = Rest(text, pats)[1]
  BY GoOn
<1>2. /\ text' = text /\ prev' = prev /\ out' = out /\ pats' = pats /\ config' = config
      /\ ~done'
  BY DEF matcher
<1>d. done' \in BOOLEAN
  BY DEF PassInv
<1>3. OnTheWay'
  BY <1>1, <1>2 DEF OnTheWay
<1>4. Len(text) \in Nat /\ prev \in 1 .. i
  BY LenProperties DEF PassInv, Characters
<1>5. i' \in 1 .. Len(text') + 1 /\ prev' \in 1 .. i'
  BY <1>1, <1>2, <1>4
<1>6. Kept'
  BY <1>2 DEF PassInv, Kept
<1>7. text' \in Characters /\ out' \in Characters
  BY <1>2 DEF PassInv
<1> QED
  BY <1>2, <1>d, <1>3, <1>5, <1>6, <1>7 DEF PassInv, Kept

LEMMA SkipKeeps ==
    ASSUME PassInv, Skip
    PROVE  PassInv'
<1>1. /\ ~done /\ InRange /\ FindAt(pats, text, i) = 0 /\ i' = i + 1
      /\ UNCHANGED <<matcher, text, prev, out, done>>
  BY RangeEnds, TableIsRight DEF Skip, PassInv
<1>2. i \in 1 .. Len(text)
  BY <1>1, RangeEnds DEF PassInv
<1>3. NextAt(pats, text, i) = i + 1 /\ PieceAt(pats, text, i) = <<text[i]>>
  BY <1>1 DEF NextAt, PieceAt
<1>4. Len(text) \in Nat /\ text \in Seq(STRING)
  BY LenProperties DEF PassInv, Characters
<1>5. SubSeq(text, i, i) = <<text[i]>>
  <2>1. i \in 1 .. Len(text) /\ i \in i .. Len(text) /\ i + 1 > i
    BY <1>2, <1>4
  <2>2. SubSeq(text, i, i) = <<text[i]>> \o SubSeq(text, i + 1, i)
    BY <1>4, <2>1, SubSeqRecursiveFirst
  <2>3. SubSeq(text, i + 1, i) = <<>>
    BY <2>1, SubSeqEmpty
  <2>4. <<text[i]>> \in Seq(STRING)
    BY <1>2, <1>4, ElementOfSeq
  <2>5. <<text[i]>> \o <<>> = <<text[i]>>
    BY <2>4, ConcatEmptySeq
  <2> QED
    BY <2>2, <2>3, <2>5
<1>6. (i + 1) - 1 = i
  BY <1>2, <1>4
<1>7. ASSUME config.global = {}, text = config.public PROVE NothingReplaced'
  <2>1. NothingReplaced
    BY <1>1, <1>7 DEF PassInv
  <2>2. \A m \in 1 .. i - 1 : FindAt(pats, text, m) = 0
    BY <1>2, <1>4, <2>1 DEF NothingReplaced
  <2>3. \A m \in 1 .. (i + 1) - 1 : m \in 1 .. i - 1 \/ m = i
    BY <1>2, <1>4
  <2>4. \A m \in 1 .. (i + 1) - 1 : FindAt(pats, text, m) = 0
    BY <1>1, <2>2, <2>3
  <2> QED
    BY <1>1, <2>1, <2>4 DEF NothingReplaced, matcher
<1> QED
  BY <1>1, <1>2, <1>3, <1>5, <1>6, <1>7, MovesOn

LEMMA SkipTargetKeeps ==
    ASSUME PassInv, SkipTarget
    PROVE  PassInv'
<1> DEFINE skip == AlreadyTarget(text, i, Hit(pats, text, i))
<1>1. /\ ~done /\ InRange /\ FindAt(pats, text, i) > 0 /\ skip > 0 /\ i' = i + skip
      /\ UNCHANGED <<matcher, text, prev, out, done>>
  BY RangeEnds, TableIsRight DEF SkipTarget, Hit, PassInv
<1>2. i \in 1 .. Len(text)
  BY <1>1, RangeEnds DEF PassInv
<1>3. FindAt(pats, text, i) # 0
  BY <1>1
<1>4. /\ NextAt(pats, text, i) = i + skip
      /\ PieceAt(pats, text, i) = SubSeq(text, i, i + skip - 1)
  BY <1>1, <1>3 DEF NextAt, PieceAt
<1>5. ASSUME config.global = {}, text = config.public PROVE NothingReplaced'
  <2>1. prev = 1 /\ out = <<>>
    BY <1>1, <1>5 DEF PassInv, NothingReplaced
  <2>2. i + skip = Len(text) + 1
    BY <1>1, <1>2, <1>3, <1>5, PublicIsSkipped
  <2> QED
    BY <1>1, <2>1, <2>2 DEF NothingReplaced, matcher
<1>6. skip \in Nat /\ i \in Nat
  BY <1>1, <1>2, <1>3, HitShape, SkipFits DEF PassInv
<1> HIDE DEF skip
<1>7. i' = NextAt(pats, text, i)
  BY <1>1, <1>4
<1>8. PieceAt(pats, text, i) = SubSeq(text, i, NextAt(pats, text, i) - 1)
  BY <1>4, <1>6
<1>9. ~done /\ UNCHANGED <<matcher, text, prev, out, done>>
  BY <1>1
<1> QED
  BY <1>2, <1>5, <1>7, <1>8, <1>9, MovesOn

LEMMA ReplaceHitKeeps ==
    ASSUME PassInv, ReplaceHit
    PROVE  PassInv'
<1> DEFINE p == Hit(pats, text, i)
           l == NextAt(pats, text, i)
           r == Rest(text, pats)
           held == SubSeq(text, prev, i - 1)
           last == r[l]
           dst == p.dst
<1>1. /\ ~done /\ InRange /\ FindAt(pats, text, i) > 0 /\ AlreadyTarget(text, i, p) = 0
      /\ out' = out \o held \o dst
      /\ i' = Behind(pats, text, i) + TrailingDate(text, Behind(pats, text, i))
      /\ prev' = i' /\ UNCHANGED <<matcher, text, done>>
  BY RangeEnds, TableIsRight DEF ReplaceHit, Hit, Behind, PassInv
<1>2. i \in 1 .. Len(text)
  BY <1>1, RangeEnds DEF PassInv
<1>3. FindAt(pats, text, i) # 0 /\ ~(AlreadyTarget(text, i, p) > 0)
  BY <1>1
<1>4. l = i' /\ PieceAt(pats, text, i) = dst
  BY <1>1, <1>3 DEF NextAt, PieceAt
<1>5. /\ Len(text) \in Nat /\ ArePatterns(pats) /\ text \in Characters /\ prev \in 1 .. i
      /\ out \in Seq(STRING)
  BY LenProperties DEF PassInv, Characters
<1>6. l \in i + 1 .. Len(text) + 1 /\ dst \in Seq(STRING)
  BY <1>2, <1>4, <1>5, NextFits DEF Characters
<1>7. r[i] = dst \o last
  BY <1>2, <1>4, <1>5, RestIs
<1>8. prev \in 1 .. Len(text) + 1 /\ i \in prev .. Len(text) + 1 /\ l \in 1 .. Len(text) + 1
  BY <1>2, <1>5, <1>6
<1>9. held \in Seq(STRING) /\ last \in Seq(STRING)
  BY <1>5, <1>8, PieceBefore, RestShape DEF Characters
<1>10. out \o (held \o r[i]) = r[1]
  BY <1>1 DEF PassInv, OnTheWay
<1>11. SubSeq(text, i', i' - 1) = <<>>
  <2>1. l - 1 < l
    BY <1>2, <1>5, <1>6
  <2>2. SubSeq(text, l, l - 1) = <<>>
    BY <1>5, <1>6, <2>1, SubSeqEmpty
  <2> QED
    BY <1>4, <2>2
<1>12. ~(config.global = {} /\ text = config.public)
  BY <1>1, <1>2, <1>3, PublicIsSkipped
<1>l. last = Rest(text, pats)[i']
  BY <1>4
<1> HIDE DEF held, last, dst, p, l
<1>13. out \o (held \o (dst \o last)) = ((out \o held) \o dst) \o last
  <2>1. /\ out \in Seq(STRING) /\ held \in Seq(STRING)
        /\ dst \in Seq(STRING) /\ last \in Seq(STRING)
    BY <1>5, <1>6, <1>9
  <2>2. held \o (dst \o last) = (held \o dst) \o last
    BY <2>1, ConcatAssociative
  <2> DEFINE both == held \o dst
  <2>3. both \in Seq(STRING)
    BY <2>1, ConcatProperties
  <2>4. out \o both = (out \o held) \o dst
    BY <2>1, ConcatAssociative
  <2>5. held \o (dst \o last) = both \o last
    BY <2>2
  <2> HIDE DEF both
  <2>6. out \o (both \o last) = (out \o both) \o last
    BY <2>1, <2>3, ConcatAssociative
  <2> QED
    BY <2>4, <2>5, <2>6
<1>14. out' \o last = r[1]
  BY <1>1, <1>7, <1>10, <1>13
<1>15. out' \in Characters
  <2>1. out \o held \in Seq(STRING)
    BY <1>5, <1>9, ConcatProperties
  <2>2. (out \o held) \o dst \in Seq(STRING)
    BY <1>6, <2>1, ConcatProperties
  <2> QED
    BY <1>1, <2>2 DEF Characters
<1>16. OnTheWay'
  <2>1. text' = text /\ pats' = pats
    BY <1>1 DEF matcher
  <2>2. SubSeq(text', prev', i' - 1) = <<>>
    BY <1>1, <1>11
  <2>3. <<>> \o last = last
    BY <1>9, ConcatEmptySeq
  <2>4. out' \o (<<>> \o last) = r[1]
    BY <1>14, <2>3
  <2>5. Rest(text', pats') = r /\ last = Rest(text', pats')[i']
    BY <1>l, <2>1
  <2> QED
    BY <2>2, <2>4, <2>5 DEF OnTheWay
<1>17. i' \in 1 .. Len(text) + 1 /\ prev' \in 1 .. i'
  BY <1>1, <1>4, <1>5, <1>8
<1>18. text' = text /\ pats' = pats /\ config' = config /\ ~done'
  BY <1>1 DEF matcher
<1>19. Kept'
  BY <1>18 DEF PassInv, Kept
<1>20. done' \in BOOLEAN
  BY <1>1 DEF PassInv
<1> QED
  BY <1>5, <1>12, <1>15, <1>16, <1>17, <1>18, <1>19, <1>20 DEF PassInv, Kept

LEMMA FinishPassKeeps ==
    ASSUME PassInv, FinishPass
    PROVE  PassInv'
<1> DEFINE r == Rest(text, pats)
           held == SubSeq(text, prev, i - 1)
<1>1. /\ ~done /\ ~InRange /\ out' = out \o From(text, prev)
      /\ UNCHANGED <<matcher, text, i, prev>>
  BY DEF FinishPass
<1>2. done' = TRUE
  BY DEF FinishPass
<1>3. /\ Len(text) \in Nat /\ ArePatterns(pats) /\ text \in Characters /\ prev \in 1 .. i
      /\ i \in 1 .. Len(text) + 1 /\ out \in Seq(STRING)
  BY LenProperties DEF PassInv, Characters
<1>4. r[i] = From(text, i)
  BY <1>1, <1>3, RangeEnds, RestIsText
<1>5. prev \in 1 .. Len(text) + 1 /\ i \in prev .. Len(text) + 1 /\ Len(text) + 1 \in i .. Len(text) + 1
  BY <1>3
<1>6. (Len(text) + 1) - 1 = Len(text)
  BY <1>3
<1>7. held \o From(text, i) = From(text, prev)
  <2>1. held \o SubSeq(text, i, (Len(text) + 1) - 1) = SubSeq(text, prev, (Len(text) + 1) - 1)
    BY <1>3, <1>5, PieceBefore
  <2> QED
    BY <1>6, <2>1 DEF From
<1>8. out \o (held \o r[i]) = r[1]
  BY <1>1 DEF PassInv, OnTheWay
<1>9. out' = r[1]
  BY <1>1, <1>4, <1>7, <1>8
<1>10. out' \in Characters
  <2>1. From(text, prev) \in Seq(STRING)
    BY <1>3, <1>5, FromShape DEF Characters
  <2> QED
    BY <1>1, <1>3, <2>1, ConcatProperties DEF Characters
<1>11. text' = text /\ i' = i /\ prev' = prev /\ pats' = pats /\ config' = config
  BY <1>1 DEF matcher
<1>12. ASSUME config.global = {}, text = config.public PROVE out' = text
  <2>1. prev = 1 /\ out = <<>>
    BY <1>1, <1>12 DEF PassInv, NothingReplaced
  <2>2. From(text, 1) = text
    BY <1>3, SubSeqFull DEF From, Characters
  <2>3. <<>> \o text = text
    BY <1>3, ConcatEmptySeq DEF Characters
  <2> QED
    BY <1>1, <2>1, <2>2, <2>3
<1>13. Kept'
  BY <1>11 DEF PassInv, Kept
<1> QED
  BY <1>2, <1>3, <1>9, <1>10, <1>11, <1>12, <1>13 DEF PassInv, Kept

LEMMA PassStays ==
    ASSUME PassInv, UNCHANGED foldvars
    PROVE  PassInv'
<1>1. /\ text' = text /\ i' = i /\ prev' = prev /\ pats' = pats /\ config' = config
      /\ out' = out
  BY DEF foldvars, matcher
<1>2. done' = done
  BY DEF foldvars
<1> QED
  BY <1>1, <1>2 DEF PassInv, OnTheWay, NothingReplaced

LEMMA PassSteps ==
    ASSUME PassInv, FoldNext
    PROVE  PassInv'
  BY SkipKeeps, SkipTargetKeeps, ReplaceHitKeeps, FinishPassKeeps DEF FoldNext

----------------------------------------------------------------------------
(* The name of a field                                                     *)

\* What stands in a content field, be it in a list in it.
InContent(path) ==
    \E j \in DOMAIN path : /\ path[j] \in ContentFields
                           /\ \A n \in j + 1 .. Len(path) : path[n] \in Indices

LEMMA FieldOfContent ==
    ASSUME NEW path \in Seq(STRING), InContent(path)
    PROVE  FieldOf(path) \in ContentFields
<1> DEFINE keys == {n \in DOMAIN path : path[n] \notin Indices}
<1>1. DOMAIN path = 1 .. Len(path) /\ Len(path) \in Nat
  BY LenProperties
<1>2. PICK j \in DOMAIN path :
          /\ path[j] \in ContentFields
          /\ \A n \in j + 1 .. Len(path) : path[n] \in Indices
  BY DEF InContent
<1>3. path[j] \notin Indices
  BY <1>2, SanitizeAssumption
<1>4. j \in keys
  BY <1>3
<1>5. ASSUME NEW n \in keys PROVE j >= n
  BY <1>1, <1>2
<1>6. ASSUME NEW m \in keys, \A n \in keys : m >= n PROVE m = j
  BY <1>1, <1>4, <1>5, <1>6
<1> HIDE DEF keys
<1>7. Max(keys) = j
  BY <1>4, <1>5, <1>6 DEF Max
<1> QED
  BY <1>2, <1>4, <1>7 DEF FieldOf, keys

\* The queue of collect holds nothing but what is to be searched.
LEMMA QueueOf ==
    ASSUME NEW S, IsFiniteSet(S)
    PROVE  SetToSeq(S) \in Seq(S)
<1> DEFINE N == Cardinality(S)
<1>1. N \in Nat /\ ExistsBijection(1 .. N, S)
  BY FS_CardinalityType
<1>2. PICK f \in [1 .. N -> S] : IsInjective(f)
  BY <1>1 DEF ExistsBijection, Bijection, Injection, IsInjective
<1>3. SetToSeq(S) \in [1 .. N -> S]
  BY <1>2 DEF SetToSeq
<1> QED
  BY <1>1, <1>3

----------------------------------------------------------------------------
(* The invariant                                                           *)

ModelFields == {ModelPaths[j] : j \in DOMAIN ModelPaths}

\* Where the search may change something.
Editable ==
    {path \in DOMAIN body :
        path \notin ModelFields /\ ~InContent(path) /\ IsString(body, path)}

\* A model field that the loop has come to.
Settled(path) ==
    /\ doc[path].text \in {public, NoString}
    /\ IsString(doc, path) => path \in covered

SanInv ==
    /\ IsDocument(body)
    /\ doc = [path \in DOMAIN body |-> doc[path]]
    /\ changed \in BOOLEAN /\ (doc # body => changed)
    /\ spc \in {"override", "collect", "apply", "done"}
    /\ k \in Nat \ {0} /\ (spc # "override" => k > Len(ModelPaths))
    /\ \A j \in DOMAIN ModelPaths :
          j < k /\ ModelPaths[j] \in DOMAIN body => Settled(ModelPaths[j])
    /\ queue \in Seq(Editable)
    /\ spc = "apply" => queue # <<>>
    /\ DOMAIN edits \subseteq Editable
    /\ \A path \in DOMAIN body :
          path \notin ModelFields /\ (spc # "done" \/ path \notin Editable) =>
              doc[path] = body[path]

LEMMA SanBeginInv == SanBegin => SanInv
<1> SUFFICES ASSUME SanBegin PROVE SanInv
  OBVIOUS
<1>1. /\ IsDocument(body) /\ doc = body /\ k = 1 /\ queue = <<>>
      /\ edits = [path \in {} |-> <<>>] /\ changed = FALSE /\ spc = "override"
  BY DEF SanBegin, SanInit
<1>2. DOMAIN ModelPaths = 1 .. Len(ModelPaths)
  BY SanitizeAssumption, LenProperties
<1>3. doc = [path \in DOMAIN body |-> doc[path]]
  <2>1. body \in [DOMAIN body -> [text : Seq(STRING), escaped : BOOLEAN]]
    BY <1>1 DEF IsDocument
  <2>2. body = [path \in DOMAIN body |-> body[path]]
    BY <2>1
  <2> QED
    BY <1>1, <2>2
<1>4. queue \in Seq(Editable)
  BY <1>1, EmptySeq
<1>5. DOMAIN edits \subseteq Editable
  BY <1>1
<1>6. changed \in BOOLEAN /\ (doc # body => changed)
  BY <1>1
<1>7. \A j \in DOMAIN ModelPaths : ~(j < k)
  BY <1>1, <1>2
<1>8. k \in Nat \ {0} /\ (spc # "override" => k > Len(ModelPaths))
  BY <1>1
<1>9. \A path \in DOMAIN body : doc[path] = body[path]
  BY <1>1
<1>10. spc \in {"override", "collect", "apply", "done"} /\ spc # "apply"
  BY <1>1
<1> QED
  BY <1>1, <1>3, <1>4, <1>5, <1>6, <1>7, <1>8, <1>9, <1>10 DEF SanInv

\* What the search reads of a document does not depend on the step.
LEMMA ModelPathsFacts ==
    /\ ModelPaths \in Seq(Seq(STRING)) /\ Len(ModelPaths) \in Nat
    /\ DOMAIN ModelPaths = 1 .. Len(ModelPaths)
  BY SanitizeAssumption, LenProperties

\* The configuration stays, and with it the public name.
LEMMA PublicStays ==
    ASSUME [SanNext]_sanvars
    PROVE  public' = public
  BY DEF SanNext, sanvars, Override, Search, PassOver, Apply, Call, ReplaceOn, FoldNext,
         Skip, SkipTarget, ReplaceHit, FinishPass, Applied, Return, Write,
         foldvars, matcher, public

LEMMA OverrideKeeps ==
    ASSUME SanInv, Override
    PROVE  SanInv'
<1> DEFINE path == ModelPaths[k]
           other == IsString(doc, path) /\ doc[path].text # public
<1>1. /\ spc = "override" /\ k <= Len(ModelPaths) /\ k' = k + 1
      /\ covered' = IF IsString(doc, path) THEN covered \cup {path} ELSE covered
      /\ doc' = IF other THEN Put(doc, path, public) ELSE doc
      /\ changed' = (changed \/ other)
      /\ UNCHANGED <<foldvars, body, spc, queue, edits>>
  BY DEF Override
<1>2. k \in Nat /\ k >= 1 /\ k \in DOMAIN ModelPaths
  BY <1>1, ModelPathsFacts DEF SanInv
<1>3. public' = public
  BY <1>1 DEF foldvars, matcher, public
<1>4. DOMAIN doc = DOMAIN body /\ doc = [p \in DOMAIN body |-> doc[p]]
  BY DEF SanInv
<1>5. path \in ModelFields
  BY <1>2 DEF ModelFields
<1>6. CASE other
  <2>1. doc' = [doc EXCEPT ![path] = [text |-> public, escaped |-> FALSE]]
    BY <1>1, <1>6 DEF Put
  <2>2. path \in DOMAIN body
    BY <1>4, <1>6 DEF IsString
  <2>3. doc' = [p \in DOMAIN body |-> doc'[p]]
    BY <1>4, <2>1
  <2>4. /\ doc'[path] = [text |-> public, escaped |-> FALSE]
        /\ \A p \in DOMAIN body \ {path} : doc'[p] = doc[p]
    BY <1>4, <2>1, <2>2
  <2>5. path \in covered'
    BY <1>1, <1>6
  <2>6. ASSUME NEW j \in DOMAIN ModelPaths, j < k', ModelPaths[j] \in DOMAIN body
        PROVE  Settled(ModelPaths[j])'
    <3> DEFINE q == ModelPaths[j]
    <3>1. CASE q = path
      <4>1. doc'[q].text = public'
        BY <1>3, <2>4, <3>1
      <4> QED
        BY <2>5, <3>1, <4>1 DEF Settled
    <3>2. CASE q # path
      <4>1. j < k
        BY <1>2, <1>1, <2>6, <3>2, ModelPathsFacts
      <4>2. Settled(q)
        BY <2>6, <4>1 DEF SanInv
      <4>3. doc'[q] = doc[q] /\ covered \subseteq covered'
        BY <1>1, <2>4, <2>6, <3>2
      <4>4. DOMAIN doc' = DOMAIN doc
        BY <1>4, <2>3
      <4> QED
        BY <1>3, <4>2, <4>3, <4>4 DEF Settled, IsString
    <3> QED
      BY <3>1, <3>2
  <2>7. \A p \in DOMAIN body : p \notin ModelFields => doc'[p] = doc[p]
    BY <1>5, <2>4
  <2>8. changed' = TRUE
    BY <1>1, <1>6
  <2>9. k' \in Nat \ {0}
    BY <1>1, <1>2
  <2>10. /\ body' = body /\ spc' = spc /\ queue' = queue /\ edits' = edits
         /\ Editable' = Editable
    BY <1>1 DEF Editable
  <2> QED
    BY <1>1, <2>3, <2>6, <2>7, <2>8, <2>9, <2>10 DEF SanInv
<1>7. CASE ~other
  <2>1. doc' = doc /\ changed' = changed
    BY <1>1, <1>7 DEF SanInv
  <2>2. ASSUME NEW q, q = path, q \in DOMAIN body PROVE Settled(q)'
    <3>1. CASE IsString(doc, q)
      <4>1. doc[q].text = public /\ q \in covered'
        BY <1>1, <1>7, <2>2, <3>1
      <4> QED
        BY <1>3, <2>1, <4>1 DEF Settled
    <3>2. CASE ~IsString(doc, q)
      <4>1. doc[q].text = NoString
        BY <1>4, <2>2, <3>2 DEF IsString
      <4> QED
        BY <2>1, <3>2, <4>1 DEF Settled, IsString, NoString
    <3> QED
      BY <3>1, <3>2
  <2>3. ASSUME NEW j \in DOMAIN ModelPaths, j < k', ModelPaths[j] \in DOMAIN body
        PROVE  Settled(ModelPaths[j])'
    <3>1. CASE j = k
      BY <2>2, <2>3, <3>1
    <3>2. CASE j # k
      <4>1. j < k
        BY <1>1, <1>2, <2>3, <3>2, ModelPathsFacts
      <4>2. Settled(ModelPaths[j])
        BY <2>3, <4>1 DEF SanInv
      <4>3. covered \subseteq covered'
        BY <1>1
      <4> QED
        BY <1>3, <2>1, <4>2, <4>3 DEF Settled, IsString
    <3> QED
      BY <3>1, <3>2
  <2>4. k' \in Nat \ {0}
    BY <1>1, <1>2
  <2>5. /\ body' = body /\ spc' = spc /\ queue' = queue /\ edits' = edits
        /\ Editable' = Editable
    BY <1>1 DEF Editable
  <2> QED
    BY <1>1, <2>1, <2>3, <2>4, <2>5 DEF SanInv
<1> QED
  BY <1>6, <1>7

\* A step of the search that writes nothing.
LEMMA SearchingKeeps ==
    ASSUME SanInv, spc # "done",
           UNCHANGED <<config, body, doc, k, covered, changed>>,
           spc' \in {"override", "collect", "apply", "done"},
           spc' # "override" => k > Len(ModelPaths),
           queue' \in Seq(Editable), spc' = "apply" => queue' # <<>>,
           DOMAIN edits' \subseteq Editable
    PROVE  SanInv'
<1>1. public' = public /\ Editable' = Editable
  BY DEF public, Editable
<1>2. \A q \in DOMAIN body : q \notin ModelFields => doc'[q] = body'[q]
  BY DEF SanInv
<1>3. ASSUME NEW j \in DOMAIN ModelPaths, j < k', ModelPaths[j] \in DOMAIN body'
      PROVE  Settled(ModelPaths[j])'
  <2>1. Settled(ModelPaths[j])
    BY <1>3 DEF SanInv
  <2> QED
    BY <1>1, <2>1 DEF Settled, IsString
<1> QED
  BY <1>1, <1>2, <1>3 DEF SanInv

LEMMA CandidatesAreEditable ==
    ASSUME SanInv, k > Len(ModelPaths), spc # "done"
    PROVE  SetToSeq(Candidates) \in Seq(Editable)
<1>1. DOMAIN doc = DOMAIN body /\ IsFiniteSet(DOMAIN body) /\ DOMAIN body \subseteq Seq(STRING)
  BY DEF SanInv, IsDocument
<1>2. ASSUME NEW path \in Candidates PROVE path \in Editable
  <2>1. /\ path \in DOMAIN body /\ path \in Seq(STRING) /\ IsString(doc, path)
        /\ FieldOf(path) \notin ContentFields /\ path \notin covered
    BY <1>1 DEF Candidates
  <2>2. ~InContent(path)
    BY <2>1, FieldOfContent
  <2>3. path \notin ModelFields
    <3> SUFFICES ASSUME NEW j \in DOMAIN ModelPaths, path = ModelPaths[j] PROVE FALSE
      BY DEF ModelFields
    <3>1. j < k
      BY ModelPathsFacts DEF SanInv
    <3>2. Settled(path)
      BY <2>1, <3>1 DEF SanInv
    <3> QED
      BY <2>1, <3>2 DEF Settled
  <2>4. doc[path] = body[path]
    BY <2>1, <2>3 DEF SanInv
  <2> QED
    BY <1>1, <2>1, <2>2, <2>3, <2>4 DEF Editable, IsString
<1>3. Candidates \in SUBSET DOMAIN body
  BY <1>1 DEF Candidates
<1>4. IsFiniteSet(Candidates)
  BY <1>1, <1>3, FS_Subset
<1>5. SetToSeq(Candidates) \in Seq(Candidates)
  BY <1>4, QueueOf
<1> DEFINE q == SetToSeq(Candidates)
<1>6. \A n \in 1 .. Len(q) : q[n] \in Candidates
  BY <1>5, ElementOfSeq
<1>7. q = [n \in 1 .. Len(q) |-> q[n]] /\ Len(q) \in Nat
  BY <1>5, LenProperties
<1> HIDE DEF q
<1>8. \A n \in 1 .. Len(q) : q[n] \in Editable
  BY <1>2, <1>6
<1>9. q \in Seq(Editable)
  BY <1>7, <1>8
<1> QED
  BY <1>9 DEF q

LEMMA WriteKeeps ==
    ASSUME SanInv, Write
    PROVE  SanInv'
<1>1. /\ spc = "collect" /\ spc' = "done"
      /\ doc' = [path \in DOMAIN doc |->
                   IF path \in DOMAIN edits
                   THEN [text |-> edits[path], escaped |-> FALSE] ELSE doc[path]]
      /\ changed' = (changed \/ DOMAIN edits # {})
      /\ UNCHANGED <<config, body, k, covered, queue, edits>>
  BY DEF Write, foldvars, matcher
<1>2. /\ DOMAIN doc = DOMAIN body /\ doc = [q \in DOMAIN body |-> doc[q]]
      /\ DOMAIN edits \subseteq Editable
  BY DEF SanInv
<1>3. doc' = [q \in DOMAIN body |-> doc'[q]]
  BY <1>1, <1>2
<1>4. \A q \in DOMAIN body : q \notin Editable => doc'[q] = doc[q]
  BY <1>1, <1>2
<1>5. public' = public /\ Editable' = Editable
  BY <1>1 DEF public, Editable
<1>6. ASSUME NEW j \in DOMAIN ModelPaths, j < k', ModelPaths[j] \in DOMAIN body'
      PROVE  Settled(ModelPaths[j])'
  <2>1. ModelPaths[j] \notin Editable
    BY DEF Editable, ModelFields
  <2>2. Settled(ModelPaths[j])
    BY <1>1, <1>6 DEF SanInv
  <2>3. doc'[ModelPaths[j]] = doc[ModelPaths[j]]
    BY <1>1, <1>4, <1>6, <2>1
  <2>4. DOMAIN doc' = DOMAIN doc
    BY <1>2, <1>3
  <2> QED
    BY <1>1, <1>5, <2>2, <2>3, <2>4 DEF Settled, IsString
<1>7. ASSUME NEW q \in DOMAIN body', q \notin ModelFields, q \notin Editable'
      PROVE  doc'[q] = body'[q]
  <2>1. q \notin Editable /\ q \in DOMAIN body
    BY <1>1, <1>5, <1>7
  <2>2. doc[q] = body[q]
    BY <1>7, <2>1 DEF SanInv
  <2> QED
    BY <1>1, <1>4, <2>1, <2>2
<1>8. changed' \in BOOLEAN /\ (doc' # body' => changed')
  <2>1. CASE DOMAIN edits = {}
    <3>1. \A q \in DOMAIN body : doc'[q] = doc[q]
      BY <1>1, <1>2, <2>1
    <3>2. doc' = doc
      BY <1>2, <1>3, <3>1
    <3>3. changed' = changed
      BY <1>1, <2>1 DEF SanInv
    <3> QED
      BY <1>1, <3>2, <3>3 DEF SanInv
  <2>2. CASE DOMAIN edits # {}
    <3>1. changed' = TRUE
      BY <1>1, <2>2
    <3> QED
      BY <3>1
  <2> QED
    BY <2>1, <2>2
<1>9. k' \in Nat \ {0} /\ k' > Len(ModelPaths)
  BY <1>1 DEF SanInv
<1>10. IsDocument(body') /\ queue' \in Seq(Editable') /\ DOMAIN edits' \subseteq Editable'
  BY <1>1, <1>5 DEF SanInv
<1> QED
  BY <1>1, <1>3, <1>6, <1>7, <1>8, <1>9, <1>10 DEF SanInv

LEMMA SanStep ==
    ASSUME SanInv, [SanNext]_sanvars
    PROVE  SanInv'
<1>0. /\ queue \in Seq(Editable) /\ DOMAIN edits \subseteq Editable
      /\ (spc # "override" => k > Len(ModelPaths))
  BY DEF SanInv
<1>1. CASE Override
  BY <1>1, OverrideKeeps
<1>2. CASE Search
  <2>1. /\ spc = "override" /\ k > Len(ModelPaths)
        /\ \/ queue' = SetToSeq(Candidates) /\ spc' = "collect"
           \/ queue' = queue /\ spc' = "done"
        /\ UNCHANGED <<config, body, doc, k, covered, changed, edits>>
    BY <1>2 DEF Search, foldvars, matcher
  <2>2. queue' \in Seq(Editable)
    BY <1>0, <2>1, CandidatesAreEditable
  <2> QED
    BY <1>0, <2>1, <2>2, SearchingKeeps
<1>3. CASE PassOver
  <2>1. /\ spc = "collect" /\ queue # <<>> /\ queue' = Tail(queue) /\ spc' = spc
        /\ UNCHANGED <<config, body, doc, k, covered, changed, edits>>
    BY <1>3 DEF PassOver, foldvars, matcher
  <2>2. queue' \in Seq(Editable)
    BY <1>0, <2>1, HeadTailProperties
  <2> QED
    BY <1>0, <2>1, <2>2, SearchingKeeps
<1>4. CASE Apply
  <2>1. /\ spc = "collect" /\ queue # <<>> /\ queue' = queue /\ spc' = "apply"
        /\ UNCHANGED <<config, body, doc, k, covered, changed, edits>>
    BY <1>4 DEF Apply, Call, matcher
  <2> QED
    BY <1>0, <2>1, SearchingKeeps
<1>5. CASE ReplaceOn
  <2>1. /\ spc = "apply" /\ queue' = queue /\ spc' = spc
        /\ UNCHANGED <<config, body, doc, k, covered, changed, edits>>
    BY <1>5 DEF ReplaceOn, FoldNext, Skip, SkipTarget, ReplaceHit, FinishPass, matcher
  <2>2. queue # <<>>
    BY <2>1 DEF SanInv
  <2> QED
    BY <1>0, <2>1, <2>2, SearchingKeeps
<1>6. CASE Applied
  <2>1. /\ spc = "apply" /\ queue' = Tail(queue) /\ spc' = "collect"
        /\ \/ edits' = edits
           \/ DOMAIN edits' = DOMAIN edits \cup {Head(queue)}
        /\ UNCHANGED <<config, body, doc, k, covered, changed>>
    BY <1>6 DEF Applied, Return, matcher
  <2>2. queue # <<>>
    BY <2>1 DEF SanInv
  <2>3. Head(queue) \in Editable /\ queue' \in Seq(Editable)
    BY <1>0, <2>1, <2>2, HeadTailProperties
  <2>4. DOMAIN edits' \subseteq Editable
    BY <1>0, <2>1, <2>3
  <2> QED
    BY <1>0, <2>1, <2>3, <2>4, SearchingKeeps
<1>7. CASE Write
  BY <1>7, WriteKeeps
<1>8. CASE UNCHANGED sanvars
  BY <1>8 DEF sanvars, foldvars, matcher, SanInv, Editable, Settled, IsString, public
<1> QED
  BY <1>1, <1>2, <1>3, <1>4, <1>5, <1>6, <1>7, <1>8 DEF SanNext

LEMMA SanInvariance == SanSpec => []SanInv
  BY SanBeginInv, SanStep, PTL DEF SanSpec

\* What is handed to replace is a text of the answer.
LEMMA PassStep ==
    ASSUME SanInv, PassInv, [SanNext]_sanvars
    PROVE  PassInv'
<1>1. CASE Apply
  <2>1. spc = "collect" /\ queue # <<>> /\ Call(AtHead)
    BY <1>1 DEF Apply
  <2>2. Head(queue) \in Editable
    BY <2>1, HeadTailProperties DEF SanInv
  <2>3. spc # "done"
    BY <2>1
  <2>4. /\ Head(queue) \in DOMAIN body /\ doc[Head(queue)] = body[Head(queue)]
    BY <2>2, <2>3 DEF SanInv, Editable
  <2>5. body \in [DOMAIN body -> [text : Seq(STRING), escaped : BOOLEAN]]
    BY DEF SanInv, IsDocument
  <2>6. AtHead \in Characters
    BY <2>4, <2>5 DEF AtHead, Characters
  <2> QED
    BY <2>1, <2>6, CallKeeps
<1>2. CASE ReplaceOn
  BY <1>2, PassSteps DEF ReplaceOn
<1>3. CASE Applied
  BY <1>3, ReturnKeeps DEF Applied
<1>4. CASE Override \/ Search \/ PassOver \/ Write \/ UNCHANGED sanvars
  <2>1. UNCHANGED foldvars
    BY <1>4 DEF Override, Search, PassOver, Write, sanvars
  <2> QED
    BY <2>1, PassStays
<1> QED
  BY <1>1, <1>2, <1>3, <1>4 DEF SanNext

LEMMA PassInvariance == SanSpec => []PassInv
<1>1. SanBegin => PassInv
  <2> SUFFICES ASSUME SanBegin PROVE PassInv
    OBVIOUS
  <2>1. IsConfig(config) /\ pats \in Patterns(config) /\ Idle
    BY DEF SanBegin, SanInit, FoldInit
  <2>2. Kept
    BY <2>1, PatternsShape DEF Kept
  <2> QED
    BY <2>1, <2>2, IdleIsPass
<1> QED
  BY <1>1, PassStep, SanInvariance, PTL DEF SanSpec

----------------------------------------------------------------------------
(* What is left in an answer                                               *)

\* A text with a name in it is not ruled out by its bytes.
LEMMA LeakMayMatch ==
    ASSUME NEW s \in Characters, NEW ps, ArePatterns(ps), Leaks(s, ps)
    PROVE  MayMatch(s, ps)
<1>1. Len(s) \in Nat /\ DOMAIN s = 1 .. Len(s)
  BY LenProperties DEF Characters
<1>2. PICK j \in DOMAIN ps, n \in DOMAIN s : IsPrefix(ps[j].src, Fold(From(s, n)))
  BY DEF Leaks
<1>3. n \in 1 .. Len(s) + 1 /\ ps # <<>>
  BY <1>1, <1>2 DEF ArePatterns
<1>4. /\ MinLen(ps) \in Nat \ {0} /\ MinLen(ps) <= Len(ps[j].src)
      /\ Len(ps[j].src) <= Len(s) + 1 - n /\ Len(ps[j].src) \in Nat
  BY <1>2, <1>3, LeastLength, FindsFit DEF ArePatterns
<1>5. n \in 1 .. Len(s) + 1 - MinLen(ps)
  BY <1>1, <1>3, <1>4
<1>6. j \in HitsAt(ps, s, n)
  BY <1>2 DEF HitsAt
<1>7. FindAt(ps, s, n) \in DOMAIN ps
  BY <1>3, <1>6, FindAtIs DEF HitsAt
<1>8. FindAt(ps, s, n) > 0
  BY <1>7 DEF ArePatterns
<1> QED
  BY <1>2, <1>1, <1>3, <1>5, <1>8, TableIsRight DEF MayMatch

\* The queue of collect holds all that is to be searched.
LEMMA QueueHasAll ==
    ASSUME NEW S, IsFiniteSet(S)
    PROVE  S \subseteq ToSet(SetToSeq(S))
<1> DEFINE N == Cardinality(S)
           q == SetToSeq(S)
<1>1. N \in Nat /\ ExistsBijection(1 .. N, S)
  BY FS_CardinalityType
<1>2. PICK f \in [1 .. N -> S] : IsInjective(f)
  BY <1>1 DEF ExistsBijection, Bijection, Injection, IsInjective
<1>3. q \in [1 .. N -> S] /\ IsInjective(q)
  BY <1>2 DEF SetToSeq
<1>4. q \in Injection(1 .. N, S)
  BY <1>3 DEF Injection, IsInjective
<1>5. IsFiniteSet(1 .. N) /\ Cardinality(1 .. N) = N
  BY <1>1, FS_Interval
<1> HIDE DEF q
<1>6. q \in Surjection(1 .. N, S)
  BY <1>4, <1>5, FS_Injection
<1>7. \A x \in S : \E n \in 1 .. N : q[n] = x
  BY <1>6 DEF Surjection
<1>8. DOMAIN q = 1 .. N
  BY <1>3
<1> QED
  BY <1>7, <1>8 DEF ToSet, q

\* The strings whose names are to be found.
Open ==
    {path \in DOMAIN body :
        /\ path \notin ModelFields /\ IsString(body, path) /\ Len(path) <= MaxScanDepth
        /\ \A key \in ToSet(path) : key \notin ContentFields}

Clean(s) == Apart(pats) => ~Leaks(s, pats)

Accounted(s) == Clean(s) \/ (suppressed /\ ~failed)

SearchInv ==
    /\ covered \subseteq ModelFields
    /\ spc = "apply" => text = AtHead
    /\ \A path \in DOMAIN edits : Clean(edits[path])
    /\ \A path \in Open :
          /\ spc \in {"collect", "apply"} =>
                path \in ToSet(queue) \/ path \in DOMAIN edits \/ Accounted(body[path].text)
          /\ spc = "done" /\ Plain => Accounted(doc[path].text)

\* What is to be found is searched for, unless it has been set to the public name.
LEMMA OpenIsCandidate ==
    ASSUME SanInv, SearchInv, spc = "override", NEW path \in Open
    PROVE  path \in Candidates
<1>1. /\ path \in DOMAIN body /\ path \notin ModelFields /\ Len(path) <= MaxScanDepth
      /\ IsString(body, path) /\ \A key \in ToSet(path) : key \notin ContentFields
  BY DEF Open
<1>2. doc[path] = body[path] /\ DOMAIN doc = DOMAIN body /\ path \in Seq(STRING)
  BY <1>1 DEF SanInv, IsDocument
<1>3. FieldOf(path) \notin ContentFields
  <2> DEFINE keys == {n \in DOMAIN path : path[n] \notin Indices}
  <2>1. CASE keys = {}
    BY <2>1, SanitizeAssumption DEF FieldOf
  <2>2. CASE keys # {}
    <3>1. DOMAIN path = 1 .. Len(path) /\ Len(path) \in Nat
      BY <1>2, LenProperties
    <3>2. keys \in SUBSET (0 .. Len(path)) /\ keys \subseteq DOMAIN path
      BY <3>1
    <3>3. FieldOf(path) = path[Max(keys)]
      BY <2>2 DEF FieldOf
    <3> HIDE DEF keys
    <3>4. Max(keys) \in DOMAIN path
      BY <2>2, <3>1, <3>2, GreatestNumber
    <3> QED
      BY <1>1, <3>3, <3>4 DEF ToSet
  <2> QED
    BY <2>1, <2>2
<1>4. path \notin covered
  BY <1>1 DEF SearchInv
<1> QED
  BY <1>1, <1>2, <1>3, <1>4 DEF Candidates, IsString

LEMMA SearchBegins == SanBegin => SearchInv
  BY DEF SanBegin, SanInit, SearchInv

\* What an answer's strings are.
LEMMA TextsAre ==
    ASSUME SanInv, NEW path \in DOMAIN body, path \notin ModelFields, spc # "done"
    PROVE  doc[path] = body[path] /\ body[path].text \in Characters
  BY DEF SanInv, IsDocument, Characters

LEMMA QueueFacts ==
    ASSUME SanInv, queue # <<>>
    PROVE  /\ Head(queue) \in Editable
           /\ \A x \in ToSet(queue) : x = Head(queue) \/ x \in ToSet(Tail(queue))
<1>1. /\ queue \in Seq(Editable) /\ Len(queue) \in Nat /\ DOMAIN queue = 1 .. Len(queue)
  BY LenProperties DEF SanInv
<1>2. /\ Head(queue) \in Editable /\ Head(queue) = queue[1] /\ Tail(queue) \in Seq(Editable)
      /\ Len(Tail(queue)) = Len(queue) - 1 /\ Len(queue) # 0
      /\ \A n \in 1 .. Len(Tail(queue)) : Tail(queue)[n] = queue[n + 1]
  BY <1>1, HeadTailProperties, EmptySeq
<1>3. ASSUME NEW n \in DOMAIN queue, n # 1 PROVE queue[n] \in ToSet(Tail(queue))
  <2>1. n - 1 \in 1 .. Len(Tail(queue)) /\ (n - 1) + 1 = n
    BY <1>1, <1>2, <1>3
  <2>2. Tail(queue)[n - 1] = queue[n]
    BY <1>2, <2>1
  <2>3. DOMAIN Tail(queue) = 1 .. Len(Tail(queue))
    BY <1>2, LenProperties
  <2> QED
    BY <2>1, <2>2, <2>3 DEF ToSet
<1> QED
  BY <1>2, <1>3 DEF ToSet

\* A step of collect by which nothing is reported less and no name more is left.
LEMMA SearchGoesOn ==
    ASSUME SearchInv, spc \in {"collect", "apply"}, spc' \in {"collect", "apply"},
           UNCHANGED <<matcher, body, failed, covered>>, suppressed => suppressed',
           DOMAIN edits \subseteq DOMAIN edits',
           \A path \in DOMAIN edits' : Clean(edits'[path]),
           spc' = "apply" => text' = AtHead',
           \A path \in Open : path \in ToSet(queue) =>
               \/ path \in ToSet(queue') \/ path \in DOMAIN edits'
               \/ Clean(body[path].text) \/ (suppressed' /\ ~failed)
    PROVE  SearchInv'
<1>1. Open' = Open /\ pats' = pats
  BY DEF Open, matcher
<1>2. ASSUME NEW path \in Open
      PROVE  path \in ToSet(queue') \/ path \in DOMAIN edits' \/ Accounted(body[path].text)'
  <2>1. path \in ToSet(queue) \/ path \in DOMAIN edits \/ Accounted(body[path].text)
    BY DEF SearchInv
  <2> QED
    BY <1>1, <2>1 DEF Accounted, Clean
<1>3. \A path \in DOMAIN edits' : Clean(edits[path])'
  BY <1>1 DEF Clean
<1> QED
  BY <1>1, <1>2, <1>3 DEF SearchInv, Accounted, Clean

\* Only what was asked for is looked at.
LEMMA SearchStep ==
    ASSUME SanInv, PassInv, SearchInv, [SanNext]_sanvars
    PROVE  SearchInv'
<1>a. /\ covered \subseteq ModelFields /\ ArePatterns(pats)
      /\ \A path \in DOMAIN edits : Clean(edits[path])
  BY DEF SearchInv, PassInv
<1>1. CASE Override
  <2>1. /\ spc = "override" /\ spc' = spc /\ k <= Len(ModelPaths)
        /\ covered' \subseteq covered \cup {ModelPaths[k]}
        /\ UNCHANGED <<matcher, body, edits>>
    BY <1>1 DEF Override, foldvars
  <2>2. ModelPaths[k] \in ModelFields
    <3>1. k \in DOMAIN ModelPaths
      BY <2>1, ModelPathsFacts DEF SanInv
    <3> QED
      BY <3>1 DEF ModelFields
  <2>3. pats' = pats
    BY <2>1 DEF matcher
  <2> QED
    BY <1>a, <2>1, <2>2, <2>3 DEF SearchInv, Clean
<1>2. CASE Search
  <2>1. /\ spc = "override" /\ k > Len(ModelPaths) /\ pats' = pats
        /\ UNCHANGED <<matcher, body, failed, doc, covered, edits, suppressed>>
    BY <1>2 DEF Search, foldvars, matcher
  <2>2. Open' = Open /\ Plain' = Plain
    BY <2>1 DEF Open, Plain
  <2>3. CASE BytesMayMatch(doc)
    <3>1. queue' = SetToSeq(Candidates) /\ spc' = "collect"
      BY <1>2, <2>3 DEF Search
    <3>2. IsFiniteSet(Candidates)
      <4>1. DOMAIN doc = DOMAIN body /\ IsFiniteSet(DOMAIN body)
        BY DEF SanInv, IsDocument
      <4>2. Candidates \in SUBSET DOMAIN body
        BY <4>1 DEF Candidates
      <4> QED
        BY <4>1, <4>2, FS_Subset
    <3>3. Candidates \subseteq ToSet(queue')
      BY <3>1, <3>2, QueueHasAll
    <3>4. \A path \in Open : path \in ToSet(queue')
      BY <2>1, <3>3, OpenIsCandidate
    <3> QED
      BY <1>a, <2>1, <2>2, <3>1, <3>4 DEF SearchInv, Clean
  <2>4. CASE ~BytesMayMatch(doc)
    <3>1. spc' = "done"
      BY <1>2, <2>4 DEF Search
    <3>2. ASSUME NEW path \in Open, Plain PROVE ~Leaks(doc[path].text, pats)
      <4>1. path \in DOMAIN body /\ path \notin ModelFields /\ IsString(body, path)
        BY DEF Open
      <4>2. doc[path] = body[path] /\ body[path].text \in Characters /\ DOMAIN doc = DOMAIN body
        BY <2>1, <4>1, TextsAre DEF SanInv
      <4>3. IsString(doc, path) /\ ~doc[path].escaped
        BY <3>2, <4>1, <4>2 DEF IsString, Plain
      <4>4. ~MayMatch(doc[path].text, pats)
        BY <2>4, <4>1, <4>2, <4>3 DEF BytesMayMatch
      <4> QED
        BY <1>a, <4>2, <4>4, LeakMayMatch
    <3> QED
      BY <1>a, <2>1, <2>2, <3>1, <3>2 DEF SearchInv, Clean, Accounted
  <2> QED
    BY <2>3, <2>4
<1>3. CASE PassOver
  <2>1. /\ spc = "collect" /\ queue # <<>> /\ TooLong(AtHead) /\ queue' = Tail(queue)
        /\ suppressed' = (suppressed \/ MayMatch(AtHead, pats))
        /\ spc' = "collect" /\ UNCHANGED <<matcher, body, failed, covered, edits>>
    BY <1>3 DEF PassOver, foldvars
  <2>2. ~failed
    BY <2>1 DEF TooLong
  <2>3. ASSUME NEW path \in Open, path = Head(queue)
        PROVE  Clean(body[path].text) \/ suppressed'
    <3>1. body[path].text \in Characters /\ AtHead = body[path].text
      BY <2>1, <2>3, TextsAre DEF Open, AtHead
    <3> QED
      BY <1>a, <2>1, <3>1, LeakMayMatch DEF Clean
  <2>4. \A path \in Open : path \in ToSet(queue) =>
            path \in ToSet(queue') \/ Clean(body[path].text) \/ (suppressed' /\ ~failed)
    BY <2>1, <2>2, <2>3, QueueFacts
  <2>5. \A path \in DOMAIN edits' : Clean(edits'[path])
    BY <1>a, <2>1
  <2> QED
    BY <2>1, <2>4, <2>5, SearchGoesOn
<1>4. CASE Apply
  <2>1. /\ spc = "collect" /\ queue' = queue /\ spc' = "apply" /\ text' = AtHead
        /\ UNCHANGED <<matcher, body, failed, doc, covered, edits, suppressed>>
    BY <1>4 DEF Apply, Call
  <2>2. AtHead' = AtHead
    BY <2>1 DEF AtHead
  <2>3. \A path \in DOMAIN edits' : Clean(edits'[path])
    BY <1>a, <2>1
  <2> QED
    BY <2>1, <2>2, <2>3, SearchGoesOn
<1>5. CASE ReplaceOn
  <2>1. /\ spc = "apply" /\ queue' = queue /\ spc' = "apply" /\ text' = text
        /\ UNCHANGED <<matcher, body, failed, doc, covered, edits, suppressed>>
    BY <1>5 DEF ReplaceOn, FoldNext, Skip, SkipTarget, ReplaceHit, FinishPass
  <2>2. AtHead' = AtHead /\ text = AtHead
    BY <2>1 DEF AtHead, SearchInv
  <2>3. \A path \in DOMAIN edits' : Clean(edits'[path])
    BY <1>a, <2>1
  <2> QED
    BY <2>1, <2>2, <2>3, SearchGoesOn
<1>6. CASE Applied
  <2>1. /\ spc = "apply" /\ done /\ queue' = Tail(queue) /\ spc' = "collect"
        /\ edits' = IF out = text THEN edits
                    ELSE [path \in DOMAIN edits \cup {Head(queue)} |->
                            IF path = Head(queue) THEN out ELSE edits[path]]
        /\ UNCHANGED <<matcher, body, failed, doc, covered, suppressed>>
    BY <1>6 DEF Applied, Return
  <2>2. queue # <<>> /\ text = AtHead /\ text \in Characters /\ out = Rest(text, pats)[1]
    BY <2>1 DEF SanInv, SearchInv, PassInv
  <2>3. Clean(out)
    BY <1>a, <2>2, OnePass DEF Clean
  <2>4. \A path \in DOMAIN edits' : Clean(edits'[path])
    BY <1>a, <2>1, <2>3
  <2>5. ASSUME NEW path \in Open, path = Head(queue)
        PROVE  path \in DOMAIN edits' \/ Clean(body[path].text)
    <3>1. AtHead = body[path].text
      BY <2>1, <2>5, TextsAre DEF Open, AtHead
    <3> QED
      BY <2>1, <2>2, <2>3, <2>5, <3>1
  <2>6. \A path \in Open : path \in ToSet(queue) =>
            path \in ToSet(queue') \/ path \in DOMAIN edits' \/ Clean(body[path].text)
    BY <2>1, <2>2, <2>5, QueueFacts
  <2>7. DOMAIN edits \subseteq DOMAIN edits'
    BY <2>1
  <2> QED
    BY <2>1, <2>4, <2>6, <2>7, SearchGoesOn
<1>7. CASE Write
  <2>1. /\ spc = "collect" /\ queue = <<>> /\ spc' = "done" /\ pats' = pats
        /\ doc' = [path \in DOMAIN doc |->
                     IF path \in DOMAIN edits
                     THEN [text |-> edits[path], escaped |-> FALSE] ELSE doc[path]]
        /\ UNCHANGED <<body, failed, covered, edits, suppressed>>
    BY <1>7 DEF Write, foldvars, matcher
  <2>2. Open' = Open
    BY <2>1 DEF Open
  <2>3. ASSUME NEW path \in Open PROVE Accounted(doc'[path].text)
    <3>1. path \in DOMAIN body /\ path \notin ModelFields
      BY DEF Open
    <3>2. doc[path] = body[path] /\ DOMAIN doc = DOMAIN body
      BY <2>1, <3>1, TextsAre DEF SanInv
    <3>3. path \notin ToSet(queue)
      BY <2>1, EmptySeq DEF ToSet
    <3>4. path \in DOMAIN edits \/ Accounted(body[path].text)
      BY <2>1, <3>3 DEF SearchInv
    <3>5. CASE path \in DOMAIN edits
      <4>1. doc'[path].text = edits[path]
        BY <2>1, <3>1, <3>2, <3>5
      <4> QED
        BY <1>a, <3>5, <4>1 DEF Accounted
    <3>6. CASE path \notin DOMAIN edits
      BY <2>1, <3>1, <3>2, <3>4, <3>6
    <3> QED
      BY <3>5, <3>6
  <2>4. \A path \in Open' : Accounted(doc[path].text)'
    BY <2>1, <2>2, <2>3 DEF Accounted, Clean
  <2>5. \A path \in DOMAIN edits' : Clean(edits[path])'
    BY <1>a, <2>1 DEF Clean
  <2> QED
    BY <1>a, <2>1, <2>4, <2>5 DEF SearchInv
<1>8. CASE UNCHANGED sanvars
  BY <1>8 DEF sanvars, foldvars, matcher, SearchInv, Open, Clean, Accounted, Plain, AtHead,
              IsString
<1> QED
  BY <1>1, <1>2, <1>3, <1>4, <1>5, <1>6, <1>7, <1>8 DEF SanNext

LEMMA SearchInvariance == SanSpec => []SearchInv
  BY SearchBegins, SearchStep, SanInvariance, PassInvariance, PTL DEF SanSpec

----------------------------------------------------------------------------
(* The theorems                                                            *)

\* fold.go:199-244, 81-102: whatever the names, their aliases, the global pairs and
\* the text, replace makes of it what its definition from the end of the text
\* backwards says, and leaves the public name as it is.
THEOREM PassIsReplacement == SanSpec => []PassIsRight
<1>1. PassInv => PassIsRight
  BY ReferenceIsRest DEF PassInv, PassIsRight, MatchesReference, PublicIsStable
<1> QED
  BY <1>1, PassInvariance, PTL

\* body.go:62-71, 124, 167, sanitize.go:39-41, sse.go:136-139: for every answer,
\* every protocol and every set of names, a model field ends as the public name
\* to the letter, what a model has written, in a list or not, is not touched, and
\* an answer that is no longer what the upstream sent is reported as changed, so
\* that the caller never sends the bytes it had before.
THEOREM FieldRulesHold == SanSpec => []FieldsKeepTheirRules
<1>1. ASSUME SanInv PROVE ModelIsPublic
  <2> SUFFICES ASSUME spc = "done", NEW path \in ToSet(ModelPaths) \cap DOMAIN doc
               PROVE  doc[path].text \in {public, NoString}
    BY DEF ModelIsPublic
  <2>1. PICK j \in DOMAIN ModelPaths : path = ModelPaths[j]
    BY DEF ToSet
  <2>2. j < k
    BY <1>1, ModelPathsFacts DEF SanInv
  <2>3. path \in DOMAIN body
    BY <1>1 DEF SanInv
  <2>4. Settled(path)
    BY <1>1, <2>1, <2>2, <2>3 DEF SanInv
  <2> QED
    BY <2>4 DEF Settled
<1>2. ASSUME SanInv PROVE ContentUntouched
  <2> SUFFICES ASSUME NEW path \in DOMAIN doc, path \notin ToSet(ModelPaths), InContent(path)
               PROVE  doc[path] = body[path]
    BY DEF ContentUntouched, InContent
  <2>1. path \notin ModelFields
    BY DEF ModelFields, ToSet
  <2>2. path \in DOMAIN body /\ path \notin Editable
    BY <1>2 DEF SanInv, Editable
  <2> QED
    BY <1>2, <2>1, <2>2 DEF SanInv
<1>3. SanInv => ChangeIsReported
  BY DEF SanInv, ChangeIsReported
<1>4. SanInv => FieldsKeepTheirRules
  BY <1>1, <1>2, <1>3 DEF FieldsKeepTheirRules
<1> QED
  BY <1>4, SanInvariance, PTL

\* overlap_test.go:94-95: as long as the names and their replacements are apart,
\* one pass leaves no upstream name behind and a second one changes nothing.
THEOREM OnePassSuffices == SanSpec => []OnePassIsEnough
<1>1. PassInv => OnePassIsEnough
  <2> SUFFICES ASSUME PassInv, done, text # <<>>, Apart(pats)
               PROVE  Reference(out, pats) = out /\ ~Leaks(out, pats)
    BY DEF OnePassIsEnough
  <2>1. text \in Characters /\ ArePatterns(pats) /\ out = Rest(text, pats)[1]
    BY DEF PassInv
  <2> QED
    BY <2>1, OnePass, ReferenceIsRest
<1> QED
  BY <1>1, PassInvariance, PTL

\* body.go:139-157, fold.go:155-158: whatever the answer, the names and the limits, as
\* long as the names and their replacements are apart: a name that is left where
\* names are searched for is reported, and in an error no name is left at all.
THEOREM NoLeakUnreported == SanSpec => []LeaksAreReported
<1>1. ASSUME SanInv, SearchInv PROVE LeaksAreReported
  <2> SUFFICES ASSUME spc = "done", Plain, Apart(pats), NEW path \in Searched \ ToSet(ModelPaths),
                      Leaks(doc[path].text, pats)
               PROVE  suppressed /\ ~failed
    BY DEF LeaksAreReported
  <2>1. /\ path \in DOMAIN body /\ path \notin ModelFields /\ IsString(doc, path)
        /\ Len(path) <= MaxScanDepth /\ \A key \in ToSet(path) : key \notin ContentFields
    BY <1>1 DEF Searched, ToSet, ModelFields, SanInv
  <2>2. IsString(body, path)
    <3> SUFFICES ASSUME ~IsString(body, path) PROVE FALSE
      OBVIOUS
    <3>1. doc[path] = body[path]
      BY <1>1, <2>1 DEF SanInv, Editable
    <3> QED
      BY <2>1, <3>1 DEF IsString
  <2>3. path \in Open
    BY <2>1, <2>2 DEF Open
  <2> QED
    BY <1>1, <2>3 DEF SearchInv, Accounted, Clean
<1> QED
  BY <1>1, SanInvariance, SearchInvariance, PTL
=============================================================================
